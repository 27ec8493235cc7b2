----------------------------- MODULE FlashProofs -----------------------------
(***************************************************************************)
(* What is in the flash and what a later boot makes of it: the proofs.     *)
(*                                                                         *)
(* No boot runs an ISP that is put together from two stages.  Nothing      *)
(* erases the flash, so pages of an old image stay in it, and what keeps   *)
(* them from a later load is that Blanking_Check marks their blocks.  But  *)
(* it looks only at as many blocks as it needs.  The invariant is that an  *)
(* image begins in the first good block and leaves no good block between   *)
(* its pages untouched (Packed): a check that finds one blank block among  *)
(* the first ones has left no page of an older image behind it (NoOther),  *)
(* and the good blocks hold pages of one image at a time (Single).         *)
(*                                                                         *)
(* Behind it, in sections of their own: main implements ImageStore, what   *)
(* Blanking_Check does not look at, and what a torn update leaves.         *)
(***************************************************************************)
EXTENDS UpgradeProofs

(* A page of an image in a block that is read. *)
Held(x) == x[1] \notin bad /\ page[x] \in Data

(* Something was written at the start of block b. *)
Begun(b) == page[<<b, 0>>] # Blank
PassedBy(b) == b \in bad \/ Begun(b)

Single == \A x, y \in Addr : Held(x) /\ Held(y) => page[x].img = page[y].img
Packed == \A x \in Addr : Held(x) => \A b \in 0 .. x[1] : PassedBy(b)

Needed ==
  boot = "blank" =>
    /\ need = BlkNum(len)
    /\ pc = "idle" => Enough(need)

(* While an image is written there is no page of another. *)
Writing == boot \in {"header", "isp"}
Mine == Writing /\ len > 0 => \A x \in Addr : Held(x) => page[x].img = staged

(* The header goes to the first good block. *)
FirstBegun ==
  boot = "header" =>
    /\ buf[0] = Page(staged, 0)
    /\ left > 0 => addr[2] = 0 /\ 0 .. addr[1] - 1 \subseteq bad
    /\ left = 0 => \A b \in Blocks : b \notin bad /\ 0 .. b - 1 \subseteq bad => Begun(b)
    /\ wrapped => Blocks \subseteq bad

(* The ISP leaves no good block out, before or after it wraps. *)
Behind(b) == b < addr[1] \/ (b = addr[1] /\ addr[2] > 0) \/ wrapped
PassedBegun ==
  boot = "isp" =>
    /\ \A i \in 0 .. len - 1 : buf[i] = Page(staged, i + 1)
    /\ PassedBy(0)
    /\ left > 0 => \A b \in Blocks : Behind(b) => PassedBy(b)

LandedBegun ==
  /\ Writing /\ Landed => page[addr] # Blank
  /\ boot \in {"start", "init", "blank"} => ~wrapped

(* What a load has moved came from good blocks, or an upload was copied. *)
FromFlash ==
  \A i \in 0 .. MaxPages - 1 : buf[i] \in Data => \E x \in Addr : Held(x) /\ page[x] = buf[i]
FromStage == \A i \in 0 .. MaxPages - 1 : buf[i] \in Data => buf[i].img = staged
Sources ==
  /\ boot = "load" => FromFlash
  /\ boot = "jump" => FromFlash \/ FromStage

Written == Mine /\ FirstBegun /\ PassedBegun /\ LandedBegun
FlashInv == IInv /\ Single /\ Packed /\ Needed /\ Written /\ Sources

USE GeometryAssumption, CellAssumption, TargetAssumption, MaxPagesAssumption,
    UpgradeAssumption

-----------------------------------------------------------------------------
(* The effect of one program operation, done or torn. *)
LEMMA ProgramKeeps ==
  ASSUME page \in [Addr -> Cell], NEW a \in Addr, a[1] \notin bad, NEW d \in Data,
         NEW c \in {Garbled, Programmed(a[1], page[a], d)},
         page' = [page EXCEPT ![a] = c], bad' = bad, Single, Packed,
         page[a] = Blank => \A x \in Addr : Held(x) => page[x].img = d.img,
         \A b \in 0 .. a[1] : PassedBy(b) \/ (b = a[1] /\ a[2] = 0)
  PROVE  /\ Single' /\ Packed'
         /\ page'[a] # Blank
         /\ \A x \in Addr : page[x] # Blank => page'[x] # Blank
         /\ \A x \in Addr : Held(x)' => (Held(x) /\ page'[x] = page[x]) \/ page'[x] = d
<1>1. /\ c # Blank /\ c \in {Garbled, d} /\ d # Blank /\ d # Garbled
      /\ c = d => page[a] = Blank \/ page[a] = d
  BY DEF Programmed
<1>2. page'[a] = c /\ \A x \in Addr : x # a => page'[x] = page[x]
  OBVIOUS
<1>3. ASSUME NEW x \in Addr, Held(x)'
      PROVE  \/ Held(x) /\ page'[x] = page[x]
             \/ x = a /\ page'[x] = d /\ page[a] = Blank
  BY <1>1, <1>2, <1>3 DEF Held
<1>4. Single'
  <2> SUFFICES ASSUME NEW x \in Addr, NEW y \in Addr, Held(x)', Held(y)'
               PROVE  page'[x].img = page'[y].img
    BY DEF Single
  <2>1. CASE Held(x) /\ page'[x] = page[x] /\ Held(y) /\ page'[y] = page[y]
    BY <2>1 DEF Single
  <2>2. CASE x = a /\ page'[x] = d /\ page[a] = Blank
    BY <1>3, <2>2
  <2>3. CASE y = a /\ page'[y] = d /\ page[a] = Blank
    BY <1>3, <2>3
  <2>4. QED
    BY <1>3, <2>1, <2>2, <2>3
<1>5. \A x \in Addr : page[x] # Blank => page'[x] # Blank
  BY <1>1, <1>2
<1>6. \A b \in Blocks : PassedBy(b) => PassedBy(b)'
  <2>1. \A b \in Blocks : <<b, 0>> \in Addr
    BY DEF Addr, Blocks, Pages
  <2>2. QED
    BY <1>5, <2>1 DEF PassedBy, Begun
<1>7. Packed'
  <2> SUFFICES ASSUME NEW x \in Addr, Held(x)', NEW b \in 0 .. x[1] PROVE PassedBy(b)'
    BY DEF Packed
  <2>0. x[1] \in Blocks /\ a = <<a[1], a[2]>>
    BY AddrClosed
  <2>1. b \in Blocks
    BY <2>0 DEF Blocks
  <2>2. CASE Held(x)
    BY <1>6, <2>1, <2>2 DEF Packed
  <2>3. CASE x = a
    <3>1. CASE PassedBy(b)
      BY <1>6, <2>1, <3>1
    <3>2. CASE b = a[1] /\ a[2] = 0
      <4>1. <<b, 0>> = a
        BY <2>0, <3>2
      <4>2. QED
        BY <1>1, <1>2, <4>1 DEF PassedBy, Begun
    <3>3. QED
      BY <2>3, <3>1, <3>2
  <2>4. QED
    BY <1>3, <2>2, <2>3
<1>8. \A x \in Addr : Held(x)' => (Held(x) /\ page'[x] = page[x]) \/ page'[x] = d
  BY <1>3
<1>9. QED
  BY <1>1, <1>2, <1>4, <1>5, <1>7, <1>8

(* Marking blocks takes pages away and adds none. *)
LEMMA MarkKeeps ==
  ASSUME page' = page, bad \subseteq bad', Single, Packed
  PROVE  Single' /\ Packed'
BY DEF Single, Packed, Held, PassedBy, Begun

LEMMA BlkNumPositive == ASSUME NEW n \in Nat, n > 0 PROVE BlkNum(n) > 0
<1>1. n \div PagesPerBlock \in Nat /\ n % PagesPerBlock \in Nat
  OBVIOUS
<1>2. CASE n % PagesPerBlock = 0
  <2>1. n \div PagesPerBlock # 0
    BY <1>2
  <2>2. QED
    BY <1>1, <1>2, <2>1 DEF BlkNum
<1>3. CASE n % PagesPerBlock # 0
  BY <1>1, <1>3 DEF BlkNum
<1>4. QED
  BY <1>2, <1>3

(* Blanking_Check for at least one block, once it has returned, has marked *)
(* the blocks of every image that was in the flash, looked at or not.      *)
LEMMA NoOther ==
  ASSUME FlashInv, boot = "blank", pc = "idle", len > 0
  PROVE  \A x \in Addr : ~Held(x)
<1>1. len \in Nat /\ endBlk \in Nat
  BY DEF FlashInv, IInv, MainInv, TypeOK, NandTypeOK
<1>2. need > 0 /\ Enough(need)
  BY <1>1, BlkNumPositive DEF FlashInv, Needed
<1>3. Found # {}
  BY <1>2, FS_EmptySet DEF Enough
<1>4. PICK e \in Blocks : e < endBlk /\ e \notin bad
  BY <1>3 DEF Found
<1>5. Found \subseteq BlankBlocks
  BY DEF FlashInv, IInv, Cover
<1> SUFFICES ASSUME NEW x \in Addr, Held(x) PROVE FALSE
  OBVIOUS
<1>6. x = <<x[1], x[2]>> /\ x[1] \in Blocks /\ x[2] \in Pages /\ 0 \in Pages
  BY AddrClosed, ZeroAddr
<1>7. CASE e <= x[1]
  <2>1. e \in 0 .. x[1] /\ e \in Blocks
    BY <1>1, <1>6, <1>7 DEF Blocks
  <2>2. Begun(e)
    BY <1>4, <2>1 DEF FlashInv, Packed, PassedBy
  <2>3. page[<<e, 0>>] = Blank
    BY <1>4, <1>5, <1>6, <2>1 DEF BlankBlocks, Found
  <2>4. QED
    BY <2>2, <2>3 DEF Begun
<1>8. CASE x[1] < e
  <2>1. x[1] \in Found
    BY <1>1, <1>4, <1>6, <1>8 DEF Blocks, Held, Found
  <2>2. x[1] \in BlankBlocks
    BY <1>5, <1>6, <2>1
  <2>3. page[<<x[1], x[2]>>] = Blank
    BY <1>6, <2>2 DEF BlankBlocks
  <2>4. QED
    BY <1>6, <2>3 DEF Held
<1>9. QED
  BY <1>1, <1>6, <1>7, <1>8 DEF Blocks

-----------------------------------------------------------------------------
(* A program command is the header's or the ISP's, its page one of the     *)
(* staged image, and everything before it is begun.                        *)
LEMMA ProgramUnderWay ==
  ASSUME FlashInv, cmd = "page_write"
  PROVE  /\ Writing /\ left > 0 /\ nadr = addr /\ addr \in Addr /\ addr[1] \notin bad
         /\ staged \in Images /\ buf[pos] \in Data /\ buf[pos].img = staged
         /\ page[addr] = Blank => \A x \in Addr : Held(x) => page[x].img = staged
         /\ \A b \in 0 .. addr[1] : PassedBy(b) \/ (b = addr[1] /\ addr[2] = 0)
<1>1. /\ MainInv /\ Packed /\ Mine /\ FirstBegun /\ PassedBegun
      /\ NandInv /\ Sync /\ boot \in BootPCs
  BY DEF FlashInv, IInv, MainInv, Written, TypeOK
<1>2. /\ pc \in {"dma", "poll", "halt"} /\ left > 0 /\ nadr = addr /\ addr \in Addr
      /\ addr[1] \notin bad /\ mode = 1 /\ addr[1] \in Blocks /\ addr = <<addr[1], addr[2]>>
  BY <1>1, AddrClosed DEF NandInv, Control, NandTypeOK
<1>3. Writing
  BY <1>1, <1>2 DEF Sync, Writing, BootPCs
<1>4. /\ staged \in Images /\ len \in 0 .. MaxPages /\ pos \in Nat /\ left \in Nat
      /\ pos + left = IF boot = "header" THEN 1 ELSE len
  BY <1>1, <1>3 DEF Sync, Writing, MainInv, TypeOK, NandTypeOK
<1>5. \A k \in 0 .. MaxPages : Page(staged, k) \in Data /\ Page(staged, k).img = staged
  BY <1>4 DEF Page
<1>6. CASE boot = "header"
  <2>1. pos = 0 /\ buf[pos] = Page(staged, 0) /\ addr[2] = 0 /\ 0 .. addr[1] - 1 \subseteq bad
    BY <1>1, <1>2, <1>4, <1>6 DEF FirstBegun
  <2>2. ASSUME page[addr] = Blank, NEW x \in Addr, Held(x) PROVE FALSE
    <3>1. x[1] \in Blocks /\ x[1] \notin bad
      BY <2>2, AddrClosed DEF Held
    <3>2. addr[1] <= x[1]
      BY <1>2, <2>1, <3>1 DEF Blocks
    <3>3. addr[1] \in 0 .. x[1]
      BY <1>2, <3>1, <3>2 DEF Blocks
    <3>4. Begun(addr[1])
      BY <1>1, <1>2, <2>2, <3>3 DEF Packed, PassedBy
    <3>5. QED
      BY <1>2, <2>1, <2>2, <3>4 DEF Begun
  <2>3. \A b \in 0 .. addr[1] : b \in bad \/ b = addr[1]
    BY <1>2, <2>1 DEF Blocks
  <2>4. QED
    BY <1>2, <1>3, <1>4, <1>5, <2>1, <2>2, <2>3 DEF PassedBy
<1>7. CASE boot = "isp"
  <2>1. pos \in 0 .. len - 1 /\ pos + 1 \in 0 .. MaxPages /\ len > 0
    BY <1>2, <1>4, <1>7
  <2>2. buf[pos] = Page(staged, pos + 1)
    BY <1>1, <1>7, <2>1 DEF PassedBegun
  <2>3. \A x \in Addr : Held(x) => page[x].img = staged
    BY <1>1, <1>3, <2>1 DEF Mine
  <2>4. ASSUME NEW b \in 0 .. addr[1] PROVE PassedBy(b) \/ (b = addr[1] /\ addr[2] = 0)
    <3>a. addr[2] \in Pages
      BY <1>2, AddrClosed
    <3>0. addr[2] \in Nat /\ addr[1] \in 0 .. NumBlocks - 1
      BY <1>2, <3>a DEF Blocks, Pages
    <3>1. b \in Blocks /\ addr[2] \in Nat /\ addr[1] \in Nat
      BY <3>0 DEF Blocks
    <3>2. b < addr[1] \/ b = addr[1]
      BY <3>1
    <3>3. Behind(b) \/ (b = addr[1] /\ addr[2] = 0)
      BY <3>1, <3>2 DEF Behind
    <3>4. QED
      BY <1>1, <1>2, <1>7, <3>1, <3>3 DEF PassedBegun
  <2>5. QED
    BY <1>2, <1>3, <1>4, <1>5, <2>1, <2>2, <2>3, <2>4
<1>8. QED
  BY <1>3, <1>6, <1>7 DEF Writing

-----------------------------------------------------------------------------
(* Of the driver's steps in a write only three move the address, a page or *)
(* what is in the flash.                                                   *)
LEMMA WriteStep ==
  ASSUME MainInv, NandStep, Writing
  PROVE  /\ bad' = bad
         /\ \/ SkipBlock
            \/ PageDone
            \/ HwProgram(buf[pos]) /\ UNCHANGED drvVars
            \/ UNCHANGED <<page, addr, left, pos, buf, wrapped, trail>> /\ (Landed' => Landed)
<1>1. /\ bad' = bad /\ mode = 1 /\ pc \notin {"bc_wait", "bc_mark"}
  BY QuietBad DEF MainInv, Sync, Writing
<1>2. cmd # "page_read" /\ (cmd \in {"reset", "sw_reset", "sp_read"} => pc \notin {"dma", "poll"})
      /\ (dma = "armed" => cmd = "page_write") /\ cmd # "sp_write" /\ cmd # "blank_chk"
  BY <1>1 DEF MainInv, NandInv, Control
<1>3. CASE ResetDone \/ IsBadBlock \/ StartPage \/ DmaDone \/ PageTimeout \/ Close \/ Return
  BY <1>1, <1>3 DEF ResetDone, IsBadBlock, StartPage, DmaDone, PageTimeout, Close, Return,
     Landed, chipVars, readVars
<1>4. CASE BlankPassed \/ BlankFailed \/ BlankResume
  BY <1>1, <1>4 DEF BlankPassed, BlankFailed, BlankResume
<1>5. CASE (HwPlain \/ HwMark \/ HwBlankCheck(endBlk)) /\ UNCHANGED drvVars
  BY <1>1, <1>2, <1>5 DEF HwPlain, HwMark, HwBlankCheck, Landed, drvVars, readVars
<1>6. CASE DmaTransfer
  BY <1>1, <1>2, <1>6 DEF DmaTransfer, Landed
<1>7. QED
  BY <1>1, <1>3, <1>4, <1>5, <1>6 DEF NandStep, Driver, Hardware

(* A write that programs a page. *)
LEMMA WriteProgram ==
  ASSUME FlashInv, HwProgram(buf[pos]), UNCHANGED drvVars, UNCHANGED mainVars
  PROVE  Single' /\ Packed' /\ Written'
<1> DEFINE d == buf[pos]
           c == Programmed(addr[1], page[addr], d)
<1>1. /\ Writing /\ left > 0 /\ nadr = addr /\ addr \in Addr /\ addr[1] \notin bad
      /\ staged \in Images /\ d \in Data /\ d.img = staged
      /\ page[addr] = Blank => \A x \in Addr : Held(x) => page[x].img = d.img
      /\ \A b \in 0 .. addr[1] : PassedBy(b) \/ (b = addr[1] /\ addr[2] = 0)
  BY ProgramUnderWay DEF HwProgram
<1>2. page' = [page EXCEPT ![addr] = c] /\ bad' = bad
  BY <1>1 DEF HwProgram
<1>3. page \in [Addr -> Cell] /\ Single /\ Packed /\ Mine /\ FirstBegun /\ PassedBegun /\ LandedBegun
  BY DEF FlashInv, IInv, MainInv, NandInv, NandTypeOK, ChipTypeOK, Written
<1>4. c \in {Garbled, Programmed(addr[1], page[addr], d)}
  OBVIOUS
<1>5. UNCHANGED <<boot, len, staged, left, addr, pos, buf, wrapped, pc>>
  BY DEF mainVars, drvVars, readVars
<1> HIDE DEF d, c
<1>6. /\ Single' /\ Packed'
      /\ page'[addr] # Blank
      /\ \A x \in Addr : page[x] # Blank => page'[x] # Blank
      /\ \A x \in Addr : Held(x)' => (Held(x) /\ page'[x] = page[x]) \/ page'[x] = d
  BY <1>1, <1>2, <1>3, <1>4, ProgramKeeps
<1>7. Mine'
  BY <1>1, <1>3, <1>5, <1>6 DEF Mine, Writing
<1>8. \A b \in Blocks : PassedBy(b) => PassedBy(b)'
  <2>1. \A b \in Blocks : <<b, 0>> \in Addr
    BY DEF Addr, Blocks, Pages
  <2>2. QED
    BY <1>2, <1>6, <2>1 DEF PassedBy, Begun
<1>9. FirstBegun'
  <2>1. boot' = "header" => boot = "header" /\ left > 0
    BY <1>1, <1>5
  <2>2. left \in Nat
    BY DEF FlashInv, IInv, MainInv, TypeOK, NandTypeOK
  <2>3. left' > 0 /\ left' # 0
    BY <1>1, <1>5, <2>2
  <2>4. QED
    BY <1>2, <1>3, <1>5, <2>1, <2>3 DEF FirstBegun
<1>10. PassedBegun'
  BY <1>3, <1>5, <1>8, ZeroAddr DEF PassedBegun, Behind
<1>11. LandedBegun'
  BY <1>3, <1>5, <1>6 DEF LandedBegun, Writing
<1>12. QED
  BY <1>6, <1>7, <1>9, <1>10, <1>11 DEF Written

(* A write that leaves the flash as it is. *)
LEMMA WriteSame ==
  ASSUME FlashInv, Writing, page' = page, bad' = bad, UNCHANGED mainVars, buf' = buf,
         Landed' => Landed /\ addr' = addr,
         boot = "header" => FirstBegun', boot = "isp" => PassedBegun'
  PROVE  Single' /\ Packed' /\ Written'
<1>1. UNCHANGED <<boot, len, staged>>
  BY DEF mainVars
<1>2. Single /\ Packed /\ Mine /\ LandedBegun
  BY DEF FlashInv, Written
<1>3. Single' /\ Packed'
  BY <1>2, MarkKeeps
<1>4. Mine'
  BY <1>1, <1>2 DEF Mine, Writing, Held
<1>5. FirstBegun' /\ PassedBegun'
  BY <1>1 DEF FirstBegun, PassedBegun
<1>6. LandedBegun'
  BY <1>1, <1>2 DEF LandedBegun, Writing
<1>7. QED
  BY <1>3, <1>4, <1>5, <1>6 DEF Written

LEMMA WriteQuiet ==
  ASSUME FlashInv, Writing, bad' = bad, UNCHANGED mainVars,
         UNCHANGED <<page, addr, left, pos, buf, wrapped, trail>>, Landed' => Landed
  PROVE  Single' /\ Packed' /\ Written'
<1>1. FirstBegun /\ PassedBegun /\ UNCHANGED <<boot, len, staged>>
  BY DEF FlashInv, Written, mainVars
<1>2. FirstBegun' /\ PassedBegun'
  BY <1>1 DEF FirstBegun, PassedBegun, PassedBy, Begun, Behind
<1>3. QED
  BY <1>2, WriteSame

(* A block passed over is bad. *)
LEMMA WriteSkip ==
  ASSUME FlashInv, Writing, SkipBlock, UNCHANGED mainVars
  PROVE  Single' /\ Packed' /\ Written'
<1>1. FirstBegun /\ PassedBegun /\ UNCHANGED <<boot, len, staged>>
  BY DEF FlashInv, Written, mainVars
<1>2. /\ addr \in Addr /\ addr[1] \in bad /\ addr' = NextBlock(addr) /\ left > 0
      /\ wrapped' = (wrapped \/ Wraps(addr, addr')) /\ wrapped \in BOOLEAN
      /\ UNCHANGED <<page, bad, left, buf>> /\ ~Landed' /\ left \in Nat
  BY DEF SkipBlock, FlashInv, IInv, MainInv, NandInv, NandTypeOK, Control, chipVars, Landed
<1>3. addr[1] \in 0 .. NumBlocks - 1
  BY <1>2 DEF Addr, Blocks
<1>4. Wraps(addr, addr') => addr[1] + 1 = NumBlocks
  BY <1>2, <1>3 DEF Wraps, NextBlock
<1>5. /\ addr'[2] = 0
      /\ addr[1] + 1 = NumBlocks => addr'[1] = 0 /\ Wraps(addr, addr')
      /\ addr[1] + 1 # NumBlocks => addr'[1] = addr[1] + 1
  BY <1>2, <1>3 DEF NextBlock, Wraps
<1>6. ASSUME boot = "header" PROVE FirstBegun'
  <2>1. 0 .. addr[1] - 1 \subseteq bad /\ (wrapped => Blocks \subseteq bad) /\ buf[0] = Page(staged, 0)
    BY <1>1, <1>2, <1>6 DEF FirstBegun
  <2>2. 0 .. addr[1] \subseteq bad
    BY <1>2, <1>3, <2>1
  <2>3. addr[1] + 1 = NumBlocks => Blocks \subseteq bad
    BY <1>3, <2>2 DEF Blocks
  <2>4. 0 .. addr'[1] - 1 \subseteq bad
    BY <1>3, <1>5, <2>2
  <2>5. wrapped' => Blocks \subseteq bad
    BY <1>2, <1>4, <2>1, <2>3
  <2>6. QED
    BY <1>1, <1>2, <1>5, <2>1, <2>4, <2>5 DEF FirstBegun
<1>7. ASSUME boot = "isp" PROVE PassedBegun'
  <2>1. \A b \in Blocks : Behind(b) => PassedBy(b)
    BY <1>1, <1>2, <1>7 DEF PassedBegun
  <2>2. ASSUME NEW b \in Blocks, Behind(b)' PROVE PassedBy(b)
    <3>1. CASE b = addr[1]
      BY <1>2, <3>1 DEF PassedBy
    <3>2. CASE Behind(b)
      BY <2>1, <3>2
    <3>3. b < addr[1] \/ b = addr[1] \/ wrapped
      BY <1>2, <1>3, <1>4, <1>5, <2>2 DEF Behind, Blocks
    <3>4. QED
      BY <3>1, <3>2, <3>3 DEF Behind
  <2>3. QED
    BY <1>1, <1>2, <1>7, <2>2 DEF PassedBegun, PassedBy, Begun
<1>8. QED
  BY <1>2, <1>6, <1>7, WriteSame

(* A page done leaves its block begun. *)
LEMMA WritePageDone ==
  ASSUME FlashInv, Writing, PageDone, UNCHANGED mainVars
  PROVE  Single' /\ Packed' /\ Written'
<1>1. FirstBegun /\ PassedBegun /\ LandedBegun /\ UNCHANGED <<boot, len, staged>>
  BY DEF FlashInv, Written, mainVars
<1>2. /\ addr \in Addr /\ addr[1] \notin bad /\ addr' = NextPage(addr) /\ left > 0
      /\ left' = left - 1 /\ left \in Nat /\ wrapped \in BOOLEAN
      /\ wrapped' = (wrapped \/ (left > 1 /\ Wraps(addr, addr')))
      /\ UNCHANGED <<page, bad, buf>> /\ Landed /\ ~Landed'
  BY DEF PageDone, FlashInv, IInv, MainInv, NandInv, NandTypeOK, Control, chipVars, Landed
<1>3. addr[1] \in 0 .. NumBlocks - 1 /\ addr[2] \in 0 .. PagesPerBlock - 1
      /\ addr = <<addr[1], addr[2]>>
  BY <1>2 DEF Addr, Blocks, Pages
<1>4. page[addr] # Blank
  BY <1>1, <1>2 DEF LandedBegun
<1>5. addr[2] = 0 => Begun(addr[1])
  BY <1>3, <1>4 DEF Begun
<1>6. ASSUME boot = "header" PROVE FirstBegun'
  <2>1. /\ addr[2] = 0 /\ 0 .. addr[1] - 1 \subseteq bad /\ buf[0] = Page(staged, 0)
        /\ wrapped => Blocks \subseteq bad
    BY <1>1, <1>2, <1>6 DEF FirstBegun
  <2>2. left = 1
    BY <1>2, <1>6 DEF FlashInv, IInv, MainInv, Sync, TypeOK, NandTypeOK
  <2>3. left' = 0 /\ wrapped' = wrapped
    BY <1>2, <2>2
  <2>4. ASSUME NEW b \in Blocks, b \notin bad, 0 .. b - 1 \subseteq bad PROVE Begun(b)
    <3>1. b = addr[1]
      <4>1. CASE b < addr[1]
        <5>1. b \in 0 .. addr[1] - 1
          BY <1>3, <4>1 DEF Blocks
        <5>2. QED
          BY <2>1, <2>4, <5>1
      <4>2. CASE addr[1] < b
        <5>1. addr[1] \in 0 .. b - 1
          BY <1>3, <4>2 DEF Blocks
        <5>2. QED
          BY <1>2, <2>4, <5>1
      <4>3. QED
        BY <1>3, <4>1, <4>2 DEF Blocks
    <3>2. QED
      BY <1>5, <2>1, <3>1
  <2>5. \A b \in Blocks : b \notin bad' /\ 0 .. b - 1 \subseteq bad' => Begun(b)'
    BY <1>2, <2>4 DEF Begun
  <2>6. QED
    BY <1>1, <1>2, <2>1, <2>3, <2>5 DEF FirstBegun
<1>7. ASSUME boot = "isp" PROVE PassedBegun'
  <2>1. \A b \in Blocks : Behind(b) => PassedBy(b)
    BY <1>1, <1>2, <1>7 DEF PassedBegun
  <2>2. PassedBy(addr[1])
    <3>1. CASE addr[2] > 0
      BY <1>3, <2>1, <3>1 DEF Behind, Blocks
    <3>2. CASE addr[2] = 0
      BY <1>5, <3>2 DEF PassedBy
    <3>3. QED
      BY <1>3, <3>1, <3>2
  <2>3. ASSUME left' > 0, NEW b \in Blocks, Behind(b)' PROVE PassedBy(b)
    <3>1. CASE b = addr[1]
      BY <2>2, <3>1
    <3>2. CASE Behind(b)
      BY <2>1, <3>2
    <3>3. b < addr[1] \/ b = addr[1] \/ wrapped
      <4>1. Wraps(addr, addr') => addr[1] + 1 = NumBlocks
        BY <1>2, <1>3 DEF Wraps, NextPage, NextBlock
      <4>2. addr'[1] = addr[1] \/ (addr'[2] = 0 /\ (addr'[1] = addr[1] + 1 \/ addr'[1] = 0))
        BY <1>2, <1>3 DEF NextPage, NextBlock
      <4>3. QED
        BY <1>2, <1>3, <2>3, <4>1, <4>2 DEF Behind, Blocks
    <3>4. QED
      BY <3>1, <3>2, <3>3 DEF Behind
  <2>4. QED
    BY <1>1, <1>2, <1>7, <2>3 DEF PassedBegun, PassedBy, Begun
<1>8. QED
  BY <1>2, <1>6, <1>7, WriteSame

LEMMA WriteNandStep ==
  ASSUME FlashInv, NandStep, UNCHANGED mainVars, Writing
  PROVE  Single' /\ Packed' /\ Written'
<1>1. MainInv
  BY DEF FlashInv, IInv
<1>2. QED
  BY <1>1, WriteStep, WriteProgram, WriteQuiet, WriteSkip, WritePageDone

-----------------------------------------------------------------------------
(* Outside a write no page changes, and blocks are only marked.            *)
LEMMA QuietFlash ==
  ASSUME FlashInv, NandStep, ~Writing
  PROVE  /\ page' = page /\ bad \subseteq bad' /\ Single' /\ Packed'
         /\ boot \in {"start", "init", "blank"} => wrapped' = wrapped
<1>1. MainInv /\ Single /\ Packed
  BY DEF FlashInv, IInv
<1>2. page' = page
  BY <1>1, QuietPage DEF Writing
<1>3. bad \subseteq bad'
  <2>1. CASE Driver
    BY <2>1 DEF Driver, ResetDone, IsBadBlock, SkipBlock, StartPage, DmaDone, PageDone,
       PageTimeout, Close, Return, BlankPassed, BlankFailed, BlankResume, chipVars
  <2>2. CASE Hardware
    BY <2>2 DEF Hardware, HwPlain, HwProgram, HwMark, HwBlankCheck, DmaTransfer
  <2>3. QED
    BY <2>1, <2>2 DEF NandStep
<1>4. boot \in {"start", "init", "blank"} => pc \in {"idle", "bc_wait", "bc_mark"}
  BY <1>1 DEF MainInv, Sync
<1>5. pc \in {"idle", "bc_wait", "bc_mark"} => wrapped' = wrapped
  BY DEF NandStep, Driver, Hardware, ResetDone, IsBadBlock, SkipBlock, StartPage, DmaDone,
     PageDone, PageTimeout, Close, Return, BlankPassed, BlankFailed, BlankResume, DmaTransfer,
     readVars, drvVars
<1>6. QED
  BY <1>1, <1>2, <1>3, <1>4, <1>5, MarkKeeps

LEMMA NeededStep ==
  ASSUME FlashInv, NandStep, UNCHANGED mainVars, boot = "blank"
  PROVE  Needed'
<1>1. MainInv /\ Needed /\ NandInv /\ ScanInv /\ pc \in {"bc_wait", "bc_mark", "idle"}
  BY DEF FlashInv, IInv, MainInv, Sync
<1>2. need' = need /\ len' = len
  BY DEF NandStep, Driver, Hardware, ResetDone, IsBadBlock, SkipBlock, StartPage, DmaDone,
     PageDone, PageTimeout, Close, Return, BlankPassed, BlankFailed, BlankResume, DmaTransfer,
     blankVars, drvVars, mainVars
<1>3. ASSUME pc' = "idle" PROVE Enough(need)'
  <2>1. CASE BlankPassed
    <3>1. BlankReturn
      BY <1>1, <2>1, ScanStepDriver DEF Driver
    <3>2. endBlk' = endBlk /\ bad' = bad
      BY <2>1 DEF BlankPassed, chipVars, blankVars
    <3>3. QED
      BY <1>2, <2>1, <3>1, <3>2 DEF BlankReturn, Enough, Found
  <2>2. CASE ~BlankPassed
    <3>1. pc = "idle" /\ endBlk' = endBlk
      BY <1>1, <1>3, <2>2 DEF NandStep, Driver, Hardware, ResetDone, IsBadBlock, SkipBlock,
         StartPage, DmaDone, PageDone, PageTimeout, Close, Return, BlankFailed, BlankResume,
         DmaTransfer, blankVars, drvVars
    <3>2. cmd # "sp_write"
      BY <1>1, <3>1 DEF NandInv, Control
    <3>3. bad' = bad
      BY <3>2 DEF NandStep, Driver, Hardware, ResetDone, IsBadBlock, SkipBlock, StartPage, DmaDone,
         PageDone, PageTimeout, Close, Return, BlankPassed, BlankFailed, BlankResume, DmaTransfer,
         HwPlain, HwProgram, HwMark, HwBlankCheck, chipVars
    <3>4. QED
      BY <1>1, <1>2, <3>1, <3>3 DEF Needed, Enough, Found
  <2>3. QED
    BY <2>1, <2>2
<1>4. QED
  BY <1>1, <1>2, <1>3 DEF Needed

(* A load moves pages of good blocks, and none are marked meanwhile. *)
LEMMA SourcesStep ==
  ASSUME FlashInv, NandStep, UNCHANGED mainVars
  PROVE  Sources'
<1>1. MainInv /\ NandInv /\ Sync /\ Sources /\ boot' = boot /\ staged' = staged /\ buf \in Buffers
      /\ page \in [Addr -> Cell]
  BY DEF FlashInv, IInv, MainInv, mainVars, NandInv, NandTypeOK, ChipTypeOK
<1>2. ASSUME boot = "load" PROVE FromFlash'
  <2>1. page' = page /\ bad' = bad /\ FromFlash
    BY <1>1, <1>2, QuietPage, QuietBad DEF Sources
  <2>2. CASE buf' = buf
    BY <2>1, <2>2 DEF FromFlash, Held
  <2>3. CASE DmaTransfer /\ cmd = "page_read"
    <3>1. /\ buf' = [buf EXCEPT ![pos] = page[addr]] /\ pos \in 0 .. MaxPages - 1
          /\ addr \in Addr /\ addr[1] \notin bad
      BY <1>1, <2>3 DEF DmaTransfer, NandInv, NandTypeOK, Control
    <3>2. ASSUME NEW i \in 0 .. MaxPages - 1, buf'[i] \in Data
          PROVE  \E x \in Addr : Held(x) /\ page[x] = buf'[i]
      <4>1. CASE i = pos
        <5>1. buf'[i] = page[addr]
          BY <1>1, <3>1, <4>1 DEF Buffers
        <5>2. QED
          BY <3>1, <3>2, <5>1 DEF Held
      <4>2. CASE i # pos
        <5>1. buf'[i] = buf[i]
          BY <1>1, <3>1, <4>2 DEF Buffers
        <5>2. QED
          BY <2>1, <3>2, <5>1 DEF FromFlash
      <4>3. QED
        BY <4>1, <4>2
    <3>3. QED
      BY <2>1, <3>2 DEF FromFlash, Held
  <2>4. QED
    BY <2>2, <2>3 DEF NandStep, Driver, Hardware, ResetDone, IsBadBlock, SkipBlock, StartPage,
       DmaDone, PageDone, PageTimeout, Close, Return, BlankPassed, BlankFailed, BlankResume,
       DmaTransfer, readVars, drvVars
<1>3. ASSUME boot = "jump" PROVE FromFlash' \/ FromStage'
  <2>1. page' = page /\ bad' = bad /\ (FromFlash \/ FromStage) /\ pc = "idle" /\ dma # "armed"
    BY <1>1, <1>3, QuietPage, QuietBad DEF Sources, Sync, NandInv, Control
  <2>2. buf' = buf
    BY <2>1 DEF NandStep, Driver, Hardware, ResetDone, IsBadBlock, SkipBlock, StartPage, DmaDone,
       PageDone, PageTimeout, Close, Return, BlankPassed, BlankFailed, BlankResume, DmaTransfer,
       readVars, drvVars
  <2>3. QED
    BY <1>1, <2>1, <2>2 DEF FromFlash, FromStage, Held
<1>4. QED
  BY <1>1, <1>2, <1>3 DEF Sources

LEMMA NandStepFlash ==
  ASSUME FlashInv, NandStep, UNCHANGED mainVars
  PROVE  Single' /\ Packed' /\ Needed' /\ Written' /\ Sources'
<1>1. boot' = boot
  BY DEF mainVars
<1>2. Sources'
  BY SourcesStep
<1>3. Needed'
  BY <1>1, NeededStep DEF Needed
<1>4. CASE Writing
  BY <1>2, <1>3, <1>4, WriteNandStep
<1>5. CASE ~Writing
  <2>1. Single' /\ Packed' /\ (boot \in {"start", "init", "blank"} => wrapped' = wrapped)
    BY <1>5, QuietFlash
  <2>2. LandedBegun
    BY DEF FlashInv, Written
  <2>3. Written'
    BY <1>1, <1>5, <2>1, <2>2 DEF Written, Mine, FirstBegun, PassedBegun, LandedBegun, Writing
  <2>4. QED
    BY <1>2, <1>3, <2>1, <2>3
<1>6. QED
  BY <1>4, <1>5

-----------------------------------------------------------------------------
(* The steps of main leave the flash alone. *)
LEMMA MainFlash ==
  ASSUME FlashInv, page' = page, bad' = bad,
         boot' = "blank" => Needed', Mine', FirstBegun', PassedBegun', pc' \notin {"dma", "poll"},
         boot' \in {"start", "init", "blank"} => ~wrapped', Sources'
  PROVE  Single' /\ Packed' /\ Needed' /\ Written' /\ Sources'
<1>1. Single' /\ Packed'
  BY MarkKeeps DEF FlashInv
<1>2. LandedBegun'
  BY DEF LandedBegun, Landed
<1>3. QED
  BY <1>1, <1>2 DEF Needed, Written

(* A step to where nothing is written, loaded or checked for blanks. *)
LEMMA MainElsewhere ==
  ASSUME FlashInv, page' = page, bad' = bad, boot' \in {"init", "dead", "gonand", "boot_isp"},
         pc' \notin {"dma", "poll"}, boot' = "init" => ~wrapped'
  PROVE  Single' /\ Packed' /\ Needed' /\ Written' /\ Sources'
<1>1. Mine' /\ FirstBegun' /\ PassedBegun' /\ Sources'
  BY DEF Mine, FirstBegun, PassedBegun, Sources, Writing
<1>2. QED
  BY <1>1, MainFlash

LEMMA SetupFlash ==
  ASSUME FlashInv, SetUp
  PROVE  Single' /\ Packed' /\ Needed' /\ Written' /\ Sources'
<1>1. /\ boot' \in {"init", "dead"} /\ boot = "start" /\ UNCHANGED <<page, bad, pc, wrapped>>
  BY DEF SetUp, BootUpload, UploadCut, BootNand, BootNoBsp, EnterMain, SetupUnchanged, drvVars, readVars
<1>2. ~wrapped /\ pc = "idle"
  BY <1>1 DEF FlashInv, Written, LandedBegun, IInv, MainInv, Sync
<1>3. QED
  BY <1>1, <1>2, MainElsewhere

LEMMA UpdateIspFlash ==
  ASSUME FlashInv, UpdateIsp
  PROVE  Single' /\ Packed' /\ Needed' /\ Written' /\ Sources'
<1>1. /\ boot = "init" /\ boot' = "blank" /\ pc' = "bc_wait" /\ UNCHANGED <<page, bad, wrapped>>
      /\ need' = BlkNum(ImgPages[staged]) /\ len' = ImgPages[staged]
  BY DEF UpdateIsp, AtMain, CallBlankingCheck, readVars
<1>2. ~wrapped
  BY <1>1 DEF FlashInv, Written, LandedBegun
<1>3. Needed'
  BY <1>1 DEF Needed, BlkNum
<1>4. Mine' /\ FirstBegun' /\ PassedBegun' /\ Sources'
  BY <1>1 DEF Mine, FirstBegun, PassedBegun, Sources, Writing
<1>5. QED
  BY <1>1, <1>2, <1>3, <1>4, MainFlash

LEMMA GoSdFlash ==
  ASSUME FlashInv, GoSd
  PROVE  Single' /\ Packed' /\ Needed' /\ Written' /\ Sources'
<1>1. /\ boot' = "jump" /\ pc' = "idle" /\ UNCHANGED <<page, bad, staged>>
      /\ buf' = [i \in 0 .. MaxPages - 1 |->
                   IF i < ImgPages[staged] THEN Page(staged, i + 1) ELSE Garbled]
  BY DEF GoSd, chipVars, MainKeeps
<1>2. \A i \in 0 .. MaxPages - 1 : buf'[i] = Page(staged, i + 1) \/ buf'[i] = Garbled
  BY <1>1
<1>3. FromStage'
  BY <1>1, <1>2 DEF FromStage, Page
<1>4. Mine' /\ FirstBegun' /\ PassedBegun' /\ Sources'
  BY <1>1, <1>3 DEF Mine, FirstBegun, PassedBegun, Sources, Writing
<1>5. QED
  BY <1>1, <1>4, MainFlash

LEMMA WriteHeaderFlash ==
  ASSUME FlashInv, WriteHeader
  PROVE  Single' /\ Packed' /\ Needed' /\ Written' /\ Sources'
<1>1. /\ boot = "blank" /\ pc = "idle" /\ boot' = "header" /\ pc' = "reset" /\ addr' = <<0, 0>>
      /\ left' = 1 /\ buf' = [Unknown EXCEPT ![0] = Page(staged, 0)]
      /\ UNCHANGED <<page, bad, wrapped, staged, len>>
  BY DEF WriteHeader, Returned, CallRead, MainKeeps
<1>2. ~wrapped /\ len \in Nat
  BY <1>1 DEF FlashInv, Written, LandedBegun, IInv, MainInv, TypeOK
<1>3. Mine'
  BY <1>1, NoOther DEF Mine, Held
<1>4. buf'[0] = Page(staged, 0)
  BY <1>1, UnknownBuffer DEF Buffers
<1>5. FirstBegun'
  BY <1>1, <1>2, <1>4 DEF FirstBegun
<1>6. PassedBegun' /\ Sources'
  BY <1>1 DEF PassedBegun, Sources
<1>7. QED
  BY <1>1, <1>3, <1>5, <1>6, MainFlash

LEMMA WriteIspFlash ==
  ASSUME FlashInv, WriteIsp
  PROVE  Single' /\ Packed' /\ Needed' /\ Written' /\ Sources'
<1>1. /\ boot = "header" /\ pc = "idle" /\ boot' = "isp" /\ pc' = "reset" /\ addr' = BlockOne
      /\ buf' = [i \in 0 .. MaxPages - 1 |-> IF i < len THEN Page(staged, i + 1) ELSE Garbled]
      /\ UNCHANGED <<page, bad, wrapped, staged, len>>
  BY DEF WriteIsp, Returned, CallRead, MainKeeps
<1>2. left = 0 /\ len \in 0 .. MaxPages /\ FirstBegun /\ Mine
  BY <1>1 DEF FlashInv, Written, IInv, MainInv, Sync, TypeOK
<1>3. Mine'
  BY <1>1, <1>2 DEF Mine, Held, Writing
<1>4. PassedBy(0)
  <2>1. 0 \in Blocks /\ 0 .. 0 - 1 \subseteq bad
    BY ZeroAddr
  <2>2. QED
    BY <1>1, <1>2, <2>1 DEF FirstBegun, PassedBy
<1>5. ASSUME NEW b \in Blocks, Behind(b)' PROVE PassedBy(b)
  <2>1. b = 0 \/ wrapped
    BY <1>1, <1>5, BlockOneAddr DEF Behind, Blocks
  <2>2. wrapped => b \in bad
    BY <1>1, <1>2 DEF FirstBegun
  <2>3. QED
    BY <1>4, <2>1, <2>2 DEF PassedBy
<1>6. \A i \in 0 .. len - 1 : buf'[i] = Page(staged, i + 1)
  BY <1>1, <1>2
<1>7. PassedBegun'
  BY <1>1, <1>4, <1>5, <1>6 DEF PassedBegun, PassedBy, Begun
<1>8. FirstBegun' /\ Sources'
  BY <1>1 DEF FirstBegun, Sources
<1>9. QED
  BY <1>1, <1>3, <1>7, <1>8, MainFlash

LEMMA LoadIspFlash ==
  ASSUME FlashInv, LoadIsp
  PROVE  Single' /\ Packed' /\ Needed' /\ Written' /\ Sources'
<1>1. boot' = "load" /\ pc' = "reset" /\ buf' = Unknown /\ UNCHANGED <<page, bad>>
  BY DEF LoadIsp, CallRead
<1>2. FromFlash'
  BY <1>1 DEF FromFlash, Unknown
<1>3. Mine' /\ FirstBegun' /\ PassedBegun' /\ Sources'
  BY <1>1, <1>2 DEF Mine, FirstBegun, PassedBegun, Sources, Writing
<1>4. QED
  BY <1>1, <1>3, MainFlash

LEMMA JumpFlash ==
  ASSUME FlashInv, Jump
  PROVE  Single' /\ Packed' /\ Needed' /\ Written' /\ Sources'
<1>1. boot = "load" /\ boot' = "jump" /\ pc' = "idle" /\ UNCHANGED <<page, bad, buf>>
  BY DEF Jump, Returned, nandVars, chipVars, drvVars, readVars
<1>2. FromFlash'
  BY <1>1 DEF FlashInv, Sources, FromFlash, Held
<1>3. Mine' /\ FirstBegun' /\ PassedBegun' /\ Sources'
  BY <1>1, <1>2 DEF Mine, FirstBegun, PassedBegun, Sources, Writing
<1>4. QED
  BY <1>1, <1>3, MainFlash

(* A reset leaves the page under way as it was, programmed or torn, or one *)
(* block more marked.                                                      *)
LEMMA RestartFlash ==
  ASSUME FlashInv, Restart
  PROVE  Single' /\ Packed' /\ Needed' /\ Written' /\ Sources'
<1>1. boot' = "start" /\ ~wrapped'
  BY DEF Restart
<1>2. Needed' /\ Written' /\ Sources'
  BY <1>1 DEF Needed, Written, Mine, FirstBegun, PassedBegun, LandedBegun, Sources, Writing
<1>3. Single /\ Packed /\ page \in [Addr -> Cell]
  BY DEF FlashInv, IInv, MainInv, NandInv, NandTypeOK, ChipTypeOK
<1>4. CASE page' = page
  BY <1>2, <1>3, <1>4, MarkKeeps DEF Restart, Interrupted
<1>5. CASE page' # page
  <2>1. /\ cmd = "page_write" /\ bad' = bad
        /\ \E c \in {Garbled, Programmed(nadr[1], page[nadr], buf[pos])} :
             page' = [page EXCEPT ![nadr] = c]
    BY <1>5 DEF Restart, Interrupted
  <2> DEFINE d == buf[pos]
  <2>2. /\ nadr = addr /\ addr \in Addr /\ addr[1] \notin bad /\ d \in Data
        /\ page[addr] = Blank => \A x \in Addr : Held(x) => page[x].img = d.img
        /\ \A b \in 0 .. addr[1] : PassedBy(b) \/ (b = addr[1] /\ addr[2] = 0)
    BY <2>1, ProgramUnderWay
  <2>3. PICK c \in {Garbled, Programmed(addr[1], page[addr], d)} :
          page' = [page EXCEPT ![addr] = c]
    BY <2>1, <2>2
  <2> HIDE DEF d
  <2>4. Single' /\ Packed'
    BY <1>3, <2>1, <2>2, <2>3, ProgramKeeps
  <2>5. QED
    BY <1>2, <2>4
<1>6. QED
  BY <1>4, <1>5

LEMMA StutterFlash ==
  ASSUME FlashInv, UNCHANGED vars
  PROVE  Single' /\ Packed' /\ Needed' /\ Written' /\ Sources'
<1> USE DEF vars, nandVars, chipVars, drvVars, readVars, blankVars, mainVars
<1>1. Single' /\ Packed' /\ Needed' /\ Sources'
  BY DEF FlashInv, Single, Packed, Needed, Enough, Found, Sources, FromFlash, FromStage, Held,
     PassedBy, Begun, BlkNum
<1>2. Written'
  BY DEF FlashInv, Written, Mine, FirstBegun, PassedBegun, LandedBegun, Writing, Landed, Held,
     PassedBy, Begun, Behind
<1>3. QED
  BY <1>1, <1>2

-----------------------------------------------------------------------------
LEMMA InitFlash == Init => FlashInv
<1> SUFFICES ASSUME Init PROVE FlashInv
  OBVIOUS
<1>1. IInv
  BY InitIInv
<1>2. boot = "start" /\ ~wrapped /\ \A x \in Addr : page[x] \notin Data
  BY DEF Init, NandInit
<1>3. Single /\ Packed
  BY <1>2 DEF Single, Packed, Held
<1>4. Needed /\ Written /\ Sources
  BY <1>2 DEF Needed, Written, Mine, FirstBegun, PassedBegun, LandedBegun, Sources, Writing
<1>5. QED
  BY <1>1, <1>3, <1>4 DEF FlashInv

LEMMA NextFlash == FlashInv /\ [Next]_vars => FlashInv'
<1> SUFFICES ASSUME FlashInv, [Next]_vars
             PROVE  Single' /\ Packed' /\ Needed' /\ Written' /\ Sources'
  BY NextIInv DEF FlashInv
<1>1. CASE Main
  <2>1. CASE GoNand
    <3>1. boot' = "gonand" /\ pc' = "reset" /\ UNCHANGED <<page, bad>>
      BY <2>1 DEF GoNand, CallRead
    <3>2. QED
      BY <3>1, MainElsewhere
  <2>2. CASE BootUpdated \/ BootStored
    <3>1. boot' = "boot_isp" /\ pc' = "idle" /\ UNCHANGED <<page, bad>>
      BY <2>2 DEF BootUpdated, BootStored, Returned, drvVars
    <3>2. QED
      BY <3>1, MainElsewhere
  <2>3. QED
    BY <1>1, <2>1, <2>2, SetupFlash, UpdateIspFlash, GoSdFlash, WriteHeaderFlash, WriteIspFlash,
       LoadIspFlash, JumpFlash DEF Main, SetUp
<1>2. CASE NandStep /\ UNCHANGED mainVars
  BY <1>2, NandStepFlash
<1>3. CASE Restart
  BY <1>3, RestartFlash
<1>4. CASE UNCHANGED vars
  BY <1>4, StutterFlash
<1>5. QED
  BY <1>1, <1>2, <1>3, <1>4 DEF Next, Stopped

LEMMA FlashInvariant == Spec => []FlashInv
<1>1. QED
  BY InitFlash, NextFlash, PTL DEF Spec

(* Whatever was written before, whatever resets cut short, and whichever   *)
(* blocks are bad or fail: no boot runs an ISP put together from two       *)
(* staging areas (main.c:33-75, nandc.c:271-325).                          *)
THEOREM OneStageAlways == Spec => []OneStageRuns
<1>1. ASSUME FlashInv PROVE OneStageRuns
  <2> SUFFICES ASSUME boot = "jump", NEW j \in 0 .. len - 1, NEW k \in 0 .. len - 1,
                      buf[j] \in Data, buf[k] \in Data
               PROVE  buf[j].img = buf[k].img
    BY DEF OneStageRuns
  <2>1. j \in 0 .. MaxPages - 1 /\ k \in 0 .. MaxPages - 1
    <3>1. len \in 0 .. MaxPages
      BY <1>1 DEF FlashInv, IInv, MainInv, TypeOK
    <3>2. QED
      BY <3>1
  <2>2. CASE FromFlash
    BY <1>1, <2>1, <2>2 DEF FlashInv, Single, FromFlash
  <2>3. CASE FromStage
    BY <2>1, <2>3 DEF FromStage
  <2>4. QED
    BY <1>1, <2>2, <2>3 DEF FlashInv, Sources
<1>2. QED
  BY <1>1, FlashInvariant, PTL

-----------------------------------------------------------------------------
(***************************************************************************)
(* main implements ImageStore.  A load walks from block 1 over the same    *)
(* pages as the write did, as each page is the first good one from the     *)
(* place behind the one before, and while an image is promised no page is  *)
(* programmed and no block marked.                                         *)
(***************************************************************************)
CursorIn(t, n) == IF n = 0 THEN BlockOne ELSE NextPage(t[n - 1])
Walked(t, n) == \A k \in 0 .. n - 1 : t[k][1] \notin bad /\ Reached(CursorIn(t, k), t[k])

IspWalk ==
  boot = "isp" =>
    /\ Walked(trail, pos)
    /\ left > 0 => Reached(CursorIn(trail, pos), addr)

(* What stored promises of the flash. *)
Promise ==
  stored =>
    /\ target \in Images /\ boot \notin {"blank", "header", "isp"}
    /\ HeaderRight(target)
    /\ Walked(laid, ImgPages[target])
    /\ \A k \in 0 .. ImgPages[target] - 1 : page[laid[k]] = Page(target, k + 1)
    /\ boot \in {"boot_isp", "load"} => len = ImgPages[target]

HeaderRead ==
  stored /\ boot = "gonand" =>
    /\ left > 0 => addr[2] = 0 /\ 0 .. addr[1] - 1 \subseteq bad
    /\ Fetched => buf[0] = page[addr]
    /\ left = 0 => buf[0] = Page(target, 0)

IspRead ==
  stored /\ boot = "load" =>
    /\ left > 0 => Reached(CursorIn(laid, pos), addr)
    /\ \A k \in 0 .. pos - 1 : buf[k] = page[laid[k]]
    /\ Fetched => buf[pos] = page[addr]

StageOf ==
  /\ via = "update" => target = staged
  /\ boot = "gonand" \/ (boot \in {"boot_isp", "load"} /\ via # "update") => staged = NoImage

Kept == IspWalk /\ Promise /\ HeaderRead /\ IspRead /\ StageOf
StoreInv == FlashInv /\ Kept

USE ImagesAssumption

(* Only one good page is reached from a place. *)
LEMMA ReachedOnce ==
  ASSUME NEW c \in Addr, NEW a \in Addr, NEW b \in Addr, bad \in SUBSET Blocks,
         Reached(c, a), Reached(c, b), a[1] \notin bad, b[1] \notin bad
  PROVE  a = b
<1>1. c[1] \in 0 .. NumBlocks - 1 /\ bad # Blocks
  BY AddrClosed DEF Blocks
<1>2. Stream!Around(c[1], 0) = c[1]
  BY <1>1 DEF Stream!Around
<1>3. ASSUME NEW x \in Addr, Reached(c, x), x[1] \notin bad
      PROVE  \/ x = c /\ c[1] \notin bad
             \/ /\ c[1] \in bad
                /\ \E k \in 1 .. NumBlocks - 1 :
                     /\ x = <<Stream!Around(c[1], k), 0>> /\ Stream!Around(c[1], k) \notin bad
                     /\ \A j \in 0 .. k - 1 : Stream!Around(c[1], j) \in bad
  <2>1. CASE x = c
    BY <1>3, <2>1
  <2>2. ASSUME NEW k \in 1 .. NumBlocks - 1, x = <<Stream!Around(c[1], k), 0>>,
               \A j \in 0 .. k - 1 : Stream!Around(c[1], j) \in bad
        PROVE  c[1] \in bad /\ Stream!Around(c[1], k) \notin bad
    <3>1. 0 \in 0 .. k - 1
      OBVIOUS
    <3>2. QED
      BY <1>2, <1>3, <2>2, <3>1
  <2>3. QED
    BY <1>1, <1>3, <2>1, <2>2 DEF Reached
<1>4. CASE c[1] \notin bad
  BY <1>3, <1>4
<1>5. CASE c[1] \in bad
  <2>1. PICK k \in 1 .. NumBlocks - 1 :
          /\ a = <<Stream!Around(c[1], k), 0>> /\ Stream!Around(c[1], k) \notin bad
          /\ \A j \in 0 .. k - 1 : Stream!Around(c[1], j) \in bad
    BY <1>3, <1>5
  <2>2. PICK m \in 1 .. NumBlocks - 1 :
          /\ b = <<Stream!Around(c[1], m), 0>> /\ Stream!Around(c[1], m) \notin bad
          /\ \A j \in 0 .. m - 1 : Stream!Around(c[1], j) \in bad
    BY <1>3, <1>5
  <2>3. ~(k < m) /\ ~(m < k)
    BY <2>1, <2>2
  <2>4. QED
    BY <2>1, <2>2, <2>3
<1>6. QED
  BY <1>4, <1>5

LEMMA CursorAddr ==
  ASSUME NEW t \in [0 .. MaxPages - 1 -> Addr], NEW n \in 0 .. MaxPages
  PROVE  CursorIn(t, n) \in Addr
<1>1. CASE n = 0
  BY <1>1, BlockOneAddr DEF CursorIn
<1>2. CASE n # 0
  <2>1. t[n - 1] \in Addr
    BY <1>2
  <2>2. QED
    BY <1>2, <2>1, AddrClosed DEF CursorIn
<1>3. QED
  BY <1>1, <1>2

(* A walk goes on with the page that was reached. *)
LEMMA WalkGrows ==
  ASSUME NEW t \in [0 .. MaxPages - 1 -> Addr], NEW n \in 0 .. MaxPages - 1, NEW a \in Addr,
         Walked(t, n), Reached(CursorIn(t, n), a), a[1] \notin bad
  PROVE  /\ Walked([t EXCEPT ![n] = a], n + 1)
         /\ Reached(CursorIn([t EXCEPT ![n] = a], n + 1), NextPage(a))
<1> DEFINE u == [t EXCEPT ![n] = a]
<1>1. u[n] = a /\ \A k \in 0 .. n - 1 : u[k] = t[k]
  OBVIOUS
<1> HIDE DEF u
<1>2. \A k \in 0 .. n : CursorIn(u, k) = CursorIn(t, k)
  BY <1>1 DEF CursorIn
<1>3. ASSUME NEW k \in 0 .. n PROVE u[k][1] \notin bad /\ Reached(CursorIn(u, k), u[k])
  <2>1. CASE k = n
    BY <1>1, <1>2, <2>1
  <2>2. CASE k \in 0 .. n - 1
    BY <1>1, <1>2, <2>2 DEF Walked
  <2>3. QED
    BY <2>1, <2>2
<1>4. CursorIn(u, n + 1) = NextPage(a)
  <2>1. (n + 1) - 1 = n /\ n + 1 # 0
    OBVIOUS
  <2>2. QED
    BY <1>1, <2>1 DEF CursorIn
<1>5. Reached(CursorIn(u, n + 1), NextPage(a))
  BY <1>4 DEF Reached
<1>6. Walked(u, n + 1)
  BY <1>3 DEF Walked
<1>7. QED
  BY <1>5, <1>6 DEF u

LEMMA IspWalkStep ==
  ASSUME StoreInv, NandStep, UNCHANGED mainVars, boot = "isp"
  PROVE  IspWalk'
<1>1. /\ MainInv /\ NandInv /\ IspWalk /\ boot' = boot /\ Writing
      /\ addr \in Addr /\ bad \in SUBSET Blocks /\ pos \in 0 .. MaxPages /\ left \in Nat
      /\ trail \in [0 .. MaxPages - 1 -> Addr]
  BY DEF StoreInv, Kept, FlashInv, IInv, MainInv, mainVars, Writing, NandInv, NandTypeOK,
     ChipTypeOK
<1>2. bad' = bad
  BY <1>1, WriteStep
<1>3. CASE SkipBlock
  <2>1. /\ addr' = NextBlock(addr) /\ addr[1] \in bad /\ UNCHANGED <<trail, pos, left>>
    BY <1>3 DEF SkipBlock
  <2>2. left > 0 => Reached(CursorIn(trail, pos), NextBlock(addr))
    BY <1>1, <2>1, CursorAddr, SkipReaches DEF IspWalk
  <2>3. Walked(trail, pos)'
    BY <1>1, <1>2, <2>1 DEF IspWalk, Walked, Reached, CursorIn
  <2>4. left' > 0 => Reached(CursorIn(trail, pos), addr)'
    BY <1>2, <2>1, <2>2 DEF Reached, CursorIn
  <2>5. QED
    BY <2>3, <2>4 DEF IspWalk
<1>4. CASE PageDone
  <2>1. /\ addr' = NextPage(addr) /\ addr[1] \notin bad /\ left > 0 /\ pos' = pos + 1
        /\ trail' = [trail EXCEPT ![pos] = addr] /\ pos \in 0 .. MaxPages - 1
    BY <1>1, <1>4 DEF PageDone, NandInv, Control
  <2>2. /\ Walked([trail EXCEPT ![pos] = addr], pos + 1)
        /\ Reached(CursorIn([trail EXCEPT ![pos] = addr], pos + 1), NextPage(addr))
    BY <1>1, <2>1, WalkGrows DEF IspWalk
  <2>3. Walked(trail, pos)' /\ Reached(CursorIn(trail, pos), addr)'
    BY <1>2, <2>1, <2>2 DEF Walked, Reached, CursorIn
  <2>4. QED
    BY <2>3 DEF IspWalk
<1>5. CASE UNCHANGED <<addr, left, pos, trail>>
  BY <1>1, <1>2, <1>5 DEF IspWalk, Walked, Reached, CursorIn
<1>6. QED
  BY <1>1, <1>3, <1>4, <1>5, WriteStep DEF drvVars, readVars

(* While an image is promised the flash does not change. *)
LEMMA PromiseKept ==
  ASSUME StoreInv, page' = page, bad' = bad, UNCHANGED <<target, stored, laid>>,
         boot' \notin {"blank", "header", "isp"},
         stored /\ boot' \in {"boot_isp", "load"} => len' = ImgPages[target]
  PROVE  Promise'
BY DEF StoreInv, Kept, Promise, HeaderRight, Walked, Reached, CursorIn

(* Of the driver's steps in a read only three move the address or a page.  *)
LEMMA ReadStep ==
  ASSUME MainInv, NandStep, boot \in {"gonand", "load"}
  PROVE  /\ bad' = bad /\ page' = page
         /\ \/ SkipBlock
            \/ PageDone
            \/ DmaTransfer /\ cmd = "page_read" /\ nadr = addr
            \/ UNCHANGED <<addr, left, pos, buf, wrapped, trail>> /\ (Fetched' => Fetched)
<1>1. /\ bad' = bad /\ page' = page /\ mode = 0 /\ pc \notin {"bc_wait", "bc_mark"}
  BY QuietBad, QuietPage DEF MainInv, Sync
<1>2. dma = "armed" => cmd = "page_read" /\ nadr = addr
  BY <1>1 DEF MainInv, NandInv, Control
<1>3. CASE ResetDone \/ IsBadBlock \/ StartPage \/ DmaDone \/ PageTimeout \/ Close \/ Return
  BY <1>1, <1>3 DEF ResetDone, IsBadBlock, StartPage, DmaDone, PageTimeout, Close, Return,
     Fetched, chipVars, readVars
<1>4. CASE BlankPassed \/ BlankFailed \/ BlankResume
  BY <1>1, <1>4 DEF BlankPassed, BlankFailed, BlankResume
<1>5. CASE (HwPlain \/ HwProgram(buf[pos]) \/ HwMark \/ HwBlankCheck(endBlk)) /\ UNCHANGED drvVars
  BY <1>1, <1>5 DEF HwPlain, HwProgram, HwMark, HwBlankCheck, Fetched, drvVars, readVars
<1>6. CASE DmaTransfer
  BY <1>1, <1>2, <1>6 DEF DmaTransfer
<1>7. QED
  BY <1>1, <1>3, <1>4, <1>5, <1>6 DEF NandStep, Driver, Hardware

(* The header that is read is the promised image's. *)
LEMMA HeaderReadStep ==
  ASSUME StoreInv, NandStep, UNCHANGED mainVars, boot = "gonand", stored
  PROVE  HeaderRead'
<1>1. /\ MainInv /\ NandInv /\ HeaderRead /\ HeaderRight(target)
      /\ UNCHANGED <<boot, stored, target>> /\ pos + left = 1 /\ pos \in Nat /\ left \in Nat
      /\ addr \in Addr /\ buf \in Buffers
  BY DEF StoreInv, Kept, Promise, FlashInv, IInv, MainInv, Sync, mainVars, NandInv, NandTypeOK
<1>2. /\ bad' = bad /\ page' = page
  BY <1>1, ReadStep
<1>3. /\ left > 0 => addr[2] = 0 /\ 0 .. addr[1] - 1 \subseteq bad
      /\ Fetched => buf[0] = page[addr]
      /\ left = 0 => buf[0] = Page(target, 0)
  BY <1>1 DEF HeaderRead
<1>4. addr = <<addr[1], addr[2]>> /\ addr[1] \in 0 .. NumBlocks - 1
  BY <1>1, AddrClosed DEF Blocks
<1>5. CASE SkipBlock
  <2>1. /\ addr' = NextBlock(addr) /\ addr[1] \in bad /\ left > 0 /\ ~Fetched'
        /\ UNCHANGED <<left, buf>>
    BY <1>1, <1>5 DEF SkipBlock, NandInv, Control, Fetched
  <2>2. addr'[2] = 0 /\ (addr'[1] = 0 \/ addr'[1] = addr[1] + 1)
    BY <2>1 DEF NextBlock
  <2>3. 0 .. addr'[1] - 1 \subseteq bad
    BY <1>3, <1>4, <2>1, <2>2
  <2>4. QED
    BY <1>1, <1>2, <1>3, <2>1, <2>2, <2>3 DEF HeaderRead
<1>6. CASE PageDone
  <2>1. /\ addr[1] \notin bad /\ left > 0 /\ left' = left - 1 /\ buf' = buf /\ Fetched /\ ~Fetched'
    BY <1>1, <1>6 DEF PageDone, NandInv, Control, Fetched
  <2>2. left' = 0
    BY <1>1, <2>1
  <2>3. PICK b \in Blocks : /\ b \notin bad /\ \A c \in 0 .. b - 1 : c \in bad
                            /\ page[<<b, 0>>] = Page(target, 0)
    BY <1>1 DEF HeaderRight
  <2>4. b = addr[1]
    <3>1. CASE b < addr[1]
      <4>1. b \in 0 .. addr[1] - 1
        BY <1>4, <3>1 DEF Blocks
      <4>2. QED
        BY <1>3, <2>1, <2>3, <4>1
    <3>2. CASE addr[1] < b
      <4>1. addr[1] \in 0 .. b - 1
        BY <1>4, <3>2 DEF Blocks
      <4>2. QED
        BY <2>1, <2>3, <4>1
    <3>3. QED
      BY <1>4, <3>1, <3>2 DEF Blocks
  <2>5. addr = <<b, 0>>
    BY <1>3, <1>4, <2>1, <2>4
  <2>6. buf'[0] = Page(target, 0)
    BY <1>3, <2>1, <2>3, <2>5
  <2>7. QED
    BY <1>1, <2>1, <2>2, <2>6 DEF HeaderRead
<1>7. CASE DmaTransfer /\ cmd = "page_read" /\ nadr = addr
  <2>1. pos \in 0 .. MaxPages - 1 /\ pos = 0 /\ left > 0
    BY <1>1, <1>7 DEF NandInv, Control
  <2>2. buf'[0] = page[addr] /\ UNCHANGED <<addr, left>>
    BY <1>1, <1>7, <2>1 DEF DmaTransfer, Buffers
  <2>3. QED
    BY <1>1, <1>2, <1>3, <2>1, <2>2 DEF HeaderRead
<1>8. CASE UNCHANGED <<addr, left, pos, buf>> /\ (Fetched' => Fetched)
  BY <1>1, <1>2, <1>3, <1>8 DEF HeaderRead
<1>9. QED
  BY <1>1, <1>5, <1>6, <1>7, <1>8, ReadStep

(* Each page of the load is the one the update laid. *)
LEMMA IspReadStep ==
  ASSUME StoreInv, NandStep, UNCHANGED mainVars, boot = "load", stored
  PROVE  IspRead'
<1>1. /\ MainInv /\ NandInv /\ IspRead /\ Promise /\ len = ImgPages[target]
      /\ UNCHANGED <<boot, stored, laid>> /\ pos + left = len /\ pos \in Nat /\ left \in Nat
      /\ addr \in Addr /\ buf \in Buffers /\ bad \in SUBSET Blocks
      /\ laid \in [0 .. MaxPages - 1 -> Addr] /\ len \in 0 .. MaxPages
  BY DEF StoreInv, Kept, Promise, FlashInv, IInv, MainInv, Sync, mainVars, NandInv, NandTypeOK,
     ChipTypeOK, TypeOK
<1>2. bad' = bad /\ page' = page
  BY <1>1, ReadStep
<1>3. /\ left > 0 => Reached(CursorIn(laid, pos), addr)
      /\ \A k \in 0 .. pos - 1 : buf[k] = page[laid[k]]
      /\ Fetched => buf[pos] = page[addr]
      /\ Walked(laid, len)
  BY <1>1 DEF IspRead, Promise
<1>4. pos \in 0 .. MaxPages /\ CursorIn(laid, pos) \in Addr
  BY <1>1, CursorAddr
<1>5. CASE SkipBlock
  <2>1. /\ addr' = NextBlock(addr) /\ addr[1] \in bad /\ left > 0 /\ ~Fetched'
        /\ UNCHANGED <<left, pos, buf>>
    BY <1>1, <1>5 DEF SkipBlock, NandInv, Control, Fetched
  <2>2. Reached(CursorIn(laid, pos), NextBlock(addr))
    BY <1>1, <1>3, <1>4, <2>1, SkipReaches
  <2>3. QED
    BY <1>1, <1>2, <1>3, <2>1, <2>2 DEF IspRead, Reached, CursorIn
<1>6. CASE PageDone
  <2>1. /\ addr' = NextPage(addr) /\ addr[1] \notin bad /\ left > 0 /\ pos' = pos + 1
        /\ buf' = buf /\ Fetched /\ ~Fetched' /\ pos \in 0 .. len - 1
    BY <1>1, <1>6 DEF PageDone, NandInv, Control, Fetched
  <2>2. laid[pos] \in Addr /\ laid[pos][1] \notin bad /\ Reached(CursorIn(laid, pos), laid[pos])
    BY <1>1, <1>3, <2>1 DEF Walked
  <2>3. laid[pos] = addr
    BY <1>1, <1>3, <1>4, <2>1, <2>2, ReachedOnce
  <2>4. CursorIn(laid, pos + 1) = NextPage(addr)
    BY <1>1, <2>3 DEF CursorIn
  <2>5. ASSUME NEW k \in 0 .. pos PROVE buf[k] = page[laid[k]]
    <3>1. CASE k = pos
      BY <1>3, <2>1, <2>3, <3>1
    <3>2. CASE k \in 0 .. pos - 1
      BY <1>3, <3>2
    <3>3. QED
      BY <1>1, <3>1, <3>2
  <2>6. Reached(CursorIn(laid, pos + 1), NextPage(addr))
    BY <2>4 DEF Reached
  <2>7. \A k \in 0 .. pos' - 1 : buf'[k] = page'[laid'[k]]
    BY <1>1, <1>2, <2>1, <2>5
  <2>8. Reached(CursorIn(laid, pos), addr)'
    BY <1>1, <1>2, <2>1, <2>6 DEF Reached, CursorIn
  <2>9. QED
    BY <2>1, <2>7, <2>8 DEF IspRead
<1>7. CASE DmaTransfer /\ cmd = "page_read" /\ nadr = addr
  <2>1. pos \in 0 .. MaxPages - 1
    BY <1>1, <1>7 DEF NandInv, Control
  <2>2. /\ buf'[pos] = page[addr] /\ \A k \in 0 .. pos - 1 : buf'[k] = buf[k]
        /\ UNCHANGED <<addr, left, pos>>
    BY <1>1, <1>7, <2>1 DEF DmaTransfer, Buffers
  <2>3. QED
    BY <1>1, <1>2, <1>3, <2>1, <2>2 DEF IspRead, Reached, CursorIn
<1>8. CASE UNCHANGED <<addr, left, pos, buf>> /\ (Fetched' => Fetched)
  BY <1>1, <1>2, <1>3, <1>8 DEF IspRead, Reached, CursorIn
<1>9. QED
  BY <1>1, <1>5, <1>6, <1>7, <1>8, ReadStep

LEMMA NandStepKept == ASSUME StoreInv, NandStep, UNCHANGED mainVars PROVE Kept'
<1>1. /\ UNCHANGED <<boot, staged, len, via, laid, target, stored>>
      /\ MainInv /\ StageOf /\ Promise
  BY DEF mainVars, StoreInv, Kept, FlashInv, IInv
<1>2. IspWalk'
  BY <1>1, IspWalkStep DEF IspWalk
<1>3. Promise'
  <2>1. CASE stored
    <3>1. boot \notin {"blank", "header", "isp"}
      BY <1>1, <2>1 DEF Promise
    <3>2. page' = page /\ bad' = bad
      BY <1>1, <3>1, QuietPage, QuietBad
    <3>3. QED
      BY <1>1, <2>1, <3>1, <3>2, PromiseKept DEF Promise
  <2>2. CASE ~stored
    BY <1>1, <2>2 DEF Promise
  <2>3. QED
    BY <2>1, <2>2
<1>4. HeaderRead'
  BY <1>1, HeaderReadStep DEF HeaderRead
<1>5. IspRead'
  BY <1>1, IspReadStep DEF IspRead
<1>6. StageOf'
  BY <1>1 DEF StageOf
<1>7. QED
  BY <1>2, <1>3, <1>4, <1>5, <1>6 DEF Kept

(* The steps of main. *)
LEMMA SetupKept ==
  ASSUME StoreInv, SetUp
  PROVE  Kept'
<1>1. /\ boot' \in {"init", "dead"} /\ boot = "start" /\ via' \in {"none", via}
      /\ UNCHANGED <<page, bad, laid, target, stored>>
  BY DEF SetUp, BootUpload, UploadCut, BootNand, BootNoBsp, EnterMain, SetupUnchanged
<1>2. via' # "update"
  BY <1>1 DEF StoreInv, FlashInv, IInv, MainInv, Sync
<1>3. Promise'
  BY <1>1, PromiseKept
<1>4. QED
  BY <1>1, <1>2, <1>3 DEF Kept, IspWalk, HeaderRead, IspRead, StageOf

LEMMA UpdateIspKept == ASSUME StoreInv, UpdateIsp PROVE Kept'
<1>1. boot' = "blank" /\ stored' = FALSE /\ target' = staged /\ staged' = staged
  BY DEF UpdateIsp, MainKeeps
<1>2. QED
  BY <1>1 DEF Kept, IspWalk, Promise, HeaderRead, IspRead, StageOf

LEMMA GoSdKept == ASSUME StoreInv, GoSd PROVE Kept'
<1>1. boot' = "jump" /\ via' = "sd" /\ UNCHANGED <<page, bad, laid, target, stored>>
  BY DEF GoSd, chipVars
<1>2. Promise'
  BY <1>1, PromiseKept
<1>3. QED
  BY <1>1, <1>2 DEF Kept, IspWalk, HeaderRead, IspRead, StageOf

LEMMA GoNandKept == ASSUME StoreInv, GoNand PROVE Kept'
<1>1. /\ boot' = "gonand" /\ via' = "nand" /\ staged' = NoImage /\ pc' = "reset"
      /\ addr' = <<0, 0>> /\ left' = 1
      /\ UNCHANGED <<page, bad, laid, target, stored>>
  BY DEF GoNand, CallRead, MainKeeps
<1>2. Promise'
  BY <1>1, PromiseKept
<1>3. HeaderRead'
  BY <1>1 DEF HeaderRead, Fetched
<1>4. QED
  BY <1>1, <1>2, <1>3 DEF Kept, IspWalk, IspRead, StageOf

LEMMA WriteHeaderKept == ASSUME StoreInv, WriteHeader PROVE Kept'
<1>1. /\ boot = "blank" /\ boot' = "header" /\ UNCHANGED <<staged, via, target, stored>>
  BY DEF WriteHeader, Returned, MainKeeps
<1>2. ~stored
  BY <1>1 DEF StoreInv, Kept, Promise
<1>3. QED
  BY <1>1, <1>2 DEF StoreInv, Kept, IspWalk, Promise, HeaderRead, IspRead, StageOf

LEMMA WriteIspKept == ASSUME StoreInv, WriteIsp PROVE Kept'
<1>1. /\ boot = "header" /\ boot' = "isp" /\ UNCHANGED <<staged, via, target, stored>>
      /\ pos' = 0 /\ addr' = BlockOne
  BY DEF WriteIsp, Returned, CallRead, MainKeeps
<1>2. ~stored
  BY <1>1 DEF StoreInv, Kept, Promise
<1>3. IspWalk'
  BY <1>1 DEF IspWalk, Walked, Reached, CursorIn
<1>4. QED
  BY <1>1, <1>2, <1>3 DEF StoreInv, Kept, Promise, HeaderRead, IspRead, StageOf

(* Where stored is set, the pages are where the write walked. *)
LEMMA BootUpdatedKept == ASSUME StoreInv, BootUpdated PROVE Kept'
<1>1. /\ boot = "isp" /\ pc = "idle" /\ boot' = "boot_isp" /\ laid' = trail
      /\ stored' = (HeaderRight(staged) /\ IspRight(staged))
      /\ UNCHANGED <<page, bad, staged, via, target, len>>
  BY DEF BootUpdated, Returned, MainKeeps
<1>2. /\ pos = len /\ via = "update" /\ target = staged /\ staged \in Images
      /\ len = ImgPages[staged] /\ Walked(trail, pos)
  BY <1>1 DEF StoreInv, Kept, IspWalk, StageOf, FlashInv, IInv, MainInv, Sync, TypeOK, NandTypeOK
<1>3. ASSUME stored'
      PROVE  /\ HeaderRight(target)' /\ Walked(laid, ImgPages[target])'
             /\ \A k \in 0 .. ImgPages[target'] - 1 : page'[laid'[k]] = Page(target', k + 1)
  <2>1. HeaderRight(staged) /\ \A k \in 0 .. len - 1 : page[trail[k]] = Page(staged, k + 1)
    BY <1>1, <1>3 DEF IspRight
  <2>2. HeaderRight(target)'
    BY <1>1, <1>2, <2>1 DEF HeaderRight
  <2>3. Walked(laid, ImgPages[target])'
    BY <1>1, <1>2 DEF Walked, Reached, CursorIn
  <2>4. QED
    BY <1>1, <1>2, <2>1, <2>2, <2>3
<1>4. Promise'
  BY <1>1, <1>2, <1>3 DEF Promise
<1>5. QED
  BY <1>1, <1>2, <1>4 DEF Kept, IspWalk, HeaderRead, IspRead, StageOf

LEMMA BootStoredKept == ASSUME StoreInv, BootStored PROVE Kept'
<1>1. /\ boot = "gonand" /\ pc = "idle" /\ boot' = "boot_isp" /\ len' \in LengthIn(buf[0])
      /\ UNCHANGED <<page, bad, staged, via, target, stored, laid>>
  BY DEF BootStored, Returned, MainKeeps
<1>2. left = 0 /\ via # "update" /\ staged = NoImage
  BY <1>1 DEF StoreInv, Kept, StageOf, FlashInv, IInv, MainInv, Sync
<1>3. ASSUME stored PROVE len' = ImgPages[target]
  <2>1. buf[0] = Page(target, 0) /\ target \in Images
    BY <1>1, <1>2, <1>3 DEF StoreInv, Kept, HeaderRead, Promise
  <2>2. Page(target, 0) \in Headers /\ Page(target, 0).img = target
    BY <2>1 DEF Headers, Page
  <2>3. QED
    BY <1>1, <2>1, <2>2 DEF LengthIn
<1>4. Promise'
  BY <1>1, <1>3, PromiseKept
<1>5. QED
  BY <1>1, <1>2, <1>4 DEF Kept, IspWalk, HeaderRead, IspRead, StageOf

LEMMA LoadIspKept == ASSUME StoreInv, LoadIsp PROVE Kept'
<1>1. /\ boot = "boot_isp" /\ boot' = "load" /\ pc' = "reset" /\ pos' = 0 /\ addr' = BlockOne
      /\ UNCHANGED <<page, bad, staged, via, target, stored, laid, len>>
  BY DEF LoadIsp, CallRead, MainKeeps
<1>2. stored => len = ImgPages[target]
  BY <1>1 DEF StoreInv, Kept, Promise
<1>3. Promise'
  BY <1>1, <1>2, PromiseKept
<1>4. IspRead'
  BY <1>1 DEF IspRead, Reached, CursorIn, Fetched
<1>5. QED
  BY <1>1, <1>3, <1>4 DEF StoreInv, Kept, IspWalk, HeaderRead, StageOf

LEMMA JumpKept == ASSUME StoreInv, Jump PROVE Kept'
<1>1. /\ boot' = "jump" /\ UNCHANGED <<page, bad, staged, via, target, stored, laid>>
  BY DEF Jump, nandVars, chipVars, MainKeeps
<1>2. Promise'
  BY <1>1, PromiseKept
<1>3. QED
  BY <1>1, <1>2 DEF StoreInv, Kept, IspWalk, HeaderRead, IspRead, StageOf

(* A reset finds no program and no mark under way where an image is kept.  *)
LEMMA RestartKept == ASSUME StoreInv, Restart PROVE Kept'
<1>1. /\ boot' = "start" /\ via' = "none" /\ UNCHANGED <<target, stored, laid>>
  BY DEF Restart
<1>2. Promise'
  <2>1. CASE stored
    <3>1. boot \notin {"blank", "header", "isp"}
      BY <2>1 DEF StoreInv, Kept, Promise
    <3>2. cmd # "page_write"
      BY <3>1, ProgramUnderWay DEF StoreInv, Writing
    <3>3. cmd # "sp_write"
      BY <3>1 DEF StoreInv, FlashInv, IInv, MainInv, NandInv, Control, Sync, TypeOK, BootPCs
    <3>4. page' = page /\ bad' = bad
      BY <3>2, <3>3 DEF Restart, Interrupted
    <3>5. QED
      BY <1>1, <3>4, PromiseKept
  <2>2. CASE ~stored
    BY <1>1, <2>2 DEF Promise
  <2>3. QED
    BY <2>1, <2>2
<1>3. QED
  BY <1>1, <1>2 DEF Kept, IspWalk, HeaderRead, IspRead, StageOf

LEMMA StutterKept == ASSUME StoreInv, UNCHANGED vars PROVE Kept'
<1> USE DEF vars, nandVars, chipVars, drvVars, readVars, blankVars, mainVars, StoreInv, Kept
<1>1. IspWalk' /\ HeaderRead' /\ IspRead' /\ StageOf'
  BY DEF IspWalk, HeaderRead, IspRead, StageOf, Walked, Reached, CursorIn, Fetched
<1>2. Promise'
  BY PromiseKept DEF Promise
<1>3. QED
  BY <1>1, <1>2

LEMMA InitStore == Init => StoreInv
<1> SUFFICES ASSUME Init PROVE StoreInv
  OBVIOUS
<1>1. FlashInv
  BY InitFlash
<1>2. boot = "start" /\ ~stored /\ via = "none"
  BY DEF Init
<1>3. QED
  BY <1>1, <1>2 DEF StoreInv, Kept, IspWalk, Promise, HeaderRead, IspRead, StageOf

LEMMA NextStore == StoreInv /\ [Next]_vars => StoreInv'
<1> SUFFICES ASSUME StoreInv, [Next]_vars PROVE Kept'
  BY NextFlash DEF StoreInv
<1>1. CASE Main
  BY <1>1, SetupKept, UpdateIspKept, GoSdKept, GoNandKept, WriteHeaderKept, WriteIspKept,
     BootUpdatedKept, BootStoredKept, LoadIspKept, JumpKept DEF Main, SetUp
<1>2. CASE NandStep /\ UNCHANGED mainVars
  BY <1>2, NandStepKept
<1>3. CASE Restart
  BY <1>3, RestartKept
<1>4. CASE UNCHANGED vars
  BY <1>4, StutterKept
<1>5. QED
  BY <1>1, <1>2, <1>3, <1>4 DEF Next, Stopped

LEMMA StoreInvariant == Spec => []StoreInv
<1>1. QED
  BY InitStore, NextStore, PTL DEF Spec

-----------------------------------------------------------------------------
(* The phases of the boot. *)
LEMMA Phases ==
  ASSUME boot \in BootPCs, pc # "halt"
  PROVE  /\ boot = "start" => Phase = "boot"
         /\ boot \in {"init", "gonand"} => Phase = "main"
         /\ boot \in {"blank", "header", "isp"} => Phase = "update"
         /\ boot \in {"boot_isp", "load"} => Phase = IF via = "update" THEN "load" ELSE "main"
         /\ boot = "jump" => Phase = "run"
         /\ boot = "dead" => Phase = "dead"
BY DEF Phase, BootPCs

LEMMA PhasesNext ==
  ASSUME boot' \in BootPCs, pc' # "halt"
  PROVE  /\ boot' = "start" => Phase' = "boot"
         /\ boot' \in {"init", "gonand"} => Phase' = "main"
         /\ boot' \in {"blank", "header", "isp"} => Phase' = "update"
         /\ boot' \in {"boot_isp", "load"} => Phase' = IF via' = "update" THEN "load" ELSE "main"
         /\ boot' = "jump" => Phase' = "run"
         /\ boot' = "dead" => Phase' = "dead"
BY DEF Phase, BootPCs

LEMMA RunningTypes ==
  /\ Running \in Images \cup {NoImage} /\ (boot # "jump" => Running = NoImage)
  /\ Running' \in Images \cup {NoImage} /\ (boot' # "jump" => Running' = NoImage)
<1>1. Running \in Images \cup {NoImage} /\ (boot # "jump" => Running = NoImage)
  BY DEF Running
<1>2. Running' \in Images \cup {NoImage} /\ (boot' # "jump" => Running' = NoImage)
  BY DEF Running
<1>3. QED
  BY <1>1, <1>2

(* What is loaded whole is no other image. *)
LEMMA RunningNext ==
  ASSUME NEW im \in Images, boot' = "jump", len' = ImgPages[im],
         \A k \in 0 .. len' - 1 : buf'[k] = Page(im, k + 1)
  PROVE  Running' = im
<1>1. Loaded(im)'
  BY DEF Loaded
<1>2. ASSUME NEW jm \in Images, Loaded(jm)' PROVE jm = im
  <2>1. len' = ImgPages[jm] /\ \A k \in 0 .. len' - 1 : buf'[k] = Page(jm, k + 1)
    BY <1>2 DEF Loaded
  <2>2. CASE len' = 0
    BY <2>1, <2>2
  <2>3. CASE len' # 0
    <3>1. 0 \in 0 .. len' - 1
      BY <2>3
    <3>2. Page(jm, 0 + 1) = Page(im, 0 + 1)
      BY <2>1, <3>1
    <3>3. Page(jm, 0 + 1).img = jm /\ Page(im, 0 + 1).img = im
      BY DEF Page
    <3>4. QED
      BY <3>2, <3>3
  <2>4. QED
    BY <2>2, <2>3
<1>3. (CHOOSE jm \in Images : Loaded(jm)') = im
  BY <1>1, <1>2
<1>4. QED
  BY <1>1, <1>3 DEF Running

(* Steps that the user does not see. *)
LEMMA Unseen ==
  ASSUME StoreInv, StoreInv', UNCHANGED <<staged, target, stored>>,
         boot # "jump", boot' # "jump", Phase' = Phase
  PROVE  UNCHANGED Store!vars
<1>1. Running = NoImage /\ Running' = NoImage
  BY RunningTypes
<1>2. QED
  BY <1>1 DEF Store!vars

LEMMA SetupStore ==
  ASSUME StoreInv, StoreInv', SetUp
  PROVE  Store!Next
<1>1. /\ boot = "start" /\ UNCHANGED <<target, stored>>
      /\ boot' \in {"init", "dead"} /\ pc = "idle" /\ pc' = "idle"
  BY DEF SetUp, BootUpload, UploadCut, BootNand, BootNoBsp, EnterMain, SetupUnchanged,
     drvVars, readVars, StoreInv, FlashInv, IInv, MainInv, Sync
<1>2. Running = NoImage /\ Running' = NoImage /\ Phase = "boot"
  BY <1>1, RunningTypes, Phases DEF BootPCs
<1>3. staged' \in Images \cup {NoImage}
  BY DEF StoreInv, FlashInv, IInv, MainInv, TypeOK
<1>4. CASE boot' = "init"
  <2>1. Phase' = "main"
    BY <1>1, <1>4, PhasesNext DEF BootPCs
  <2>2. Store!Enter
    BY <1>1, <1>2, <1>3, <2>1 DEF Store!Enter, Store!Goto, Store!Any
  <2>3. QED
    BY <2>2 DEF Store!Next
<1>5. CASE boot' = "dead"
  <2>1. Phase' = "dead"
    BY <1>1, <1>5, PhasesNext DEF BootPCs
  <2>2. Store!Fail
    BY <1>1, <1>2, <1>3, <1>5, <2>1 DEF Store!Fail, Store!Goto, Store!Any
  <2>3. QED
    BY <2>2 DEF Store!Next
<1>6. QED
  BY <1>1, <1>4, <1>5

LEMMA UpdateStore == ASSUME UpdateIsp PROVE Store!Next
<1>1. /\ boot = "init" /\ boot' = "blank" /\ staged # NoImage /\ staged' = staged /\ ~stored'
      /\ pc = "idle" /\ pc' = "bc_wait"
  BY DEF UpdateIsp, AtMain, CallBlankingCheck, MainKeeps
<1>2. Phase = "main" /\ Phase' = "update" /\ Running = NoImage /\ Running' = NoImage
  BY <1>1, Phases, PhasesNext, RunningTypes DEF BootPCs
<1>3. Store!Update
  BY <1>1, <1>2 DEF Store!Update, Store!Goto
<1>4. QED
  BY <1>3 DEF Store!Next

LEMMA GoSdStore == ASSUME StoreInv, GoSd PROVE Store!Next
<1>1. /\ boot = "init" /\ boot' = "jump" /\ staged \in Images /\ staged # NoImage
      /\ pc = "idle" /\ UNCHANGED <<pc, staged, target, stored>>
      /\ len' = ImgPages[staged] /\ ImgPages[staged] \in 0 .. MaxPages
  BY DEF GoSd, AtMain, MainKeeps, StoreInv, FlashInv, IInv, MainInv, TypeOK
<1>2. \A k \in 0 .. len' - 1 : buf'[k] = Page(staged, k + 1)
  BY <1>1 DEF GoSd
<1>3. Running' = staged
  BY <1>1, <1>2, RunningNext
<1>4. Phase = "main" /\ Phase' = "run"
  BY <1>1, Phases, PhasesNext DEF BootPCs
<1>5. Store!GoSd
  BY <1>1, <1>3, <1>4 DEF Store!GoSd, Store!Goto
<1>6. QED
  BY <1>5 DEF Store!Next

LEMMA QuietStore ==
  ASSUME StoreInv, StoreInv',
         GoNand \/ WriteHeader \/ WriteIsp \/ BootStored \/ LoadIsp
  PROVE  UNCHANGED Store!vars
<1>1. UNCHANGED <<staged, target, stored>>
  BY DEF GoNand, WriteHeader, WriteIsp, BootStored, LoadIsp, MainKeeps
<1>p. pc = "idle" /\ pc' \in {"idle", "reset"}
  BY DEF GoNand, WriteHeader, WriteIsp, BootStored, LoadIsp, CallRead, Returned, drvVars
<1>2. \/ boot = "init" /\ boot' = "gonand"
      \/ boot = "blank" /\ boot' = "header"
      \/ boot = "header" /\ boot' = "isp"
      \/ boot = "gonand" /\ boot' = "boot_isp" /\ via' = via
      \/ boot = "boot_isp" /\ boot' = "load" /\ via' = via
  BY DEF GoNand, WriteHeader, WriteIsp, BootStored, LoadIsp, AtMain, Returned
<1>3. boot = "gonand" => via # "update"
  BY DEF StoreInv, FlashInv, IInv, MainInv, Sync
<1>4. Phase' = Phase /\ boot # "jump" /\ boot' # "jump"
  BY <1>p, <1>2, <1>3, Phases, PhasesNext DEF BootPCs
<1>5. QED
  BY <1>1, <1>4, Unseen

LEMMA UpdatedStore == ASSUME StoreInv, BootUpdated PROVE Store!Next
<1>1. /\ boot = "isp" /\ boot' = "boot_isp" /\ via = "update" /\ target = staged
      /\ pc = "idle" /\ UNCHANGED <<pc, staged, via, target>>
  BY DEF BootUpdated, Returned, drvVars, MainKeeps, StoreInv, Kept, StageOf, FlashInv, IInv, MainInv, Sync
<1>2. Phase = "update" /\ Phase' = "load" /\ Running = NoImage /\ Running' = NoImage
  BY <1>1, Phases, PhasesNext, RunningTypes DEF BootPCs
<1>3. Store!Updated
  BY <1>1, <1>2 DEF Store!Updated, Store!Goto
<1>4. QED
  BY <1>3 DEF Store!Next

(* The image that is promised is the one that is loaded. *)
LEMMA JumpStore == ASSUME StoreInv, Jump PROVE Store!Next
<1>1. /\ boot = "load" /\ pc = "idle" /\ boot' = "jump"
      /\ UNCHANGED <<pc, staged, target, stored, len, buf>>
  BY DEF Jump, Returned, MainKeeps, nandVars, drvVars, readVars
<1>2. pos = len /\ len \in Nat /\ (via # "update" => staged = NoImage)
  BY <1>1 DEF StoreInv, Kept, StageOf, FlashInv, IInv, MainInv, Sync, TypeOK, NandTypeOK
<1>3. ASSUME stored PROVE Running' = target
  <2>1. /\ target \in Images /\ len = ImgPages[target]
        /\ \A k \in 0 .. len - 1 : page[laid[k]] = Page(target, k + 1)
        /\ \A k \in 0 .. len - 1 : buf[k] = page[laid[k]]
    BY <1>1, <1>2, <1>3 DEF StoreInv, Kept, Promise, IspRead
  <2>2. len' = ImgPages[target] /\ \A k \in 0 .. len' - 1 : buf'[k] = Page(target, k + 1)
    BY <1>1, <2>1
  <2>3. QED
    BY <1>1, <2>1, <2>2, RunningNext
<1>4. /\ Phase = IF via = "update" THEN "load" ELSE "main"
      /\ Phase' = "run" /\ Running = NoImage /\ Running' \in Images \cup {NoImage}
  BY <1>1, Phases, PhasesNext, RunningTypes DEF BootPCs
<1>5. Store!GoNand
  BY <1>1, <1>2, <1>3, <1>4 DEF Store!GoNand, Store!Goto, Store!Any
<1>6. QED
  BY <1>5 DEF Store!Next

LEMMA RestartStore == ASSUME StoreInv, Restart PROVE Store!Next
<1>1. /\ boot # "start" /\ boot' = "start" /\ pc' = "idle"
      /\ staged' \in {staged, NoImage} \cup (IF boot = "jump" THEN Cuts ELSE {})
      /\ UNCHANGED <<target, stored>> /\ boot \in BootPCs /\ staged \in Images \cup {NoImage}
      /\ boot = "jump" => pc = "idle"
  BY DEF Restart, StoreInv, FlashInv, IInv, MainInv, TypeOK, Sync
<1>2. Phase # "boot" /\ Phase' = "boot" /\ Running' = NoImage
  <2>1. Phase # "boot"
    BY <1>1 DEF Phase, BootPCs
  <2>2. QED
    BY <1>1, <2>1, PhasesNext, RunningTypes DEF BootPCs
<1>3. staged' \in IF Phase = "run" THEN Store!Any ELSE {staged, NoImage}
  <2>1. CASE boot = "jump"
    <3>1. Phase = "run"
      BY <1>1, <2>1, Phases DEF BootPCs
    <3>2. QED
      BY <1>1, <3>1, UpgradeAssumption DEF Store!Any
  <2>2. CASE boot # "jump"
    <3>1. Phase # "run"
      BY <1>1, <2>2 DEF Phase, BootPCs
    <3>2. QED
      BY <1>1, <2>2, <3>1
  <2>3. QED
    BY <2>1, <2>2
<1>4. Store!Reset
  BY <1>1, <1>2, <1>3 DEF Store!Reset
<1>5. QED
  BY <1>4 DEF Store!Next

(* The driver is idle once an image runs, and nothing moves a page: all    *)
(* that shows of it is that it may give up.                                *)
LEMMA NandStepStore ==
  ASSUME StoreInv, NandStep, UNCHANGED mainVars
  PROVE  Store!Next \/ UNCHANGED Store!vars
<1>1. UNCHANGED <<boot, staged, len, via, target, stored>>
  BY DEF mainVars
<1>2. boot = "jump" => buf' = buf
  <2> SUFFICES ASSUME boot = "jump" PROVE buf' = buf
    OBVIOUS
  <2>1. pc = "idle" /\ dma # "armed"
    BY DEF StoreInv, FlashInv, IInv, MainInv, Sync, NandInv, Control
  <2>2. CASE Driver
    BY <2>1, <2>2 DEF Driver, ResetDone, IsBadBlock, SkipBlock, StartPage, DmaDone, PageDone,
       PageTimeout, Close, Return, BlankPassed, BlankFailed, BlankResume
  <2>3. CASE Hardware
    BY <2>1, <2>3 DEF Hardware, DmaTransfer, drvVars, readVars
  <2>4. QED
    BY <2>2, <2>3 DEF NandStep
<1>3. Running' = Running
  <2>1. CASE boot = "jump"
    BY <1>1, <1>2, <2>1 DEF Running, Loaded
  <2>2. CASE boot # "jump"
    BY <1>1, <2>2, RunningTypes
  <2>3. QED
    BY <2>1, <2>2
<1>4. CASE PageTimeout
  <2>1. /\ pc = "poll" /\ pc' = "halt" /\ boot \in {"header", "isp", "load", "gonand"}
    BY <1>4 DEF PageTimeout, StoreInv, FlashInv, IInv, MainInv, TypeOK, Sync, BootPCs
  <2>2. Phase \in {"main", "update", "load"} /\ Phase' = "stuck"
    <3>1. Phase' = "stuck"
      BY <2>1 DEF Phase
    <3>2. QED
      BY <2>1, <3>1, Phases DEF BootPCs
  <2>3. Store!GiveUp
    BY <1>1, <1>3, <2>2 DEF Store!GiveUp
  <2>4. QED
    BY <2>3 DEF Store!Next
<1>5. CASE ~PageTimeout
  <2>1. pc = "halt" <=> pc' = "halt"
    <3>1. CASE Driver
      BY <1>5, <3>1 DEF Driver, ResetDone, IsBadBlock, SkipBlock, StartPage, DmaDone, PageDone,
         Close, Return, BlankPassed, BlankFailed, BlankResume
    <3>2. CASE Hardware
      BY <3>2 DEF Hardware, DmaTransfer, drvVars, readVars
    <3>3. QED
      BY <3>1, <3>2 DEF NandStep
  <2>2. Phase' = Phase
    <3>1. CASE pc = "halt"
      BY <2>1, <3>1 DEF Phase
    <3>2. CASE pc # "halt"
      <4>1. pc' # "halt" /\ boot \in BootPCs
        BY <2>1, <3>2 DEF StoreInv, FlashInv, IInv, MainInv, TypeOK
      <4>2. QED
        BY <1>1, <3>2, <4>1, Phases, PhasesNext DEF BootPCs
    <3>3. QED
      BY <3>1, <3>2
  <2>3. QED
    BY <1>1, <1>3, <2>2 DEF Store!vars
<1>6. QED
  BY <1>4, <1>5

LEMMA StoreStep ==
  StoreInv /\ StoreInv' /\ [Next]_vars => [Store!Next]_(Store!vars)
<1> SUFFICES ASSUME StoreInv, StoreInv', [Next]_vars PROVE Store!Next \/ UNCHANGED Store!vars
  OBVIOUS
<1>1. CASE Main
  BY <1>1, SetupStore, UpdateStore, GoSdStore, QuietStore, UpdatedStore, JumpStore
     DEF Main, SetUp
<1>2. CASE NandStep /\ UNCHANGED mainVars
  BY <1>2, NandStepStore
<1>3. CASE Restart
  BY <1>3, RestartStore
<1>4. CASE UNCHANGED vars
  <2>1. UNCHANGED <<pc, boot, staged, len, via, target, stored, buf>>
    BY <1>4 DEF vars, nandVars, drvVars, readVars, mainVars
  <2>2. Phase' = Phase
    BY <2>1 DEF Phase
  <2>3. Running' = Running
    BY <2>1 DEF Running, Loaded
  <2>4. QED
    BY <2>1, <2>2, <2>3 DEF Store!vars
<1>5. QED
  BY <1>1, <1>2, <1>3, <1>4 DEF Next, Stopped

(* main, over the NAND driver and through every reset, does what Image-*)
(* Store says: only an update gives up a stored image, and a boot that finds *)
(* one promised runs that image and no other (main.c:41-74).                 *)
THEOREM ImplementsImageStore == Spec => ImplementsStore
<1>1. Init => Store!Init
  <2> SUFFICES ASSUME Init PROVE Store!Init
    OBVIOUS
  <2>1. boot = "start" /\ staged = NoImage /\ ~stored /\ pc = "idle"
    BY DEF Init, NandInit
  <2>2. Phase = "boot" /\ Running = NoImage
    BY <2>1, Phases, RunningTypes DEF BootPCs
  <2>3. QED
    BY <2>1, <2>2 DEF Store!Init, Store!Any
<1>2. QED
  BY <1>1, StoreStep, StoreInvariant, PTL DEF Spec, ImplementsStore, Store!Spec

-----------------------------------------------------------------------------
(***************************************************************************)
(* What Blanking_Check leaves unverified of an update is its last block:   *)
(* page k of the ISP lies behind at most k \div PagesPerBlock good blocks  *)
(* from block 1 on, and the range of the check has one good block for each *)
(* block of the ISP, block 0 perhaps among them.                           *)
(***************************************************************************)
Count(b)  == Cardinality((1 .. b - 1) \ bad)
Before(b) == Count(b) * PagesPerBlock

Scanned ==
  boot \in {"header", "isp"} \/ (boot = "boot_isp" /\ via = "update") =>
    Enough(BlkNum(len))

(* How many pages a walk from block 1 on has moved when it gets to x. *)
Rank(x) == Before(x[1]) + x[2]
Ranked(t, n) == \A k \in 0 .. n - 1 : t[k][1] > 0 /\ t[k][1] \notin bad /\ Rank(t[k]) = k

Filled ==
  boot \in {"isp", "load"} /\ ~wrapped =>
    /\ Ranked(trail, pos)
    /\ left > 0 => addr[1] > 0 /\ Rank(addr) = pos /\ (addr[1] \in bad => addr[2] = 0)

FilledUp ==
  /\ boot = "boot_isp" /\ via = "update" /\ ~wrapped => Ranked(laid, len)
  /\ boot = "jump" /\ via = "nand" /\ ~wrapped => Ranked(trail, len)

CountInv == FlashInv /\ Scanned /\ Filled /\ FilledUp

LEMMA CountNat ==
  ASSUME NEW b \in Nat
  PROVE  IsFiniteSet((1 .. b - 1) \ bad) /\ Count(b) \in Nat /\ Count(1) = 0
<1>1. 1 \in Int /\ b - 1 \in Int
  OBVIOUS
<1>2. IsFiniteSet(1 .. b - 1)
  BY <1>1, FS_Interval
<1>3. IsFiniteSet((1 .. b - 1) \ bad)
  BY <1>2, FS_Subset
<1>4. (1 .. 1 - 1) \ bad = {}
  OBVIOUS
<1>5. Count(1) = 0
  BY <1>4, FS_EmptySet DEF Count
<1>6. QED
  BY <1>3, <1>5, FS_CardinalityType DEF Count

(* A block counts if it is good. *)
LEMMA CountGrows ==
  ASSUME NEW b \in Nat, b > 0
  PROVE  Count(b + 1) = IF b \in bad THEN Count(b) ELSE Count(b) + 1
<1> DEFINE S == (1 .. b - 1) \ bad
<1>1. IsFiniteSet(S) /\ b \notin S
  <2>1. b \notin S
    OBVIOUS
  <2>2. QED
    BY <2>1, CountNat
<1>2. Count(b + 1) = Cardinality((1 .. b) \ bad)
  <2>1. (b + 1) - 1 = b
    OBVIOUS
  <2>2. QED
    BY <2>1 DEF Count
<1>3. CASE b \in bad
  <2>1. (1 .. b) \ bad = S
    BY <1>3
  <2>2. QED
    BY <1>2, <1>3, <2>1 DEF Count
<1>4. CASE b \notin bad
  <2>1. (1 .. b) \ bad = S \cup {b}
    BY <1>4
  <2>2. Cardinality(S \cup {b}) = Cardinality(S) + 1
    <3> HIDE DEF S
    <3> QED
      BY <1>1, FS_AddElement
  <2>3. QED
    BY <1>2, <1>4, <2>1, <2>2 DEF Count
<1>5. QED
  BY <1>3, <1>4

LEMMA Distributes ==
  ASSUME NEW g \in Nat, NEW p \in Nat
  PROVE  (g + 1) * p = g * p + p /\ g * p \in Nat
OBVIOUS

LEMMA Monotone ==
  ASSUME NEW g \in Nat, NEW m \in Nat, NEW p \in Nat, m <= g
  PROVE  m * p <= g * p
<1>1. PICK d \in Nat : g = m + d
  <2>1. g - m \in Nat /\ g = m + (g - m)
    OBVIOUS
  <2>2. QED
    BY <2>1
<1>2. (m + d) * p = m * p + d * p /\ m * p \in Nat /\ d * p \in Nat
  OBVIOUS
<1>3. QED
  BY <1>1, <1>2

LEMMA BlkNumCovers == ASSUME NEW n \in Nat PROVE BlkNum(n) \in Nat /\ n <= BlkNum(n) * PagesPerBlock
<1> DEFINE q == n \div PagesPerBlock
           r == n % PagesPerBlock
<1>1. /\ q \in Nat /\ r \in 0 .. PagesPerBlock - 1
      /\ n = q * PagesPerBlock + r /\ PagesPerBlock \in Nat
  OBVIOUS
<1>2. BlkNum(n) = IF r = 0 THEN q ELSE q + 1
  BY <1>1 DEF BlkNum
<1> HIDE DEF q, r
<1>3. (q + 1) * PagesPerBlock = q * PagesPerBlock + PagesPerBlock /\ q * PagesPerBlock \in Nat
  BY <1>1, Distributes
<1>4. CASE r = 0
  BY <1>1, <1>2, <1>3, <1>4
<1>5. CASE r # 0
  BY <1>1, <1>2, <1>3, <1>5
<1>6. QED
  BY <1>4, <1>5

(* A page that a whole block of pages follows is not in the last block.    *)
LEMMA NotInLast ==
  ASSUME NEW n \in Nat, NEW k \in Nat, NEW g \in Nat, g * PagesPerBlock <= k,
         k + PagesPerBlock < n
  PROVE  g + 1 < BlkNum(n)
<1>1. /\ BlkNum(n) \in Nat /\ n <= BlkNum(n) * PagesPerBlock /\ PagesPerBlock \in Nat
      /\ BlkNum(n) * PagesPerBlock \in Nat
  BY BlkNumCovers, Distributes
<1>2. (g + 1) * PagesPerBlock = g * PagesPerBlock + PagesPerBlock /\ g * PagesPerBlock \in Nat
  BY <1>1, Distributes
<1>3. (g + 1) * PagesPerBlock < BlkNum(n) * PagesPerBlock
  BY <1>1, <1>2
<1>4. ASSUME BlkNum(n) <= g + 1 PROVE FALSE
  <2>1. BlkNum(n) * PagesPerBlock <= (g + 1) * PagesPerBlock
    BY <1>1, <1>4, Monotone
  <2>2. QED
    BY <1>1, <1>2, <1>3, <2>1
<1>5. QED
  BY <1>1, <1>4

(* The address a step leads to, unless it goes round the end of the chip. *)
LEMMA NoWrap ==
  ASSUME NEW a \in Addr, a[1] > 0
  PROVE  /\ Wraps(a, NextBlock(a)) \/ NextBlock(a) = <<a[1] + 1, 0>>
         /\ Wraps(a, NextPage(a)) \/ NextPage(a) = IF a[2] + 1 = PagesPerBlock
                                                   THEN <<a[1] + 1, 0>> ELSE <<a[1], a[2] + 1>>
BY DEF Addr, Blocks, Pages, Wraps, NextBlock, NextPage

LEMMA WalkStep ==
  ASSUME MainInv, NandStep, boot \in {"isp", "load"}
  PROVE  /\ bad' = bad
         /\ SkipBlock \/ PageDone \/ UNCHANGED <<addr, left, pos, trail, wrapped>>
<1>1. CASE boot = "isp"
  BY <1>1, WriteStep DEF Writing, drvVars, readVars
<1>2. CASE boot = "load"
  BY <1>2, ReadStep DEF DmaTransfer
<1>3. QED
  BY <1>1, <1>2

LEMMA FilledStep ==
  ASSUME CountInv, NandStep, UNCHANGED mainVars, boot \in {"isp", "load"}
  PROVE  Filled'
<1>1. /\ MainInv /\ NandInv /\ Filled /\ boot' = boot
      /\ addr \in Addr /\ bad \in SUBSET Blocks /\ pos \in 0 .. MaxPages /\ left \in Nat
      /\ trail \in [0 .. MaxPages - 1 -> Addr] /\ wrapped \in BOOLEAN
  BY DEF CountInv, FlashInv, IInv, MainInv, mainVars, NandInv, NandTypeOK, ChipTypeOK
<1>2. bad' = bad
  BY <1>1, WalkStep
<1>3. addr[1] \in Nat /\ addr[2] \in Nat
  BY <1>1 DEF Addr, Blocks, Pages
<1> SUFFICES ASSUME ~wrapped' PROVE Filled'
  BY DEF Filled
<1>4. CASE SkipBlock
  <2>1. /\ addr' = NextBlock(addr) /\ addr[1] \in bad /\ left > 0 /\ UNCHANGED <<trail, pos, left>>
        /\ ~wrapped /\ ~Wraps(addr, NextBlock(addr))
    BY <1>1, <1>4 DEF SkipBlock, NandInv, Control
  <2>2. addr[1] > 0 /\ addr[2] = 0 /\ Before(addr[1]) + 0 = pos
    BY <1>1, <2>1 DEF Filled, Rank
  <2>3. addr' = <<addr[1] + 1, 0>>
    BY <1>1, <2>1, <2>2, NoWrap
  <2>4. Count(addr[1] + 1) = Count(addr[1])
    BY <1>3, <2>1, <2>2, CountGrows
  <2>5. Before(addr[1] + 1) + 0 = pos
    BY <2>2, <2>4 DEF Before
  <2>6. left' > 0 => /\ addr'[1] > 0 /\ Rank(addr)' = pos'
                     /\ addr'[1] \in bad' => addr'[2] = 0
    BY <1>2, <1>3, <2>1, <2>3, <2>5 DEF Rank, Before, Count
  <2>7. Ranked(trail, pos)'
    BY <1>1, <1>2, <2>1 DEF Filled, Ranked, Rank, Before, Count
  <2>8. QED
    BY <2>6, <2>7 DEF Filled
<1>5. CASE PageDone
  <2>1. /\ addr' = NextPage(addr) /\ addr[1] \notin bad /\ left > 0 /\ pos' = pos + 1
        /\ trail' = [trail EXCEPT ![pos] = addr] /\ pos \in 0 .. MaxPages - 1
        /\ left' = left - 1 /\ ~wrapped /\ (left' > 0 => ~Wraps(addr, NextPage(addr)))
    <3>1. /\ left > 0 /\ pos + left <= MaxPages /\ addr[1] \notin bad /\ MaxPages \in Nat
      BY <1>1, <1>5 DEF PageDone, NandInv, Control
    <3>2. /\ addr' = NextPage(addr) /\ trail' = [trail EXCEPT ![pos] = addr]
          /\ pos' = pos + 1 /\ left' = left - 1
          /\ wrapped' = (wrapped \/ (left > 1 /\ Wraps(addr, addr')))
      BY <1>5 DEF PageDone
    <3>3. left' > 0 => left > 1
      BY <1>1, <3>2
    <3>4. ~wrapped /\ (left' > 0 => ~Wraps(addr, NextPage(addr)))
      BY <3>2, <3>3
    <3>5. pos \in 0 .. MaxPages - 1
      BY <1>1, <3>1
    <3>6. QED
      BY <3>1, <3>2, <3>4, <3>5
  <2>2. addr[1] > 0 /\ Rank(addr) = pos
    BY <1>1, <2>1 DEF Filled
  <2>3. Count(addr[1]) \in Nat /\ Before(addr[1]) \in Nat /\ PagesPerBlock \in Nat
    BY <1>3, CountNat, Distributes DEF Before
  <2>4. ASSUME NEW k \in 0 .. pos
        PROVE  trail'[k][1] > 0 /\ trail'[k][1] \notin bad /\ Rank(trail'[k]) = k
    <3>1. CASE k = pos
      BY <1>1, <2>1, <2>2, <3>1
    <3>2. CASE k \in 0 .. pos - 1
      <4>1. trail'[k] = trail[k]
        BY <1>1, <2>1, <3>2
      <4>2. QED
        BY <1>1, <2>1, <3>2, <4>1 DEF Filled, Ranked
    <3>3. QED
      BY <1>1, <3>1, <3>2
  <2>5. Ranked(trail, pos)'
    BY <1>1, <1>2, <2>1, <2>4 DEF Ranked, Rank, Before, Count
  <2>6. ASSUME left' > 0
        PROVE  addr'[1] > 0 /\ Rank(addr') = pos + 1 /\ (addr'[1] \in bad => addr'[2] = 0)
    <3>1. CASE addr[2] + 1 = PagesPerBlock
      <4>1. addr' = <<addr[1] + 1, 0>>
        BY <1>1, <2>1, <2>2, <2>6, <3>1, NoWrap
      <4>2. Count(addr[1] + 1) = Count(addr[1]) + 1
        BY <1>3, <2>1, <2>2, CountGrows
      <4>3. Before(addr[1] + 1) = Before(addr[1]) + PagesPerBlock
        BY <2>3, <4>2, Distributes DEF Before
      <4>4. QED
        BY <1>1, <1>3, <2>2, <2>3, <3>1, <4>1, <4>3 DEF Rank
    <3>2. CASE addr[2] + 1 # PagesPerBlock
      <4>1. addr' = <<addr[1], addr[2] + 1>>
        BY <1>1, <2>1, <2>2, <2>6, <3>2, NoWrap
      <4>2. QED
        BY <1>1, <1>3, <2>1, <2>2, <2>3, <4>1 DEF Rank
    <3>3. QED
      BY <3>1, <3>2
  <2>7. left' > 0 => /\ addr'[1] > 0 /\ Rank(addr)' = pos'
                     /\ addr'[1] \in bad' => addr'[2] = 0
    BY <1>2, <2>1, <2>6 DEF Rank, Before, Count
  <2>8. QED
    BY <2>5, <2>7 DEF Filled
<1>6. CASE UNCHANGED <<addr, left, pos, trail, wrapped>>
  BY <1>1, <1>2, <1>6 DEF Filled, Ranked, Rank, Before, Count
<1>7. QED
  BY <1>1, <1>4, <1>5, <1>6, WalkStep

LEMMA NandStepCounts ==
  ASSUME CountInv, NandStep, UNCHANGED mainVars
  PROVE  Scanned' /\ Filled' /\ FilledUp'
<1>1. MainInv /\ UNCHANGED <<boot, len, via, laid>>
  BY DEF CountInv, FlashInv, IInv, mainVars
<1>2. Filled'
  BY <1>1, FilledStep DEF Filled
<1>3. boot # "blank" => bad' = bad /\ endBlk' = endBlk
  BY <1>1, QuietBad
<1>4. Scanned'
  BY <1>1, <1>3 DEF CountInv, Scanned, Enough, Found
<1>5. FilledUp'
  <2> SUFFICES ASSUME boot \in {"boot_isp", "jump"} PROVE FilledUp'
    BY <1>1 DEF FilledUp
  <2>1. pc = "idle" /\ dma # "armed"
    BY <1>1 DEF MainInv, Sync, NandInv, Control
  <2>2. wrapped' = wrapped /\ trail' = trail
    BY <2>1 DEF NandStep, Driver, ResetDone, IsBadBlock, SkipBlock, StartPage, DmaDone, PageDone,
       PageTimeout, Close, Return, BlankPassed, BlankFailed, BlankResume, Hardware, DmaTransfer,
       drvVars, readVars
  <2>3. QED
    BY <1>1, <1>3, <2>2 DEF CountInv, FilledUp, Ranked, Rank, Before, Count
<1>6. QED
  BY <1>2, <1>4, <1>5

(* The blocks that the check has counted are there until the ISP is laid.  *)
LEMMA ScannedKept ==
  ASSUME CountInv, WriteHeader \/ WriteIsp \/ BootUpdated
  PROVE  Scanned'
<1>1. /\ pc = "idle" /\ UNCHANGED <<bad, endBlk, len>>
      /\ boot \in {"blank", "header", "isp"}
  BY DEF WriteHeader, WriteIsp, BootUpdated, Returned, CallRead, blankVars, drvVars
<1>2. Enough(BlkNum(len))
  BY <1>1 DEF CountInv, FlashInv, Needed, Scanned, IInv, MainInv, Sync
<1>3. BlkNum(len') = BlkNum(len)
  BY <1>1
<1>4. Enough(BlkNum(len))'
  BY <1>1, <1>2, <1>3 DEF Enough, Found, BlkNum
<1>5. QED
  BY <1>4 DEF Scanned

(* Where a walk begins. *)
LEMMA FilledBegins == ASSUME WriteIsp \/ LoadIsp PROVE Filled'
<1>1. /\ UNCHANGED <<bad>> /\ pos' = 0 /\ addr'[1] = 1 /\ addr'[2] = 0
  BY DEF WriteIsp, LoadIsp, CallRead, BlockOne
<1>2. Count(1) = 0 /\ PagesPerBlock \in Nat
  BY CountNat
<1>3. Count(addr[1])' = 0
  BY <1>1, <1>2 DEF Count
<1>4. Rank(addr)' = pos'
  BY <1>1, <1>2, <1>3 DEF Rank, Before
<1>5. Ranked(trail, pos)'
  <2>1. \A k \in 0 .. pos' - 1 : FALSE
    BY <1>1
  <2>2. QED
    BY <2>1 DEF Ranked
<1>6. QED
  BY <1>1, <1>4, <1>5 DEF Filled

LEMMA FilledEnds == ASSUME CountInv, BootUpdated \/ Jump PROVE FilledUp'
<1>1. /\ UNCHANGED <<bad, via, len, wrapped, trail>> /\ pc = "idle"
      /\ \/ boot = "isp" /\ boot' = "boot_isp" /\ laid' = trail
         \/ boot = "load" /\ boot' = "jump"
  BY DEF BootUpdated, Jump, Returned, nandVars, chipVars, drvVars, readVars
<1>2. pos = len
  BY <1>1 DEF CountInv, FlashInv, IInv, MainInv, Sync, TypeOK, NandTypeOK
<1>3. ~wrapped => Ranked(trail, len)
  BY <1>1, <1>2 DEF CountInv, Filled
<1>4. ~wrapped' => Ranked(trail, len)'
  BY <1>1, <1>3 DEF Ranked, Rank, Before, Count
<1>5. boot' = "boot_isp" /\ ~wrapped' => Ranked(laid, len)'
  BY <1>1, <1>3 DEF Ranked, Rank, Before, Count
<1>6. QED
  BY <1>1, <1>4, <1>5 DEF FilledUp

LEMMA NextCount == CountInv /\ [Next]_vars => CountInv'
<1> SUFFICES ASSUME CountInv, [Next]_vars PROVE Scanned' /\ Filled' /\ FilledUp'
  BY NextFlash DEF CountInv
<1>1. CASE WriteHeader \/ WriteIsp \/ LoadIsp \/ BootUpdated \/ Jump
  <2>1. /\ WriteHeader => boot' = "header"
        /\ WriteIsp => boot' = "isp"
        /\ LoadIsp => boot' = "load"
        /\ BootUpdated => boot' = "boot_isp"
        /\ Jump => boot' = "jump"
    BY DEF WriteHeader, WriteIsp, LoadIsp, BootUpdated, Jump
  <2>2. Scanned'
    BY <1>1, <2>1, ScannedKept DEF Scanned
  <2>3. Filled'
    BY <1>1, <2>1, FilledBegins DEF Filled
  <2>4. FilledUp'
    BY <1>1, <2>1, FilledEnds DEF FilledUp
  <2>5. QED
    BY <2>2, <2>3, <2>4
<1>2. CASE \/ SetUp \/ UpdateIsp \/ GoSd \/ GoNand \/ BootStored \/ Restart
  <2>1. /\ boot' \notin {"header", "isp", "load"}
        /\ boot' = "boot_isp" => boot = "gonand" /\ via' = via
        /\ boot' = "jump" => via' = "sd"
    BY <1>2 DEF SetUp, BootUpload, UploadCut, BootNand, BootNoBsp, UpdateIsp, GoSd, GoNand, BootStored,
       Restart, EnterMain, Returned
  <2>2. boot = "gonand" => via # "update"
    BY DEF CountInv, FlashInv, IInv, MainInv, Sync
  <2>3. QED
    BY <2>1, <2>2 DEF Scanned, Filled, FilledUp
<1>3. CASE NandStep /\ UNCHANGED mainVars
  BY <1>3, NandStepCounts
<1>4. CASE UNCHANGED vars
  BY <1>4 DEF CountInv, Scanned, Enough, Found, Filled, FilledUp, Ranked, Rank, Before, Count, BlkNum, vars,
     nandVars, chipVars, drvVars, readVars, blankVars, mainVars
<1>5. QED
  BY <1>1, <1>2, <1>3, <1>4 DEF Next, Main, SetUp, Stopped

LEMMA InitCount == Init => CountInv
<1> SUFFICES ASSUME Init PROVE CountInv
  OBVIOUS
<1>1. FlashInv /\ boot = "start"
  BY InitFlash DEF Init
<1>2. QED
  BY <1>1 DEF CountInv, Scanned, Filled, FilledUp

(* Blanking_Check counts the pages of the ISP but not the header's         *)
(* (main.c:41, nandc.c:271-340): yet only the last block of an update lies *)
(* behind the blocks it has looked at.                                     *)
THEOREM OnlyLastUnverified == Spec => []UnverifiedIsLastBlock
<1>1. CountInv => UnverifiedIsLastBlock
  <2> SUFFICES ASSUME CountInv, boot = "boot_isp", via = "update", ~wrapped,
                      NEW k \in 0 .. len - 1, k + PagesPerBlock < len, laid[k][1] >= endBlk
               PROVE  FALSE
    <3>1. ASSUME NEW k \in 0 .. len - 1, CountInv PROVE laid[k][1] \in Nat /\ endBlk \in Nat
      <4>1. k \in 0 .. MaxPages - 1 /\ laid[k] \in Addr /\ endBlk \in Nat
        BY <3>1 DEF CountInv, FlashInv, IInv, MainInv, TypeOK, NandTypeOK
      <4>2. QED
        BY <4>1 DEF Addr, Blocks
    <3>2. QED
      BY <3>1 DEF UnverifiedIsLastBlock
  <2> DEFINE b == laid[k][1]
             S == (1 .. b - 1) \ bad
  <2>1. len \in Nat /\ len <= MaxPages /\ laid \in [0 .. MaxPages - 1 -> Addr] /\ endBlk \in Nat
    BY DEF CountInv, FlashInv, IInv, MainInv, TypeOK, NandTypeOK
  <2>2. b \in Nat /\ k \in Nat
    <3>1. laid[k] \in Addr
      BY <2>1
    <3>2. QED
      BY <3>1 DEF Addr, Blocks
  <2>3. Count(b) * PagesPerBlock <= k
    <3>1. Rank(laid[k]) = k
      BY DEF CountInv, FilledUp, Ranked
    <3>2. laid[k] \in Addr
      BY <2>1
    <3>3. laid[k][2] \in Nat
      BY <3>2 DEF Addr, Pages
    <3>4. Count(b) * PagesPerBlock \in Nat
      BY <2>2, CountNat, Distributes
    <3>5. QED
      BY <2>2, <3>1, <3>3, <3>4 DEF Rank, Before
  <2>4. IsFiniteSet(S) /\ Count(b) \in Nat /\ Count(b) = Cardinality(S)
    BY <2>2, CountNat DEF Count
  <2>5. Count(b) + 1 < BlkNum(len)
    BY <2>1, <2>2, <2>3, <2>4, NotInLast
  <2>6. Found \subseteq S \cup {0} /\ IsFiniteSet(Found)
    <3>1. Found \subseteq S \cup {0}
      BY <2>1, <2>2 DEF Found, Blocks
    <3>2. IsFiniteSet(S \cup {0})
      <4> HIDE DEF S
      <4> QED
        BY <2>4, FS_AddElement
    <3>3. QED
      <4> HIDE DEF S
      <4> QED
        BY <3>1, <3>2, FS_Subset
  <2>7. IsFiniteSet(S \cup {0}) /\ Cardinality(S \cup {0}) <= Count(b) + 1
    <3> HIDE DEF S
    <3>1. /\ IsFiniteSet(S \cup {0})
          /\ Cardinality(S \cup {0}) = IF 0 \in S THEN Cardinality(S) ELSE Cardinality(S) + 1
      BY <2>4, FS_AddElement
    <3>2. QED
      BY <2>4, <3>1
  <2>8. Cardinality(Found) <= Cardinality(S \cup {0})
    <3> HIDE DEF S
    <3> QED
      BY <2>6, <2>7, FS_Subset
  <2>9. Cardinality(Found) = BlkNum(len) /\ BlkNum(len) \in Nat
    <3>1. b \in Blocks \ bad /\ b \notin Found
      <4>1. laid[k] \in Addr /\ b \notin bad
        BY <2>1 DEF CountInv, FilledUp, Ranked
      <4>2. QED
        BY <2>1, <2>2, <4>1 DEF Found, Addr
    <3>2. Enough(BlkNum(len))
      BY DEF CountInv, Scanned
    <3>3. QED
      BY <2>1, <3>1, <3>2, BlkNumCovers DEF Enough
  <2>10. Cardinality(S \cup {0}) \in Nat
    BY <2>7, FS_CardinalityType
  <2> HIDE DEF S, b
  <2>11. QED
    BY <2>4, <2>5, <2>7, <2>8, <2>9, <2>10
<1>2. QED
  BY <1>1, InitCount, NextCount, PTL DEF Spec

-----------------------------------------------------------------------------
(***************************************************************************)
(* What a torn update leaves: the first n pages of the image, a page that  *)
(* holds anything, and blank pages.  As the write and a later load walk    *)
(* over the same good pages, Rank tells which page of the image each has.  *)
(***************************************************************************)
Prefix(n) ==
  \A x \in Addr : x[1] > 0 /\ x[1] \notin bad =>
    /\ Rank(x) < n => page[x] = Page(target, Rank(x) + 1) \/ x[1] \in defect
    /\ Rank(x) > n => page[x] = Blank

Torn == fresh => target \in Images /\ (Fits(target) => \E n \in Nat : Prefix(n))
Laying == boot = "isp" /\ fresh /\ Fits(target) => ~wrapped /\ Prefix(pos)

(* A load moves what is in the flash. *)
Loads ==
  /\ boot = "load" =>
       /\ \A k \in 0 .. pos - 1 : buf[k] = page[trail[k]]
       /\ Fetched => buf[pos] = page[addr]
  /\ boot = "jump" /\ via = "nand" => \A k \in 0 .. len - 1 : buf[k] = page[trail[k]]

TornInv == StoreInv /\ CountInv /\ Torn /\ Laying /\ Loads

(* Good pages are counted in the order of their addresses. *)
LEMMA RankGrows ==
  ASSUME bad \in SUBSET Blocks, NEW a \in Addr, NEW b \in Addr, a[1] > 0, a[1] \notin bad, Lt(a, b)
  PROVE  Rank(a) < Rank(b)
<1>1. /\ a[1] \in Nat /\ b[1] \in Nat /\ a[2] \in Nat /\ b[2] \in Nat /\ a[2] < PagesPerBlock
      /\ PagesPerBlock \in Nat
  BY DEF Addr, Blocks, Pages
<1>2. Count(a[1]) \in Nat /\ Count(b[1]) \in Nat /\ Before(a[1]) \in Nat /\ Before(b[1]) \in Nat
  BY <1>1, CountNat, Distributes DEF Before
<1>3. CASE a[1] = b[1] /\ a[2] < b[2]
  BY <1>1, <1>2, <1>3 DEF Rank
<1>4. CASE a[1] < b[1]
  <2>1. Count(a[1] + 1) = Count(a[1]) + 1
    BY <1>1, CountGrows
  <2>2. IsFiniteSet((1 .. b[1] - 1) \ bad)
    BY <1>1, CountNat
  <2>3. (1 .. (a[1] + 1) - 1) \ bad \subseteq (1 .. b[1] - 1) \ bad
    BY <1>1, <1>4
  <2>4. Cardinality((1 .. (a[1] + 1) - 1) \ bad) <= Cardinality((1 .. b[1] - 1) \ bad)
    BY <2>2, <2>3, FS_Subset
  <2>5. Count(a[1]) + 1 <= Count(b[1])
    BY <2>1, <2>4 DEF Count
  <2>6. (Count(a[1]) + 1) * PagesPerBlock <= Before(b[1])
    BY <1>1, <1>2, <2>5, Monotone DEF Before
  <2>7. (Count(a[1]) + 1) * PagesPerBlock = Before(a[1]) + PagesPerBlock
    BY <1>1, <1>2, Distributes DEF Before
  <2>8. QED
    BY <1>1, <1>2, <2>6, <2>7 DEF Rank
<1>5. QED
  BY <1>3, <1>4 DEF Lt

LEMMA RankNat == ASSUME NEW x \in Addr PROVE Rank(x) \in Nat
<1>1. x[1] \in Nat /\ x[2] \in Nat /\ PagesPerBlock \in Nat
  BY DEF Addr, Blocks, Pages
<1>2. Count(x[1]) \in Nat
  BY <1>1, CountNat
<1>3. Before(x[1]) \in Nat
  BY <1>1, <1>2, Distributes DEF Before
<1>4. QED
  BY <1>1, <1>3 DEF Rank

LEMMA RankApart ==
  ASSUME bad \in SUBSET Blocks, NEW a \in Addr, NEW b \in Addr,
         a[1] > 0, a[1] \notin bad, b[1] > 0, b[1] \notin bad, Rank(a) = Rank(b)
  PROVE  a = b
<1>1. Rank(a) \in Nat
  BY RankNat
<1>2. ~Lt(a, b) /\ ~Lt(b, a)
  BY <1>1, RankGrows
<1>3. QED
  BY <1>2, LtOrder

(* As long as there is a good page for it the write does not go round the  *)
(* end of the chip.                                                        *)
LEMMA StaysOn ==
  ASSUME bad \in SUBSET Blocks, NEW a \in Addr, a[1] > 0
  PROVE  /\ a[1] \in bad /\ a[2] = 0 /\ Rank(a) < Before(NumBlocks) => ~Wraps(a, NextBlock(a))
         /\ a[1] \notin bad /\ Rank(a) + 1 < Before(NumBlocks) => ~Wraps(a, NextPage(a))
<1>1. /\ a[1] \in Nat /\ a[2] \in Nat /\ a[2] < PagesPerBlock /\ PagesPerBlock \in Nat
      /\ NumBlocks \in Nat
  BY DEF Addr, Blocks, Pages
<1>2. Count(a[1]) \in Nat /\ Before(a[1]) \in Nat
  BY <1>1, CountNat, Distributes DEF Before
<1>3. CASE a[1] + 1 = NumBlocks
  <2>1. Count(NumBlocks) = IF a[1] \in bad THEN Count(a[1]) ELSE Count(a[1]) + 1
    BY <1>1, <1>3, CountGrows
  <2>2. CASE a[1] \in bad
    <3>1. Before(NumBlocks) = Before(a[1])
      BY <2>1, <2>2 DEF Before
    <3>2. QED
      BY <1>1, <1>2, <2>2, <3>1 DEF Rank
  <2>3. CASE a[1] \notin bad
    <3>1. Before(NumBlocks) = Before(a[1]) + PagesPerBlock
      BY <1>1, <1>2, <2>1, <2>3, Distributes DEF Before
    <3>2. CASE a[2] + 1 = PagesPerBlock
      BY <1>1, <1>2, <2>3, <3>1, <3>2 DEF Rank
    <3>3. CASE a[2] + 1 # PagesPerBlock
      BY <1>1, <2>3, <3>3 DEF Wraps, NextPage
    <3>4. QED
      BY <3>2, <3>3
  <2>4. QED
    BY <2>2, <2>3
<1>4. CASE a[1] + 1 # NumBlocks
  BY <1>1, <1>4 DEF Wraps, NextBlock, NextPage
<1>5. QED
  BY <1>3, <1>4

(* Before the ISP is written there is nothing behind block 0. *)
LEMMA AheadBlank ==
  FlashInv /\ fresh /\ boot \in {"blank", "header"} =>
    /\ ~wrapped
    /\ \A x \in Addr : x[1] > 0 /\ x[1] \notin bad => page[x] = Blank
<1> SUFFICES ASSUME FlashInv, fresh, boot \in {"blank", "header"}
             PROVE  /\ ~wrapped
                    /\ \A x \in Addr : x[1] > 0 /\ x[1] \notin bad => page[x] = Blank
  OBVIOUS
<1>1. 0 \notin bad
  BY DEF FlashInv, IInv, Cover, InUpdate
<1>2. ~wrapped
  BY <1>1, ZeroAddr DEF FlashInv, Written, LandedBegun, FirstBegun
<1>3. ASSUME NEW x \in Addr, x[1] > 0, x[1] \notin bad PROVE page[x] = Blank
  <2>1. x = <<x[1], x[2]>> /\ x[1] \in Blocks /\ x[2] \in Pages
    BY AddrClosed
  <2>2. CASE boot = "blank"
    BY <1>3, <2>1, <2>2 DEF FlashInv, IInv, Cover, BlankBlocks
  <2>3. CASE boot = "header"
    <3>1. x[1] \in clean /\ x[1] # 0
      BY <1>3, <2>1, <2>3 DEF FlashInv, IInv, Cover, InUpdate, Blocks
    <3>2. QED
      BY <1>1, <2>3, <3>1 DEF FlashInv, IInv, HeaderPhase
  <2>4. QED
    BY <2>2, <2>3
<1>4. QED
  BY <1>2, <1>3

(* Nothing written is the prefix of no page. *)
LEMMA PrefixNone ==
  (\A x \in Addr : x[1] > 0 /\ x[1] \notin bad => page[x] = Blank) => Prefix(0)
<1>1. \A x \in Addr : ~(Rank(x) < 0)
  BY RankNat
<1>2. QED
  BY <1>1 DEF Prefix

LEMMA AheadPrefix ==
  FlashInv /\ fresh /\ boot \in {"blank", "header"} => ~wrapped /\ Prefix(0)
BY AheadBlank, PrefixNone

LEMMA PrefixSame ==
  ASSUME NEW n \in Nat, Prefix(n), UNCHANGED <<page, bad, target, defect>>
  PROVE  (\E m \in Nat : Prefix(m))'
<1>1. Prefix(n)'
  BY DEF Prefix, Rank, Before, Count
<1>2. QED
  BY <1>1

(* A program at the end of a prefix, done or torn, or in block 0. *)
LEMMA PrefixProgram ==
  ASSUME NEW n \in Nat, Prefix(n), UNCHANGED <<bad, target, defect>>, bad \in SUBSET Blocks,
         page \in [Addr -> Cell], NEW a \in Addr, NEW c, page' = [page EXCEPT ![a] = c],
         a[1] = 0 \/ Rank(a) = n
  PROVE  \A x \in Addr : x[1] > 0 /\ x[1] \notin bad' =>
           /\ Rank(x)' < n => page'[x] = Page(target', Rank(x)' + 1) \/ x[1] \in defect'
           /\ Rank(x)' > n => page'[x] = Blank
<1> TAKE x \in Addr
<1> HAVE x[1] > 0 /\ x[1] \notin bad'
<1>1. Rank(x)' = Rank(x) /\ Rank(x) \in Nat
  BY RankNat DEF Rank, Before, Count
<1>2. CASE x = a
  BY <1>1, <1>2
<1>3. CASE x # a
  <2>1. page'[x] = page[x]
    BY <1>3
  <2>2. QED
    BY <1>1, <2>1 DEF Prefix
<1>4. QED
  BY <1>2, <1>3

(* One step of the ISP's write. *)
LEMMA LayingStep ==
  ASSUME TornInv, NandStep, UNCHANGED mainVars, boot = "isp", fresh, Fits(target)
  PROVE  ~wrapped' /\ Prefix(pos)'
<1>1. /\ MainInv /\ NandInv /\ FlashInv /\ Writing /\ ~wrapped /\ Prefix(pos) /\ Filled /\ IspPhase
      /\ UNCHANGED <<boot, target, staged, len>>
  BY DEF TornInv, CountInv, FlashInv, IInv, MainInv, Laying, Writing, mainVars
<1>2. /\ addr \in Addr /\ bad \in SUBSET Blocks /\ pos \in Nat /\ left \in Nat /\ len \in Nat
      /\ trail \in [0 .. MaxPages - 1 -> Addr] /\ page \in [Addr -> Cell]
      /\ pos + left = len /\ target = staged /\ len = ImgPages[target]
      /\ Ranked(trail, pos)
      /\ left > 0 => addr[1] > 0 /\ Rank(addr) = pos /\ (addr[1] \in bad => addr[2] = 0)
  BY <1>1 DEF TornInv, StoreInv, Kept, StageOf, MainInv, Sync, TypeOK, NandTypeOK, ChipTypeOK, Filled
<1>3. bad' = bad /\ defect' = defect
  BY <1>1, QuietBad DEF Writing
<1>4. len <= Before(NumBlocks) /\ Before(NumBlocks) \in Nat
  <2>1. Before(NumBlocks) \in Nat
    BY CountNat, Distributes DEF Before
  <2>2. QED
    BY <1>2, <2>1 DEF Fits, Before, Count
<1>5. CASE SkipBlock
  <2>1. /\ left > 0 /\ addr[1] \in bad /\ UNCHANGED <<page, pos>>
        /\ wrapped' = (wrapped \/ Wraps(addr, NextBlock(addr)))
    BY <1>1, <1>5 DEF SkipBlock, NandInv, Control, chipVars
  <2>2. Rank(addr) < Before(NumBlocks)
    BY <1>2, <1>4, <2>1
  <2>3. ~wrapped'
    BY <1>1, <1>2, <2>1, <2>2, StaysOn
  <2>4. QED
    BY <1>1, <1>3, <2>1, <2>3 DEF Prefix, Rank, Before, Count
<1>6. CASE PageDone
  <2>1. /\ left > 0 /\ addr[1] \notin bad /\ page' = page /\ pos' = pos + 1
        /\ wrapped' = (wrapped \/ (left > 1 /\ Wraps(addr, NextPage(addr))))
        /\ Landed /\ pc # "halt"
    BY <1>1, <1>6 DEF PageDone, NandInv, Control, Landed, chipVars
  <2>2. left > 1 => Rank(addr) + 1 < Before(NumBlocks)
    BY <1>2, <1>4, <2>1
  <2>3. ~wrapped'
    BY <1>1, <1>2, <2>1, <2>2, StaysOn
  <2>4. page[addr] = Page(target, pos + 1) \/ addr[1] \in defect
    <3>1. 0 \notin bad /\ addr[1] \in clean
      BY <1>1, <1>2, <2>1 DEF FlashInv, IInv, Cover, InUpdate, Addr
    <3>2. QED
      BY <1>1, <1>2, <2>1, <3>1 DEF IspPhase, Sound
  <2>5. ASSUME NEW x \in Addr, x[1] > 0, x[1] \notin bad
        PROVE  /\ Rank(x) < pos + 1 => page[x] = Page(target, Rank(x) + 1) \/ x[1] \in defect
               /\ Rank(x) > pos + 1 => page[x] = Blank
    <3>1. Rank(x) \in Nat
      BY RankNat
    <3>2. CASE Rank(x) = pos
      <4>1. x = addr
        BY <1>2, <2>1, <2>5, <3>2, RankApart
      <4>2. QED
        BY <1>2, <2>4, <3>2, <4>1
    <3>3. CASE Rank(x) # pos
      BY <1>1, <1>2, <2>5, <3>1, <3>3 DEF Prefix
    <3>4. QED
      BY <3>2, <3>3
  <2>6. Prefix(pos)'
    BY <1>1, <1>3, <2>1, <2>5 DEF Prefix, Rank, Before, Count
  <2>7. QED
    BY <2>3, <2>6
<1>7. CASE HwProgram(buf[pos]) /\ UNCHANGED drvVars
  <2>1. left > 0 /\ nadr = addr
    BY <1>1, <1>7, ProgramUnderWay DEF HwProgram
  <2>2. /\ page' = [page EXCEPT ![addr] = Programmed(addr[1], page[addr], buf[pos])]
        /\ UNCHANGED <<pos, wrapped>>
    BY <1>7, <2>1 DEF HwProgram, drvVars, readVars
  <2>3. \A x \in Addr : x[1] > 0 /\ x[1] \notin bad' =>
          /\ Rank(x)' < pos => page'[x] = Page(target', Rank(x)' + 1) \/ x[1] \in defect'
          /\ Rank(x)' > pos => page'[x] = Blank
    BY <1>1, <1>2, <1>3, <2>1, <2>2, PrefixProgram
  <2>4. QED
    BY <1>1, <2>2, <2>3 DEF Prefix
<1>8. CASE UNCHANGED <<page, addr, left, pos, buf, wrapped, trail>>
  BY <1>1, <1>3, <1>8 DEF Prefix, Rank, Before, Count
<1>9. QED
  BY <1>1, <1>5, <1>6, <1>7, <1>8, WriteStep

LEMMA NandStepTorn ==
  ASSUME TornInv, FlashInv', NandStep, UNCHANGED mainVars
  PROVE  Torn' /\ Laying'
<1>1. MainInv /\ UNCHANGED <<boot, target, fresh>> /\ boot \in BootPCs
  BY DEF TornInv, CountInv, FlashInv, IInv, MainInv, TypeOK, mainVars
<1>2. CASE boot = "isp"
  <2>1. bad' = bad
    BY <1>1, <1>2, QuietBad
  <2>2. Laying'
    BY <1>1, <1>2, <2>1, LayingStep DEF Laying, Fits
  <2>3. pos' \in Nat
    BY DEF FlashInv, IInv, MainInv, TypeOK, NandTypeOK
  <2>4. Torn'
    BY <1>1, <1>2, <2>2, <2>3 DEF TornInv, Torn, Laying
  <2>5. QED
    BY <2>2, <2>4
<1>3. CASE boot \in {"blank", "header"}
  <2>1. (FlashInv /\ fresh /\ boot \in {"blank", "header"})' => Prefix(0)'
    BY AheadPrefix, PTL
  <2>2. fresh' => Prefix(0)'
    BY <1>1, <1>3, <2>1
  <2>3. Torn'
    BY <1>1, <2>2 DEF TornInv, Torn
  <2>4. QED
    BY <1>1, <1>3, <2>3 DEF Laying
<1>4. CASE boot \notin {"isp", "blank", "header"}
  <2>1. UNCHANGED <<page, bad, target, defect>>
    BY <1>1, <1>4, QuietPage, QuietBad
  <2>2. Fits(target)' => Fits(target)
    BY <2>1 DEF Fits
  <2>3. Torn'
    BY <1>1, <2>1, <2>2, PrefixSame DEF TornInv, Torn
  <2>4. QED
    BY <1>1, <1>4, <2>3 DEF Laying
<1>5. QED
  BY <1>2, <1>3, <1>4

(* A reset tears at most the page under way. *)
LEMMA RestartTorn == ASSUME TornInv, FlashInv', Restart PROVE Torn' /\ Laying' /\ Loads'
<1>1. boot' = "start" /\ UNCHANGED <<fresh, target, defect>>
  BY DEF Restart
<1>2. /\ MainInv /\ NandInv /\ FlashInv /\ boot \in BootPCs /\ bad \in SUBSET Blocks
      /\ page \in [Addr -> Cell] /\ pos \in Nat
  <2>1. FlashInv /\ MainInv /\ TypeOK /\ NandInv
    BY DEF TornInv, CountInv, FlashInv, IInv, MainInv
  <2>2. NandTypeOK /\ ChipTypeOK /\ boot \in BootPCs
    BY <2>1 DEF TypeOK, NandTypeOK
  <2>3. QED
    BY <2>1, <2>2 DEF NandTypeOK, ChipTypeOK
<1>3. Laying' /\ Loads'
  BY <1>1 DEF Laying, Loads
<1>4. ASSUME fresh, Fits(target)' PROVE (\E n \in Nat : Prefix(n))'
  <2>1. CASE cmd = "page_write"
    <3>1. Writing /\ left > 0 /\ nadr = addr /\ addr \in Addr
      BY <1>2, <2>1, ProgramUnderWay
    <3>2. cmd # "sp_write"
      BY <2>1
    <3>3. bad' = bad
      BY <3>2 DEF Restart, Interrupted
    <3>4. page' = page \/ \E c : page' = [page EXCEPT ![addr] = c]
      BY <3>1 DEF Restart, Interrupted
    <3>5. PICK n \in Nat : Prefix(n) /\ (addr[1] = 0 \/ Rank(addr) = n)
      <4>1. CASE boot = "header"
        <5>1. addr = <<0, 0>>
          BY <1>2, <1>4, <3>1, <4>1 DEF FlashInv, IInv, Cover, InUpdate, HeaderPhase
        <5>2. QED
          BY <1>2, <1>4, <4>1, <5>1, AheadPrefix
      <4>2. CASE boot = "isp"
        <5>1. Fits(target)
          BY <1>1, <1>4, <3>3 DEF Fits
        <5>2. Prefix(pos) /\ Rank(addr) = pos
          BY <1>4, <3>1, <4>2, <5>1 DEF TornInv, Laying, CountInv, Filled
        <5>3. QED
          BY <1>2, <5>2
      <4>3. QED
        BY <3>1, <4>1, <4>2 DEF Writing
    <3>6. CASE page' = page
      BY <1>1, <3>3, <3>5, <3>6, PrefixSame
    <3>7. ASSUME NEW c, page' = [page EXCEPT ![addr] = c] PROVE (\E m \in Nat : Prefix(m))'
      <4>1. \A x \in Addr : x[1] > 0 /\ x[1] \notin bad' =>
              /\ Rank(x)' < n => page'[x] = Page(target', Rank(x)' + 1) \/ x[1] \in defect'
              /\ Rank(x)' > n => page'[x] = Blank
        BY <1>1, <1>2, <3>1, <3>3, <3>5, <3>7, PrefixProgram
      <4>2. Prefix(n)'
        BY <4>1 DEF Prefix
      <4>3. QED
        BY <4>2
    <3>8. QED
      BY <3>4, <3>6, <3>7
  <2>2. CASE cmd # "page_write" /\ boot = "blank"
    <3>1. page' = page /\ bad \subseteq bad'
      BY <2>2 DEF Restart, Interrupted
    <3>2. (\A x \in Addr : x[1] > 0 /\ x[1] \notin bad => page[x] = Blank)'
      BY <1>2, <1>4, <2>2, <3>1, AheadBlank
    <3>3. Prefix(0)'
      BY <3>2, PrefixNone, PTL
    <3>4. QED
      BY <3>3
  <2>3. CASE cmd # "page_write" /\ boot # "blank"
    <3>1. cmd # "sp_write"
      BY <1>2, <2>3 DEF NandInv, Control, MainInv, Sync, BootPCs
    <3>2. UNCHANGED <<page, bad>>
      BY <2>3, <3>1 DEF Restart, Interrupted
    <3>3. Fits(target)
      BY <1>1, <1>4, <3>2 DEF Fits
    <3>4. PICK n \in Nat : Prefix(n)
      BY <1>4, <3>3 DEF TornInv, Torn
    <3>5. QED
      BY <1>1, <3>2, <3>4, PrefixSame
  <2>4. QED
    BY <2>1, <2>2, <2>3
<1>5. Torn'
  BY <1>1, <1>4 DEF TornInv, Torn
<1>6. QED
  BY <1>3, <1>5

LEMMA NandStepLoads ==
  ASSUME TornInv, NandStep, UNCHANGED mainVars
  PROVE  Loads'
<1>1. /\ MainInv /\ NandInv /\ Loads /\ UNCHANGED <<boot, via, len>>
      /\ pos \in Nat /\ left \in Nat /\ buf \in Buffers /\ trail \in [0 .. MaxPages - 1 -> Addr]
      /\ MaxPages \in Nat
  BY DEF TornInv, CountInv, FlashInv, IInv, MainInv, NandInv, NandTypeOK, mainVars
<1>2. CASE boot = "load"
  <2>1. /\ \A k \in 0 .. pos - 1 : buf[k] = page[trail[k]]
        /\ Fetched => buf[pos] = page[addr]
    BY <1>1, <1>2 DEF Loads
  <2>2. page' = page
    BY <1>1, <1>2, ReadStep
  <2>3. CASE SkipBlock
    BY <1>1, <1>2, <2>1, <2>2, <2>3 DEF Loads, SkipBlock, Fetched
  <2>4. CASE PageDone
    <3>1. /\ Fetched /\ ~Fetched' /\ buf' = buf /\ pos' = pos + 1 /\ left > 0
          /\ trail' = [trail EXCEPT ![pos] = addr] /\ pos + left <= MaxPages
      BY <1>1, <2>4 DEF PageDone, Fetched, NandInv, Control
    <3>2. pos \in 0 .. MaxPages - 1
      BY <1>1, <3>1
    <3>3. ASSUME NEW k \in 0 .. pos PROVE buf'[k] = page'[trail'[k]]
      <4>1. CASE k = pos
        BY <1>1, <2>1, <2>2, <3>1, <3>2, <4>1
      <4>2. CASE k \in 0 .. pos - 1
        <5>1. trail'[k] = trail[k]
          BY <1>1, <3>1, <3>2, <4>2
        <5>2. QED
          BY <2>1, <2>2, <3>1, <4>2, <5>1
      <4>3. QED
        BY <1>1, <4>1, <4>2
    <3>4. \A k \in 0 .. pos' - 1 : buf'[k] = page'[trail'[k]]
      BY <1>1, <3>1, <3>3
    <3>5. QED
      BY <1>1, <1>2, <3>1, <3>4 DEF Loads
  <2>5. CASE DmaTransfer /\ cmd = "page_read" /\ nadr = addr
    <3>1. pos \in 0 .. MaxPages - 1
      BY <1>1, <2>5 DEF DmaTransfer, NandInv, Control
    <3>2. /\ buf'[pos] = page[addr] /\ \A k \in 0 .. pos - 1 : buf'[k] = buf[k]
          /\ UNCHANGED <<addr, pos, trail>>
      BY <1>1, <2>5, <3>1 DEF DmaTransfer, Buffers
    <3>3. QED
      BY <1>1, <1>2, <2>1, <2>2, <3>2 DEF Loads
  <2>6. CASE UNCHANGED <<addr, left, pos, buf, wrapped, trail>> /\ (Fetched' => Fetched)
    BY <1>1, <1>2, <2>1, <2>2, <2>6 DEF Loads
  <2>7. QED
    BY <1>1, <1>2, <2>3, <2>4, <2>5, <2>6, ReadStep
<1>3. CASE boot = "jump"
  <2>1. pc = "idle" /\ dma # "armed"
    BY <1>1, <1>3 DEF MainInv, Sync, NandInv, Control
  <2>2. page' = page
    BY <1>1, <1>3, QuietPage
  <2>3. CASE Driver
    BY <2>1, <2>3 DEF Driver, ResetDone, IsBadBlock, SkipBlock, StartPage, DmaDone, PageDone,
       PageTimeout, Close, Return, BlankPassed, BlankFailed, BlankResume
  <2>4. CASE Hardware
    <3>1. buf' = buf /\ trail' = trail
      BY <2>1, <2>4 DEF Hardware, DmaTransfer, drvVars, readVars
    <3>2. QED
      BY <1>1, <1>3, <2>2, <3>1 DEF Loads
  <2>5. QED
    BY <2>3, <2>4 DEF NandStep
<1>4. CASE boot \notin {"load", "jump"}
  BY <1>1, <1>4 DEF Loads
<1>5. QED
  BY <1>2, <1>3, <1>4

(* Before its first page the ISP's write has the room that it needs. *)
LEMMA BeginsTorn ==
  ASSUME TornInv, FlashInv', UpdateIsp \/ WriteHeader \/ WriteIsp
  PROVE  Torn' /\ Laying' /\ Loads'
<1>1. /\ boot' \in {"blank", "header", "isp"} /\ UNCHANGED <<page, bad, defect>>
      /\ target' \in {target, staged} /\ (fresh' => fresh \/ UpdateIsp)
      /\ UpdateIsp => boot' = "blank" /\ target' = staged
      /\ ~UpdateIsp => target' = target
      /\ boot' = "isp" => boot = "header" /\ fresh' = fresh /\ pos' = 0 /\ wrapped' = wrapped
  BY DEF UpdateIsp, WriteHeader, WriteIsp, CallRead, CallBlankingCheck, Returned
<1>2. Loads'
  BY <1>1 DEF Loads
<1>3. fresh' => target' \in Images
  <2>1. UpdateIsp => staged \in Images
    BY DEF UpdateIsp, TornInv, CountInv, FlashInv, IInv, MainInv, TypeOK
  <2>2. QED
    BY <1>1, <2>1 DEF TornInv, Torn
<1>4. CASE boot' = "isp"
  <2>1. fresh => ~wrapped /\ Prefix(0)
    BY <1>1, <1>4, AheadPrefix DEF TornInv, CountInv
  <2>2. target' = target
    BY <1>1, <1>4
  <2>3. fresh' => ~wrapped' /\ Prefix(pos)'
    BY <1>1, <1>4, <2>1, <2>2 DEF Prefix, Rank, Before, Count
  <2>4. pos' \in Nat
    BY <1>1, <1>4
  <2>5. QED
    BY <1>2, <1>3, <2>3, <2>4 DEF Torn, Laying
<1>5. CASE boot' \in {"blank", "header"}
  <2>1. (FlashInv /\ fresh /\ boot \in {"blank", "header"})' => Prefix(0)'
    BY AheadPrefix, PTL
  <2>2. fresh' => Prefix(0)'
    BY <1>5, <2>1
  <2>3. QED
    BY <1>2, <1>3, <1>5, <2>2 DEF Torn, Laying
<1>6. QED
  BY <1>1, <1>4, <1>5

LEMMA MainTorn ==
  ASSUME TornInv,
         \/ SetUp \/ GoSd \/ GoNand \/ BootUpdated \/ BootStored
         \/ LoadIsp \/ Jump
  PROVE  Torn' /\ Laying' /\ Loads'
<1>1. /\ UNCHANGED <<page, bad, target, defect, fresh>> /\ boot' # "isp"
  BY DEF SetUp, BootUpload, UploadCut, BootNand, BootNoBsp, GoSd, GoNand, BootUpdated, BootStored, LoadIsp, Jump,
     EnterMain, SetupUnchanged, CallRead, chipVars, nandVars
<1>2. Fits(target)' => Fits(target)
  BY <1>1 DEF Fits
<1>3. Torn'
  BY <1>1, <1>2, PrefixSame DEF TornInv, Torn
<1>4. Laying'
  BY <1>1 DEF Laying
<1>5. Loads'
  <2>1. CASE LoadIsp
    <3>1. boot' = "load" /\ pos' = 0 /\ pc' = "reset"
      BY <2>1 DEF LoadIsp, CallRead
    <3>2. ~Fetched' /\ \A k \in 0 .. pos' - 1 : FALSE
      BY <3>1 DEF Fetched
    <3>3. QED
      BY <3>1, <3>2 DEF Loads
  <2>2. CASE Jump
    <3>1. boot = "load" /\ pc = "idle" /\ boot' = "jump" /\ UNCHANGED <<buf, page, trail, len>>
      BY <2>2 DEF Jump, Returned, nandVars, chipVars, drvVars, readVars
    <3>2. pos = len
      BY <3>1 DEF TornInv, CountInv, FlashInv, IInv, MainInv, Sync, TypeOK, NandTypeOK
    <3>3. QED
      BY <3>1, <3>2 DEF TornInv, Loads
  <2>3. CASE ~LoadIsp /\ ~Jump
    <3>1. boot' # "load" /\ (boot' = "jump" => via' # "nand")
      BY <2>3 DEF SetUp, BootUpload, UploadCut, BootNand, BootNoBsp, GoSd, GoNand, BootUpdated, BootStored, EnterMain
    <3>2. QED
      BY <3>1 DEF Loads
  <2>4. QED
    BY <2>1, <2>2, <2>3
<1>6. QED
  BY <1>3, <1>4, <1>5

LEMMA StutterTorn == ASSUME TornInv, UNCHANGED vars PROVE Torn' /\ Laying' /\ Loads'
<1> USE DEF vars, nandVars, chipVars, drvVars, readVars, blankVars, mainVars, TornInv
<1>1. Torn'
  BY PrefixSame DEF Torn, Fits
<1>2. Laying'
  BY DEF Laying, Fits, Prefix, Rank, Before, Count
<1>3. Loads'
  BY DEF Loads, Fetched
<1>4. QED
  BY <1>1, <1>2, <1>3

LEMMA NextTorn == TornInv /\ [Next]_vars => TornInv'
<1> SUFFICES ASSUME TornInv, [Next]_vars PROVE Torn' /\ Laying' /\ Loads'
  BY NextStore, NextCount DEF TornInv
<1>1. FlashInv'
  BY NextFlash DEF TornInv, CountInv
<1>2. CASE Main
  BY <1>1, <1>2, BeginsTorn, MainTorn DEF Main, SetUp
<1>3. CASE NandStep /\ UNCHANGED mainVars
  BY <1>1, <1>3, NandStepTorn, NandStepLoads
<1>4. CASE Restart
  BY <1>1, <1>4, RestartTorn
<1>5. CASE UNCHANGED vars
  BY <1>5, StutterTorn
<1>6. QED
  BY <1>2, <1>3, <1>4, <1>5 DEF Next, Stopped

(* Power lost in the first update of a fresh chip (main.c:50-57), however  *)
(* often: what a boot from the flash then loads is the image up to a page, *)
(* perhaps a torn one, and blank pages.                                    *)
THEOREM TornUpdate == Spec => []TornIsPrefix
<1>1. Init => TornInv
  <2> SUFFICES ASSUME Init PROVE TornInv
    OBVIOUS
  <2>1. StoreInv /\ CountInv /\ boot = "start" /\ ~fresh
    BY InitStore, InitCount DEF Init
  <2>2. QED
    BY <2>1 DEF TornInv, Torn, Laying, Loads
<1>2. TornInv => TornIsPrefix
  <2> SUFFICES ASSUME TornInv, boot = "jump", via = "nand", fresh, ~wrapped, Fits(target)
               PROVE  \E c \in 0 .. len :
                        \A k \in 0 .. len - 1 :
                          \/ k = c
                          \/ k < c /\ buf[k] = Page(target, k + 1)
                          \/ k < c /\ trail[k][1] \in defect
                          \/ k > c /\ buf[k] = Blank
    BY DEF TornIsPrefix
  <2>1. /\ len \in 0 .. MaxPages /\ MaxPages \in Nat /\ trail \in [0 .. MaxPages - 1 -> Addr]
        /\ Ranked(trail, len)
        /\ \A k \in 0 .. len - 1 : buf[k] = page[trail[k]]
    BY DEF TornInv, CountInv, FlashInv, IInv, MainInv, TypeOK, NandTypeOK, FilledUp, Loads
  <2>2. PICK n \in Nat : Prefix(n)
    BY DEF TornInv, Torn
  <2>3. ASSUME NEW k \in 0 .. len - 1
        PROVE  /\ k < n => buf[k] = Page(target, k + 1) \/ trail[k][1] \in defect
               /\ k > n => buf[k] = Blank
    <3>1. trail[k] \in Addr
      BY <2>1
    <3>2. trail[k][1] > 0 /\ trail[k][1] \notin bad /\ Rank(trail[k]) = k
      BY <2>1 DEF Ranked
    <3>3. QED
      BY <2>1, <2>2, <3>1, <3>2 DEF Prefix
  <2>4. CASE n <= len
    <3>1. n \in 0 .. len
      BY <2>1, <2>4
    <3>2. WITNESS n \in 0 .. len
    <3>3. QED
      BY <2>1, <2>3
  <2>5. CASE n > len
    <3>1. len \in 0 .. len
      BY <2>1
    <3>2. WITNESS len \in 0 .. len
    <3>3. QED
      BY <2>1, <2>3, <2>5
  <2>6. QED
    BY <2>1, <2>4, <2>5
<1>3. QED
  BY <1>1, <1>2, NextTorn, PTL DEF Spec
=============================================================================
