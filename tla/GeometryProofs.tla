---------------------------- MODULE GeometryProofs ----------------------------
(***************************************************************************)
(* The arithmetic of the NAND path is right for every strap, every size of *)
(* a chip, every word size and every length of an ISP: the proofs.         *)
(*                                                                         *)
(* The twelve settings of page and block are told apart once, in           *)
(* Geometries and in the lemmas on rounding and on addresses. The          *)
(* invariant then says what a length becomes on its way: pages still to be *)
(* moved and pages moved make up the length, no step lets less than the    *)
(* ISP through, and an address is always that of a page.                   *)
(***************************************************************************)
EXTENDS Geometry, TLAPS

Straps == [ps : 0 .. 2, bs : 0 .. 3]
Chip ==
  gpc # "reset" =>
    /\ memc \in Straps /\ blocks \in Sizes /\ blocks * ChipBlock <= Word
    /\ bad \subseteq 0 .. blocks - 1

Known == gpc \notin {"reset", "upload", "init"}
Shifts ==
  Known => flashdev = [pgshift |-> PgShift(memc.ps),
                       bkshift |-> BkShift(memc.ps, memc.bs, PgShift(memc.ps)),
                       pgPerBk |-> IF memc.ps = 0 THEN 2 ^ (memc.bs + 2) ELSE 2 ^ (memc.bs + 4)]

(* What must have come through at the end. *)
Wanted == IF src = "uart" THEN length - (length % 4) ELSE length
Writing == gpc \in {"blank", "header", "isp"}
Upright ==
  /\ {staged, stored, loaded, moved, pgcnt, marked} \subseteq Nat
  /\ length \in 0 .. Word /\ src \in {"none", "uart", "sd"}
  /\ gpc \notin {"reset", "upload"} =>
       /\ length \in 0 .. Word - 4096 \/ (src = "none" /\ length = Erased)
       /\ src = "uart" => staged = UartBytes(length)
       /\ src = "sd" => staged = SdBytes(length)
       /\ src = "none" /\ length # Erased => stored = length
  /\ Writing => src # "none"
  /\ gpc = "load" /\ length # Erased => stored >= Wanted

Scanned ==
  gpc = "blank" =>
    /\ startPage % flashdev.pgPerBk = 0
    /\ endPage = (BlkNum(length) + marked) * flashdev.pgPerBk

Transfer ==
  /\ gpc = "header" => moved + pgcnt = PageCount(1024)
  /\ gpc \in {"isp", "load"} => moved + pgcnt = PageCount(length)

StrapOK == strap \in [ps : 0 .. 3, bs : 0 .. 3]
GInv == StrapOK /\ Chip /\ Shifts /\ Upright /\ Scanned /\ Transfer /\ WholeIsp

USE WordAssumption

-----------------------------------------------------------------------------
(* The geometries: page and block of the driver, and the chip's block.     *)
Row(ps, bk, n) ==
  /\ flashdev.pgshift = ps /\ flashdev.bkshift = bk /\ flashdev.pgPerBk = n
  /\ pgsize = 2 ^ ps /\ bksize = 2 ^ bk /\ ChipBlock = 2 ^ bk

LEMMA Geometries ==
  ASSUME GInv, Known
  PROVE  \/ Row(11, 13, 4) \/ Row(11, 14, 8) \/ Row(11, 15, 16) \/ Row(11, 16, 32)
         \/ Row(11, 17, 64) \/ Row(11, 18, 128)
         \/ Row(12, 16, 16) \/ Row(12, 17, 32) \/ Row(12, 18, 64) \/ Row(12, 19, 128)
<1>1. /\ memc \in Straps
      /\ flashdev = [pgshift |-> PgShift(memc.ps),
                     bkshift |-> BkShift(memc.ps, memc.bs, PgShift(memc.ps)),
                     pgPerBk |-> IF memc.ps = 0 THEN 2 ^ (memc.bs + 2) ELSE 2 ^ (memc.bs + 4)]
  BY DEF GInv, Chip, Shifts, Known
<1>2. memc.ps \in {0, 1, 2} /\ memc.bs \in {0, 1, 2, 3}
  BY <1>1 DEF Straps
<1>3. /\ flashdev.pgshift = PgShift(memc.ps)
      /\ flashdev.bkshift = BkShift(memc.ps, memc.bs, PgShift(memc.ps))
      /\ flashdev.pgPerBk = IF memc.ps = 0 THEN 2 ^ (memc.bs + 2) ELSE 2 ^ (memc.bs + 4)
  BY <1>1
<1>4. CASE memc.ps = 0
  <2>1. ChipPage = 512 /\ flashdev.pgshift = 11
    BY <1>3, <1>4 DEF ChipPage, PgShift
  <2>2. CASE memc.bs = 0
    BY <1>3, <1>4, <2>1, <2>2 DEF Row, PgShift, BkShift, pgsize, bksize, ChipBlock
  <2>3. CASE memc.bs = 1
    BY <1>3, <1>4, <2>1, <2>3 DEF Row, PgShift, BkShift, pgsize, bksize, ChipBlock
  <2>4. CASE memc.bs = 2
    BY <1>3, <1>4, <2>1, <2>4 DEF Row, PgShift, BkShift, pgsize, bksize, ChipBlock
  <2>5. CASE memc.bs = 3
    BY <1>3, <1>4, <2>1, <2>5 DEF Row, PgShift, BkShift, pgsize, bksize, ChipBlock
  <2>6. QED
    BY <1>2, <2>2, <2>3, <2>4, <2>5
<1>5. CASE memc.ps = 1
  <2>1. ChipPage = 2048 /\ flashdev.pgshift = 11
    BY <1>3, <1>5 DEF ChipPage, PgShift
  <2>2. CASE memc.bs = 0
    BY <1>3, <1>5, <2>1, <2>2 DEF Row, PgShift, BkShift, pgsize, bksize, ChipBlock
  <2>3. CASE memc.bs = 1
    BY <1>3, <1>5, <2>1, <2>3 DEF Row, PgShift, BkShift, pgsize, bksize, ChipBlock
  <2>4. CASE memc.bs = 2
    BY <1>3, <1>5, <2>1, <2>4 DEF Row, PgShift, BkShift, pgsize, bksize, ChipBlock
  <2>5. CASE memc.bs = 3
    BY <1>3, <1>5, <2>1, <2>5 DEF Row, PgShift, BkShift, pgsize, bksize, ChipBlock
  <2>6. QED
    BY <1>2, <2>2, <2>3, <2>4, <2>5
<1>6. CASE memc.ps = 2
  <2>1. ChipPage = 4096 /\ flashdev.pgshift = 12
    BY <1>3, <1>6 DEF ChipPage, PgShift
  <2>2. CASE memc.bs = 0
    BY <1>3, <1>6, <2>1, <2>2 DEF Row, PgShift, BkShift, pgsize, bksize, ChipBlock
  <2>3. CASE memc.bs = 1
    BY <1>3, <1>6, <2>1, <2>3 DEF Row, PgShift, BkShift, pgsize, bksize, ChipBlock
  <2>4. CASE memc.bs = 2
    BY <1>3, <1>6, <2>1, <2>4 DEF Row, PgShift, BkShift, pgsize, bksize, ChipBlock
  <2>5. CASE memc.bs = 3
    BY <1>3, <1>6, <2>1, <2>5 DEF Row, PgShift, BkShift, pgsize, bksize, ChipBlock
  <2>6. QED
    BY <1>2, <2>2, <2>3, <2>4, <2>5
<1>7. QED
  BY <1>2, <1>4, <1>5, <1>6

LEMMA BlockShift ==
  ASSUME GInv, Known
  PROVE  /\ flashdev.pgPerBk \in {4, 8, 16, 32, 64, 128}
         /\ 2 ^ (flashdev.bkshift - flashdev.pgshift) = flashdev.pgPerBk
<1> DEFINE d == flashdev.bkshift - flashdev.pgshift
           n == flashdev.pgPerBk
<1>1. <<d, n>> \in {<<2, 4>>, <<3, 8>>, <<4, 16>>, <<5, 32>>, <<6, 64>>, <<7, 128>>}
  BY Geometries DEF Row
<1>2. 2 ^ 2 = 4 /\ 2 ^ 3 = 8 /\ 2 ^ 4 = 16 /\ 2 ^ 5 = 32 /\ 2 ^ 6 = 64 /\ 2 ^ 7 = 128
  OBVIOUS
<1> HIDE DEF d, n
<1>3. n \in {4, 8, 16, 32, 64, 128} /\ 2 ^ d = n
  BY <1>1, <1>2
<1>4. QED
  BY <1>3 DEF d, n

(* What the rows have in common. *)
LEMMA Fits ==
  ASSUME GInv, Known
  PROVE  /\ bksize = ChipBlock /\ flashdev.pgPerBk * pgsize = bksize
         /\ pgsize \in {2048, 4096} /\ bksize \in 8192 .. Word
         /\ flashdev.pgPerBk \in 4 .. 128
<1>1. /\ bksize = ChipBlock /\ flashdev.pgPerBk * pgsize = bksize
      /\ pgsize \in {2048, 4096} /\ bksize \in Nat /\ bksize >= 8192
      /\ flashdev.pgPerBk \in 4 .. 128
  BY Geometries DEF Row
<1>2. blocks \in Nat \ {0} /\ blocks * bksize <= Word
  <2>1. blocks \in Sizes /\ blocks * ChipBlock <= Word
    BY DEF GInv, Chip, Known
  <2>2. QED
    BY <1>1, <2>1
<1>3. bksize <= blocks * bksize
  <2> DEFINE b == bksize
  <2> HIDE DEF b
  <2>1. ASSUME NEW x \in Nat, NEW n \in Nat \ {0} PROVE x <= n * x
    <3>1. n = 1 + (n - 1) /\ n - 1 \in Nat
      OBVIOUS
    <3>2. (1 + (n - 1)) * x = x + (n - 1) * x /\ (n - 1) * x \in Nat
      BY <3>1
    <3>3. QED
      BY <3>1, <3>2
  <2>2. QED
    BY <1>1, <1>2, <2>1
<1>4. bksize <= Word
  BY <1>1, <1>2, <1>3
<1>5. QED
  BY <1>1, <1>2, <1>4

-----------------------------------------------------------------------------
(* Rounding a length up to a block, and to a page, in machine words.       *)
BlockBytes == {8192, 16384, 32768, 65536, 131072, 262144, 524288}

LEMMA RoundUp ==
  ASSUME NEW n \in Nat, NEW d \in BlockBytes
  PROVE  LET q == n \div d + (IF n % d # 0 THEN 1 ELSE 0)
         IN  q \in Nat /\ n <= q * d /\ q * d < n + d
<1>1. CASE d = 8192
  BY <1>1
<1>2. CASE d = 16384
  BY <1>2
<1>3. CASE d = 32768
  BY <1>3
<1>4. CASE d = 65536
  BY <1>4
<1>5. CASE d = 131072
  BY <1>5
<1>6. CASE d = 262144
  BY <1>6
<1>7. CASE d = 524288
  BY <1>7
<1>8. QED
  BY <1>1, <1>2, <1>3, <1>4, <1>5, <1>6, <1>7 DEF BlockBytes

LEMMA BlocksOfLength ==
  ASSUME GInv, Known, NEW n \in Nat
  PROVE  BlkNum(n) \in Nat /\ n <= BlkNum(n) * bksize /\ BlkNum(n) * bksize < n + bksize
<1>1. bksize \in BlockBytes
  BY Geometries DEF Row, BlockBytes
<1>2. BlkNum(n) = n \div bksize + (IF n % bksize # 0 THEN 1 ELSE 0)
  BY DEF BlkNum, Shr, bksize
<1>3. QED
  BY <1>1, <1>2, RoundUp

LEMMA SmallMod == ASSUME NEW x \in Nat, NEW w \in Nat, x < w PROVE x % w = x
OBVIOUS

LEMMA ShiftMod ==
  ASSUME NEW w \in Nat \ {0}, NEW k \in Nat, NEW s \in Nat, s < w
  PROVE  (w * k + s) % w = s
<1> DEFINE q == (w * k + s) \div w
           r == (w * k + s) % w
<1>1. q \in Int /\ r \in 0 .. w - 1 /\ w * k + s = w * q + r
  OBVIOUS
<1> HIDE DEF q, r
<1>2. r - s = w * (k - q)
  BY <1>1
<1>3. CASE k - q >= 1
  <2>1. w * (k - q) = w + w * (k - q - 1) /\ w * (k - q - 1) >= 0
    BY <1>1, <1>3
  <2>2. QED
    BY <1>1, <1>2, <2>1
<1>4. CASE k - q <= -1
  <2>1. w * (k - q) = 0 - w * (q - k) /\ w * (q - k) = w + w * (q - k - 1)
        /\ w * (q - k - 1) >= 0
    BY <1>1, <1>4
  <2>2. QED
    BY <1>1, <1>2, <2>1
<1>5. CASE k - q = 0
  <2>1. w * (k - q) = 0
    BY <1>5
  <2>2. QED
    BY <1>1, <1>2, <2>1 DEF r
<1>6. QED
  BY <1>1, <1>3, <1>4, <1>5

LEMMA WrapMod == ASSUME NEW w \in Nat, NEW r \in Nat, r < w PROVE (w + r) % w = r
<1>1. w \in Nat \ {0} /\ w * 1 = w
  OBVIOUS
<1>2. (w * 1 + r) % w = r
  BY <1>1, ShiftMod
<1>3. QED
  BY <1>1, <1>2

LEMMA PagesOfLength ==
  ASSUME GInv, Known
  PROVE  /\ \A n \in 0 .. Word - 4096 : PageCount(n) \in Nat /\ n <= PageCount(n) * pgsize
         /\ PageCount(1024) = 1 /\ PageCount(Erased) = 0
<1> DEFINE Pg(n) == (n + (pgsize - 1)) % Word
<1>1. pgsize \in {2048, 4096} /\ Word \in Nat /\ Word >= 8192
  BY Fits
<1>2. \A n : PageCount(n) = Pg(n) \div pgsize
  BY DEF PageCount, Shr, pgsize
<1>3. ASSUME NEW n \in 0 .. Word - 4096 PROVE Pg(n) = n + (pgsize - 1)
  <2>1. n + (pgsize - 1) \in Nat /\ n + (pgsize - 1) < Word
    BY <1>1
  <2>2. QED
    BY <1>1, <2>1, SmallMod
<1>4. Pg(Erased) = pgsize - 2
  <2>1. Erased + (pgsize - 1) = Word + (pgsize - 2)
    BY <1>1 DEF Erased
  <2>2. pgsize - 2 \in Nat /\ pgsize - 2 < Word
    BY <1>1
  <2>3. QED
    BY <1>1, <2>1, <2>2, WrapMod
<1>5. ASSUME NEW n \in 0 .. Word - 4096
      PROVE  PageCount(n) \in Nat /\ n <= PageCount(n) * pgsize
  <2>1. PageCount(n) = (n + (pgsize - 1)) \div pgsize /\ n \in Nat
    BY <1>1, <1>2, <1>3
  <2> HIDE DEF Pg
  <2>2. CASE pgsize = 2048
    BY <2>1, <2>2
  <2>3. CASE pgsize = 4096
    BY <2>1, <2>3
  <2>4. QED
    BY <1>1, <2>2, <2>3
<1>6. PageCount(1024) = 1
  <2>1. 1024 \in 0 .. Word - 4096
    BY <1>1
  <2>2. PageCount(1024) = (1024 + (pgsize - 1)) \div pgsize
    BY <1>2, <1>3, <2>1
  <2>3. QED
    BY <1>1, <2>2
<1>7. PageCount(Erased) = 0
  BY <1>1, <1>2, <1>4
<1>8. QED
  BY <1>5, <1>6, <1>7

(* A sender puts at least what is wanted in memory, and "Go SD" copies it. *)
LEMMA Transported ==
  ASSUME NEW n \in Nat
  PROVE  /\ UartBytes(n) \in Nat /\ UartBytes(n) = n - (n % 4)
         /\ SdBytes(n) \in Nat /\ n <= SdBytes(n)
         /\ Copied(n) \in Nat /\ n <= Copied(n)
BY DEF UartBytes, SdBytes, Copied, Shr

-----------------------------------------------------------------------------
(* A step that leaves the chip alone leaves what is known of it.           *)
LEMMA ChipKept ==
  ASSUME GInv, gpc # "reset", gpc' # "reset", Known' => Known,
         UNCHANGED <<strap, memc, blocks, flashdev>>, bad' \subseteq 0 .. blocks - 1
  PROVE  (StrapOK /\ Chip /\ Shifts)'
<1>1. StrapOK'
  BY DEF GInv, StrapOK
<1>2. Chip'
  BY DEF GInv, Chip, ChipBlock, ChipPage
<1>3. Shifts'
  BY DEF GInv, Shifts
<1>4. QED
  BY <1>1, <1>2, <1>3

LEMMA SetMemcStep == ASSUME GInv, SetMemc PROVE GInv'
<1>1. gpc = "reset" /\ gpc' = "upload"
  BY DEF SetMemc, Goto
<1>2. memc' \in Straps
  BY DEF GInv, StrapOK, SetMemc, Straps
<1>3. Chip' /\ StrapOK'
  BY <1>2 DEF GInv, StrapOK, SetMemc, Chip, ChipBlock, ChipPage
<1>4. Upright'
  BY <1>1 DEF GInv, Upright, SetMemc, uploadVars, readVars, blankVars, Writing
<1>5. QED
  BY <1>1, <1>3, <1>4 DEF GInv, Shifts, Known, Scanned, Transfer, WholeIsp

LEMMA LengthInMemory ==
  ASSUME GInv, gpc # "reset", NEW t \in Lengths
  PROVE  LengthOf(t, ChipBlock) \in 0 .. Word - 4096
<1>1. memc \in Straps
  BY DEF GInv, Chip
<1>2. memc.ps \in {0, 1, 2} /\ memc.bs \in {0, 1, 2, 3}
  BY <1>1 DEF Straps
<1>3. ChipPage \in {512, 2048, 4096}
  BY <1>2 DEF ChipPage
<1>4. ChipBlock \in BlockSizes
  <2>1. 2 ^ 0 = 1 /\ 2 ^ 1 = 2 /\ 2 ^ 2 = 4 /\ 2 ^ 3 = 8
    OBVIOUS
  <2>2. ASSUME NEW n \in {0, 1, 2, 3} PROVE 2 ^ n \in {1, 2, 4, 8}
    BY <2>1
  <2>3. ChipBlock \in BlockBytes
    <3>1. ASSUME NEW k \in {1, 2, 4, 8}, NEW pg \in {512, 2048, 4096}
          PROVE  16 * k * pg \in BlockBytes
      BY DEF BlockBytes
    <3>2. ChipBlock = 16 * 2 ^ memc.bs * ChipPage /\ 2 ^ memc.bs \in {1, 2, 4, 8}
      BY <1>2, <2>2 DEF ChipBlock
    <3>3. QED
      BY <1>3, <3>1, <3>2
  <2>4. QED
    BY <2>3 DEF BlockSizes, BlockBytes
<1>5. QED
  BY <1>4, LengthAssumption

LEMMA UploadStep == ASSUME GInv, Upload PROVE GInv'
<1>1. gpc = "upload" /\ gpc' = "init" /\ UNCHANGED <<strap, memc, blocks, bad, flashdev>>
      /\ UNCHANGED <<loaded, readVars, blankVars>>
  BY DEF Upload, Goto
<1>2. (StrapOK /\ Chip /\ Shifts)'
  BY <1>1, ChipKept DEF GInv, Chip, Known
<1>3. Upright'
  <2>1. CASE length' = Erased /\ src' = "none" /\ staged' = 0 /\ stored' = 0
    <3>1. Erased \in 0 .. Word
      BY DEF Erased
    <3>2. QED
      BY <1>1, <2>1, <3>1 DEF GInv, Upright, readVars, blankVars, Writing
  <2>2. CASE \E t \in Lengths : length' = LengthOf(t, ChipBlock)
    <3>1. length' \in 0 .. Word - 4096 /\ length' \in Nat
      BY <1>1, <2>2, LengthInMemory
    <3>2. length' \in 0 .. Word
      BY <3>1
    <3>3. UartBytes(length') \in Nat /\ SdBytes(length') \in Nat
      BY <3>1, Transported
    <3>4. QED
      BY <1>1, <3>1, <3>2, <3>3
      DEF GInv, Upright, Upload, readVars, blankVars, Writing, UartBytes, SdBytes, Shr
  <2>3. QED
    BY <2>1, <2>2 DEF Upload
<1>4. QED
  BY <1>1, <1>2, <1>3 DEF GInv, Scanned, Transfer, WholeIsp

LEMMA NandInitStep == ASSUME GInv, NandInit PROVE GInv'
<1>1. gpc = "init" /\ gpc' = "main" /\ UNCHANGED <<strap, memc, blocks, bad>>
      /\ UNCHANGED <<uploadVars, readVars, blankVars>>
  BY DEF NandInit, Goto
<1>2. StrapOK' /\ Chip'
  BY <1>1 DEF GInv, StrapOK, Chip, ChipBlock, ChipPage
<1>3. Shifts'
  BY <1>1 DEF NandInit, Shifts, PgShift, BkShift
<1>4. Upright'
  BY <1>1 DEF GInv, Upright, uploadVars, readVars, blankVars, Writing
<1>5. QED
  BY <1>1, <1>2, <1>3, <1>4 DEF GInv, Scanned, Transfer, WholeIsp

-----------------------------------------------------------------------------
(* The blank check: its range is whole blocks, one more for each marked.   *)
LEMMA BlankingCheckStep == ASSUME GInv, BlankingCheck PROVE GInv'
<1>1. gpc = "main" /\ gpc' = "blank" /\ src # "none" /\ Known
      /\ UNCHANGED <<strap, memc, blocks, bad, flashdev>> /\ UNCHANGED <<uploadVars, readVars>>
  BY DEF BlankingCheck, Goto, Known
<1>2. (StrapOK /\ Chip /\ Shifts)'
  BY <1>1, ChipKept DEF GInv, Chip
<1>3. Upright'
  BY <1>1 DEF GInv, Upright, BlankingCheck, uploadVars, readVars, Writing
<1>4. length \in 0 .. Word - 4096 /\ length \in Nat
  BY <1>1 DEF GInv, Upright
<1>5. BlkNum(length) \in Nat /\ BlkNum(length) * bksize < length + bksize
  BY <1>1, <1>4, BlocksOfLength
<1>6. Shl(BlkNum(length), flashdev.bkshift - flashdev.pgshift)
        = BlkNum(length) * flashdev.pgPerBk
  <2> DEFINE q == BlkNum(length)
             p == q * flashdev.pgPerBk
  <2>1. 2 ^ (flashdev.bkshift - flashdev.pgshift) = flashdev.pgPerBk
    BY <1>1, BlockShift
  <2>2. p \in Nat /\ p < Word
    <3> HIDE DEF q
    <3>1. q * bksize < length + bksize /\ bksize <= Word /\ bksize = flashdev.pgPerBk * pgsize
          /\ pgsize \in {2048, 4096} /\ flashdev.pgPerBk \in Nat /\ bksize \in Nat
      BY <1>1, <1>5, Fits DEF q
    <3>2. p \in Nat /\ q * bksize = p * pgsize
      BY <1>5, <3>1 DEF q
    <3>3. QED
      BY <1>4, <3>1, <3>2
  <2>3. QED
    BY <2>1, <2>2, SmallMod DEF Shl
<1>7. Scanned'
  <2>1. startPage' = 0 /\ marked' = 0 /\ BlkNum(length)' = BlkNum(length)
        /\ flashdev' = flashdev
    BY <1>1 DEF BlankingCheck, BlkNum, Shr, bksize, uploadVars
  <2>2. endPage' = BlkNum(length) * flashdev.pgPerBk
    BY <1>6 DEF BlankingCheck
  <2>3. flashdev.pgPerBk \in 4 .. 128
    BY <1>1, Fits
  <2>4. 0 % flashdev.pgPerBk = 0
    BY <2>3
  <2>5. QED
    BY <1>5, <2>1, <2>2, <2>3, <2>4 DEF Scanned
<1>8. QED
  BY <1>1, <1>2, <1>3, <1>7 DEF GInv, Transfer, WholeIsp

LEMMA WholeBlock ==
  ASSUME NEW n \in {4, 8, 16, 32, 64, 128}, NEW k \in Int PROVE (k * n) % n = 0
OBVIOUS

LEMMA BlankFailedStep == ASSUME GInv, BlankFailed PROVE GInv'
<1>1. gpc = "blank" /\ gpc' = "blank" /\ Known /\ Known'
      /\ UNCHANGED <<strap, memc, blocks, flashdev>>
      /\ UNCHANGED <<uploadVars, pgcnt, moved>> /\ marked' = marked + 1
  BY DEF BlankFailed, Known
<1>2. PICK b \in 0 .. blocks - 1, k \in {0, flashdev.pgPerBk - 1} :
        /\ bad' = bad \cup {b}
        /\ startPage' = (BlockIdx(b * flashdev.pgPerBk + k) + 1) * flashdev.pgPerBk
        /\ endPage' = endPage + flashdev.pgPerBk
  BY DEF BlankFailed
<1>3. (StrapOK /\ Chip /\ Shifts)'
  BY <1>1, <1>2, ChipKept DEF GInv, Chip
<1>4. Upright'
  BY <1>1 DEF GInv, Upright, uploadVars, Writing
<1>5. flashdev.pgPerBk \in {4, 8, 16, 32, 64, 128}
      /\ 2 ^ (flashdev.bkshift - flashdev.pgshift) = flashdev.pgPerBk
  BY <1>1, BlockShift
<1>6. startPage' % flashdev.pgPerBk = 0
  <2>1. blocks \in Nat
    BY <1>1 DEF GInv, Chip
  <2>2. b * flashdev.pgPerBk + k \in Int
    BY <1>5, <2>1
  <2>3. BlockIdx(b * flashdev.pgPerBk + k) + 1 \in Int
    BY <1>5, <2>2 DEF BlockIdx, Shr
  <2>4. QED
    BY <1>2, <1>5, <2>3, WholeBlock
<1>7. endPage' = (BlkNum(length) + marked') * flashdev.pgPerBk
  <2>1. endPage = (BlkNum(length) + marked) * flashdev.pgPerBk
    BY <1>1 DEF GInv, Scanned
  <2>2. BlkNum(length) \in Nat /\ marked \in Nat
    <3>1. length \in Nat
      BY <1>1 DEF GInv, Upright, Writing
    <3>2. QED
      BY <1>1, <3>1, BlocksOfLength DEF GInv, Upright
  <2> DEFINE q == BlkNum(length)
  <2> HIDE DEF q
  <2>3. (q + marked) * flashdev.pgPerBk + flashdev.pgPerBk = (q + marked + 1) * flashdev.pgPerBk
    BY <1>5, <2>2 DEF q
  <2>4. QED
    BY <1>1, <1>2, <2>1, <2>2, <2>3 DEF q
<1>8. Scanned'
  <2>1. BlkNum(length)' = BlkNum(length) /\ flashdev' = flashdev
    BY <1>1 DEF BlkNum, Shr, bksize, uploadVars
  <2>2. QED
    BY <1>6, <1>7, <2>1 DEF Scanned
<1>9. QED
  BY <1>1, <1>3, <1>4, <1>8 DEF GInv, Transfer, WholeIsp

-----------------------------------------------------------------------------
(* nand_read: what it is called for, and each block and page of it.        *)
LEMMA PageCountIsNat ==
  ASSUME GInv, Known
  PROVE  PageCount(1024) \in Nat /\ PageCount(length) \in Nat
<1>1. length \in 0 .. Word - 4096 \/ length = Erased
  BY DEF GInv, Upright, Known
<1>2. QED
  BY <1>1, PagesOfLength

LEMMA ReadKeepsChip ==
  ASSUME GInv, NEW from, NEW to, NEW a, NEW n, Read(from, to, a, n), Known, Known'
  PROVE  (StrapOK /\ Chip /\ Shifts)' /\ PageCount(1024)' = PageCount(1024)
         /\ PageCount(length)' = PageCount(length)
<1>1. UNCHANGED <<strap, memc, blocks, bad, flashdev, length>>
  BY DEF Read
<1>2. bad' \subseteq 0 .. blocks - 1 /\ gpc # "reset" /\ gpc' # "reset"
  BY <1>1 DEF GInv, Chip, Known
<1>3. QED
  BY <1>1, <1>2, ChipKept DEF PageCount, Shr, pgsize

LEMMA BlankPassedStep == ASSUME GInv, BlankPassed PROVE GInv'
<1>1. gpc = "blank" /\ gpc' = "header" /\ Known /\ Known'
      /\ UNCHANGED <<src, length, staged, stored, loaded, marked>>
      /\ moved' = 0 /\ pgcnt' = PageCount(1024)
  BY DEF BlankPassed, Read, Goto, Known, blankVars
<1>2. (StrapOK /\ Chip /\ Shifts)' /\ PageCount(1024)' = PageCount(1024)
  BY <1>1, ReadKeepsChip DEF BlankPassed
<1>3. PageCount(1024) \in Nat
  BY <1>1, PageCountIsNat
<1>4. Upright'
  BY <1>1, <1>3 DEF GInv, Upright, Writing
<1>5. Transfer'
  BY <1>1, <1>2, <1>3 DEF Transfer
<1>6. QED
  BY <1>1, <1>2, <1>4, <1>5 DEF GInv, Scanned, WholeIsp

LEMMA WriteIspStep == ASSUME GInv, WriteIsp PROVE GInv'
<1>1. gpc = "header" /\ gpc' = "isp" /\ Known /\ Known'
      /\ UNCHANGED <<src, length, staged, stored, loaded, marked>>
      /\ moved' = 0 /\ pgcnt' = PageCount(length)
  BY DEF WriteIsp, Read, Goto, Known, blankVars
<1>2. (StrapOK /\ Chip /\ Shifts)' /\ PageCount(length)' = PageCount(length)
  BY <1>1, ReadKeepsChip DEF WriteIsp
<1>3. PageCount(length) \in Nat
  BY <1>1, PageCountIsNat
<1>4. Upright'
  BY <1>1, <1>3 DEF GInv, Upright, Writing
<1>5. Transfer'
  BY <1>1, <1>2, <1>3 DEF Transfer
<1>6. QED
  BY <1>1, <1>2, <1>4, <1>5 DEF GInv, Scanned, WholeIsp

(* What the pages moved hold, when none of the length is left.             *)
LEMMA AllMoved ==
  ASSUME GInv, gpc \in {"isp", "load"}, pgcnt = 0, length # Erased
  PROVE  moved * pgsize \in Nat /\ Wanted <= moved * pgsize
<1>1. Known /\ length \in 0 .. Word - 4096 /\ moved = PageCount(length) /\ moved \in Nat
  BY DEF GInv, Upright, Known, Transfer
<1>2. length <= moved * pgsize /\ pgsize \in {2048, 4096} /\ length \in Nat
  BY <1>1, PagesOfLength, Fits
<1>3. Wanted <= length /\ Wanted \in Nat
  BY <1>2 DEF Wanted
<1>4. moved * pgsize \in Nat
  BY <1>1, <1>2
<1>5. QED
  BY <1>2, <1>3, <1>4

LEMMA WantedStaged ==
  ASSUME GInv, Known, src # "none"
  PROVE  length \in 0 .. Word - 4096 /\ length \in Nat /\ length # Erased
         /\ Wanted \in Nat /\ Wanted <= length /\ Wanted <= staged
<1>1. length \in 0 .. Word - 4096 /\ length \in Nat
      /\ (src = "uart" => staged = UartBytes(length)) /\ (src = "sd" => staged = SdBytes(length))
      /\ src \in {"uart", "sd"}
  BY DEF GInv, Upright, Known
<1>2. length # Erased
  BY <1>1 DEF Erased
<1>3. Wanted \in Nat /\ Wanted <= length
  BY <1>1 DEF Wanted
<1>4. Wanted <= staged
  BY <1>1, Transported DEF Wanted
<1>5. QED
  BY <1>1, <1>2, <1>3, <1>4

LEMMA LoadIspStep == ASSUME GInv, LoadIsp PROVE GInv'
<1>1. gpc = "isp" /\ gpc' = "load" /\ Known /\ Known' /\ pgcnt = 0
      /\ UNCHANGED <<src, length, staged, loaded, marked>>
      /\ moved' = 0 /\ pgcnt' = PageCount(length)
      /\ stored' = Least(staged, moved * pgsize)
  BY DEF LoadIsp, Read, Goto, Known, blankVars
<1>2. (StrapOK /\ Chip /\ Shifts)' /\ PageCount(length)' = PageCount(length)
  BY <1>1, ReadKeepsChip DEF LoadIsp
<1>3. PageCount(length) \in Nat
  BY <1>1, PageCountIsNat
<1>4. src # "none" /\ staged \in Nat
  BY <1>1 DEF GInv, Upright, Writing
<1>5. stored' \in Nat /\ stored' >= Wanted
  BY <1>1, <1>4, AllMoved, WantedStaged DEF Least
<1>6. Upright'
  <2>1. Wanted' = Wanted
    BY <1>1 DEF Wanted
  <2>2. QED
    BY <1>1, <1>3, <1>4, <1>5, <2>1 DEF GInv, Upright, Writing
<1>7. Transfer'
  BY <1>1, <1>2, <1>3 DEF Transfer
<1>8. QED
  BY <1>1, <1>2, <1>6, <1>7 DEF GInv, Scanned, WholeIsp

LEMMA GoNandStep == ASSUME GInv, GoNand PROVE GInv'
<1>1. gpc = "main" /\ gpc' = "load" /\ Known /\ Known' /\ src = "none"
      /\ UNCHANGED <<src, length, staged, stored, loaded, marked>>
      /\ moved' = 0 /\ pgcnt' = PageCount(length)
  BY DEF GoNand, Read, Goto, Known, blankVars
<1>2. (StrapOK /\ Chip /\ Shifts)' /\ PageCount(length)' = PageCount(length)
  BY <1>1, ReadKeepsChip DEF GoNand
<1>3. PageCount(length) \in Nat
  BY <1>1, PageCountIsNat
<1>4. Upright'
  <2>1. length # Erased => stored = length /\ Wanted = length /\ length \in Nat
    BY <1>1 DEF GInv, Upright, Wanted
  <2>2. Wanted' = Wanted
    BY <1>1 DEF Wanted
  <2>3. QED
    BY <1>1, <1>3, <2>1, <2>2 DEF GInv, Upright, Writing
<1>5. Transfer'
  BY <1>1, <1>2, <1>3 DEF Transfer
<1>6. QED
  BY <1>1, <1>2, <1>4, <1>5 DEF GInv, Scanned, WholeIsp

LEMMA InReadStep == ASSUME GInv, SkipBlock \/ MovePage PROVE GInv'
<1>1. gpc \in {"header", "isp", "load"} /\ gpc' = gpc /\ Known /\ Known'
      /\ UNCHANGED <<strap, memc, blocks, bad, flashdev, src, length, staged, stored, loaded>>
      /\ UNCHANGED <<startPage, endPage, marked>>
  BY DEF SkipBlock, MovePage, InRead, ReadKeeps, Known, uploadVars, blankVars
<1>2. moved' + pgcnt' = moved + pgcnt /\ moved' \in Nat /\ pgcnt' \in Nat
  BY DEF GInv, Upright, SkipBlock, MovePage, InRead
<1>3. (StrapOK /\ Chip /\ Shifts)'
  BY <1>1, ChipKept DEF GInv, Chip
<1>4. Upright'
  <2>1. Wanted' = Wanted
    BY <1>1 DEF Wanted
  <2>2. QED
    BY <1>1, <1>2, <2>1 DEF GInv, Upright, Writing
<1>5. Transfer'
  BY <1>1, <1>2 DEF GInv, Transfer, PageCount, Shr, pgsize
<1>6. QED
  BY <1>1, <1>3, <1>4, <1>5 DEF GInv, Scanned, WholeIsp

-----------------------------------------------------------------------------
(* The jump.                                                               *)
LEMMA GoSdStep == ASSUME GInv, GoSd PROVE GInv'
<1>1. gpc = "main" /\ gpc' = "jump" /\ Known /\ Known' /\ src # "none"
      /\ UNCHANGED <<strap, memc, blocks, bad, flashdev, src, length, staged, stored>>
      /\ UNCHANGED <<moved, pgcnt, marked>> /\ loaded' = Least(staged, Copied(length))
  BY DEF GoSd, Goto, Known, readVars, blankVars
<1>2. (StrapOK /\ Chip /\ Shifts)'
  BY <1>1, ChipKept DEF GInv, Chip
<1>3. length # Erased /\ length \in Nat /\ Wanted \in Nat /\ Wanted <= length
      /\ Wanted <= staged /\ staged \in Nat
  BY <1>1, WantedStaged DEF GInv, Upright
<1>4. loaded' \in Nat /\ Wanted <= loaded'
  <2>1. Copied(length) \in Nat /\ length <= Copied(length)
    BY <1>3, Transported
  <2>2. loaded' = staged \/ loaded' = Copied(length)
    BY <1>1 DEF Least
  <2>3. QED
    BY <1>3, <2>1, <2>2
<1>5. WholeIsp'
  BY <1>1, <1>3, <1>4 DEF WholeIsp, Wanted, Erased
<1>6. Upright'
  BY <1>1, <1>4 DEF GInv, Upright, Writing
<1>7. QED
  BY <1>1, <1>2, <1>5, <1>6 DEF GInv, Scanned, Transfer

LEMMA JumpStep == ASSUME GInv, Jump PROVE GInv'
<1>1. gpc = "load" /\ gpc' = "jump" /\ Known /\ Known' /\ pgcnt = 0
      /\ UNCHANGED <<strap, memc, blocks, bad, flashdev, src, length, staged, stored>>
      /\ UNCHANGED <<moved, pgcnt, marked>> /\ loaded' = Least(stored, moved * pgsize)
  BY DEF Jump, Goto, Known, readVars, blankVars
<1>2. (StrapOK /\ Chip /\ Shifts)'
  BY <1>1, ChipKept DEF GInv, Chip
<1>3. loaded' \in Nat
  <2>1. moved \in Nat /\ stored \in Nat /\ pgsize \in {2048, 4096}
    BY <1>1, Fits DEF GInv, Upright
  <2>2. moved * pgsize \in Nat
    BY <2>1
  <2>3. QED
    BY <1>1, <2>1, <2>2 DEF Least
<1>4. WholeIsp'
  <2>1. CASE length = Erased
    <3>1. moved = 0
      <4>1. moved + pgcnt = PageCount(length) /\ moved \in Nat
        BY <1>1 DEF GInv, Transfer, Upright
      <4>2. QED
        BY <1>1, <2>1, <4>1, PagesOfLength
    <3>2. QED
      BY <1>1, <2>1, <3>1 DEF WholeIsp, Erased
  <2>2. CASE length # Erased
    <3>1. Wanted <= loaded'
      BY <1>1, <2>2, AllMoved DEF GInv, Upright, Least
    <3>2. loaded' >= Wanted
      <4>1. Wanted \in Int
        BY <1>1, <2>2 DEF GInv, Upright, Wanted
      <4>2. QED
        BY <1>3, <3>1, <4>1
    <3>3. QED
      BY <1>1, <2>2, <3>2 DEF WholeIsp, Wanted, Erased
  <2>3. QED
    BY <2>1, <2>2
<1>5. Upright'
  BY <1>1, <1>3 DEF GInv, Upright, Writing
<1>6. QED
  BY <1>1, <1>2, <1>4, <1>5 DEF GInv, Scanned, Transfer

LEMMA StutterStep == ASSUME GInv, UNCHANGED gvars PROVE GInv'
<1>1. UNCHANGED <<gpc, strap, memc, blocks, bad, flashdev, src, length, staged, stored, loaded>>
      /\ UNCHANGED <<addr, pgcnt, row, moved, startPage, endPage, marked>>
  BY DEF gvars, uploadVars, readVars, blankVars
<1>2. StrapOK' /\ Chip' /\ Shifts'
  BY <1>1 DEF GInv, StrapOK, Chip, Shifts, Known, ChipBlock, ChipPage
<1>3. Upright'
  BY <1>1 DEF GInv, Upright, Writing, Wanted
<1>4. Scanned' /\ Transfer' /\ WholeIsp'
  BY <1>1 DEF GInv, Scanned, Transfer, WholeIsp, BlkNum, PageCount, Shr, pgsize, bksize
<1>5. QED
  BY <1>2, <1>3, <1>4 DEF GInv

LEMMA GInvInit == GInit => GInv
BY DEF GInit, GInv, StrapOK, Chip, Shifts, Known, Upright, Writing, Scanned, Transfer, WholeIsp

LEMMA GInvStep == GInv /\ [GNext]_gvars => GInv'
BY SetMemcStep, UploadStep, NandInitStep, BlankingCheckStep, BlankFailedStep, BlankPassedStep,
   WriteIspStep, LoadIspStep, GoNandStep, InReadStep, GoSdStep, JumpStep, StutterStep
   DEF GNext, Stopped

LEMMA AlwaysGInv == GSpec => []GInv
BY GInvInit, GInvStep, PTL DEF GSpec

(* For every strap and every chip the driver's block is the chip's, and    *)
(* its pages make it up (nandc.c:104-117, board.c:66-80).                  *)
THEOREM AlwaysGeometryFits == GSpec => []GeometryFits
<1>1. GInv => GeometryFits
  BY Fits DEF GeometryFits, Known
<1>2. QED
  BY <1>1, AlwaysGInv, PTL

(* The blank check sees whole blocks, of which enough are left for the ISP *)
(* however many it marks (nandc.c:279-324).                                *)
THEOREM AlwaysRangeHoldsIsp == GSpec => []RangeHoldsIsp
<1>1. ASSUME GInv, gpc = "blank"
      PROVE  /\ startPage % flashdev.pgPerBk = 0 /\ endPage % flashdev.pgPerBk = 0
             /\ (endPage - marked * flashdev.pgPerBk) * pgsize >= length
  <2>1. Known /\ src # "none" /\ marked \in Nat
        /\ startPage % flashdev.pgPerBk = 0
        /\ endPage = (BlkNum(length) + marked) * flashdev.pgPerBk
    BY <1>1 DEF GInv, Known, Scanned, Upright, Writing
  <2>2. length \in Nat
    BY <1>1, <2>1, WantedStaged
  <2> DEFINE q == BlkNum(length)
             n == flashdev.pgPerBk
  <2>3. q \in Nat /\ length <= q * bksize
    BY <1>1, <2>1, <2>2, BlocksOfLength
  <2>4. n \in {4, 8, 16, 32, 64, 128} /\ bksize = n * pgsize /\ pgsize \in {2048, 4096}
    BY <1>1, <2>1, BlockShift, Fits
  <2> HIDE DEF q, n
  <2>5. endPage % n = 0
    BY <2>1, <2>3, <2>4, WholeBlock DEF q, n
  <2>6. endPage - marked * n = q * n
    <3>1. endPage = (q + marked) * n
      BY <2>1 DEF q, n
    <3>2. QED
      BY <2>1, <2>3, <2>4, <3>1
  <2>7. (q * n) * pgsize = q * bksize
    BY <2>3, <2>4
  <2>8. (endPage - marked * n) * pgsize >= length
    BY <2>2, <2>3, <2>4, <2>6, <2>7
  <2>9. QED
    BY <2>1, <2>5, <2>8 DEF n
<1>2. GInv => RangeHoldsIsp
  BY <1>1 DEF RangeHoldsIsp
<1>3. QED
  BY <1>2, AlwaysGInv, PTL

(* For every strap the header, of 1024 bytes, is one page: all of the      *)
(* table, and nothing of the ISP (board.c:212).                            *)
THEOREM AlwaysHeaderIsOnePage == GSpec => []HeaderIsOnePage
<1>1. GInv => HeaderIsOnePage
  <2> SUFFICES ASSUME GInv, gpc = "header"
               PROVE  moved + pgcnt = 1 /\ 4 * 256 <= pgsize /\ pgsize <= IspOffset
    BY DEF HeaderIsOnePage
  <2>1. Known /\ moved + pgcnt = PageCount(1024)
    BY DEF GInv, Known, Transfer
  <2>2. QED
    BY <2>1, PagesOfLength, Fits DEF IspOffset
<1>2. QED
  BY <1>1, AlwaysGInv, PTL

(* Whatever the length is to sectors, pages and blocks, all of the ISP     *)
(* that the sender sent is at ISP_BASE when the program jumps there, along *)
(* every way from the upload (board.c:352-466, main.c, nandc.c:203-250).   *)
THEOREM AlwaysWholeIsp == GSpec => []WholeIsp
BY AlwaysGInv, PTL DEF GInv

-----------------------------------------------------------------------------
(* Addresses. A byte address is that of a page, and the chip divides what  *)
(* can be addressed: past the last byte is the first page of its first     *)
(* block.                                                                  *)
PgPerBlock == {4, 8, 16, 32, 64, 128}

LEMMA PageSucc ==
  ASSUME NEW n \in PgPerBlock, NEW p \in Nat
  PROVE  /\ (p % n) + 1 < n => (p + 1) \div n = p \div n /\ (p + 1) % n = (p % n) + 1
         /\ ~ ((p % n) + 1 < n) => (p + 1) \div n = p \div n + 1 /\ (p + 1) % n = 0
<1>1. CASE n = 4
  BY <1>1
<1>2. CASE n = 8
  BY <1>2
<1>3. CASE n = 16
  BY <1>3
<1>4. CASE n = 32
  BY <1>4
<1>5. CASE n = 64
  BY <1>5
<1>6. CASE n = 128
  BY <1>6
<1>7. QED
  BY <1>1, <1>2, <1>3, <1>4, <1>5, <1>6 DEF PgPerBlock

LEMMA BlockTimes ==
  ASSUME NEW n \in PgPerBlock, NEW b \in Nat
  PROVE  (b * n) \div n = b /\ (b * n) % n = 0
<1>1. CASE n = 4
  BY <1>1
<1>2. CASE n = 8
  BY <1>2
<1>3. CASE n = 16
  BY <1>3
<1>4. CASE n = 32
  BY <1>4
<1>5. CASE n = 64
  BY <1>5
<1>6. CASE n = 128
  BY <1>6
<1>7. QED
  BY <1>1, <1>2, <1>3, <1>4, <1>5, <1>6 DEF PgPerBlock

(* The page after that at a, of m pages.                                   *)
LEMMA AddrSucc ==
  ASSUME NEW g \in {2048, 4096}, NEW m \in Nat, NEW a \in Nat, a % g = 0, a < g * m
  PROVE  /\ a + g <= g * m /\ (a + g) \div g = a \div g + 1 /\ (a + g) % g = 0
         /\ a + g = g * m => a \div g + 1 = m
<1>1. CASE g = 2048
  BY <1>1
<1>2. CASE g = 4096
  BY <1>2
<1>3. QED
  BY <1>1, <1>2

(* The block after that of a, of m blocks.                                 *)
LEMMA BlockSucc ==
  ASSUME NEW d \in BlockBytes, NEW m \in Nat, NEW a \in Nat, a < d * m
  PROVE  /\ (a \div d + 1) * d <= d * m
         /\ (a \div d + 1) * d = d * m => a \div d + 1 = m
<1>1. CASE d = 8192
  BY <1>1
<1>2. CASE d = 16384
  BY <1>2
<1>3. CASE d = 32768
  BY <1>3
<1>4. CASE d = 65536
  BY <1>4
<1>5. CASE d = 131072
  BY <1>5
<1>6. CASE d = 262144
  BY <1>6
<1>7. CASE d = 524288
  BY <1>7
<1>8. QED
  BY <1>1, <1>2, <1>3, <1>4, <1>5, <1>6, <1>7 DEF BlockBytes

LEMMA Multiple == ASSUME NEW w \in Nat \ {0}, NEW k \in Nat PROVE (w * k) % w = 0
<1>1. w * k \in Nat /\ (w * k + 0) = w * k /\ (w * k + 0) % w = 0
  BY ShiftMod
<1>2. QED
  BY <1>1

LEMMA ModSucc ==
  ASSUME NEW w \in Nat \ {0}, NEW x \in Nat
  PROVE  ((x % w) + 1) % w = (x + 1) % w
<1> DEFINE q == x \div w
           r == x % w
<1>1. q \in Nat /\ r \in 0 .. w - 1 /\ x = w * q + r
  OBVIOUS
<1> HIDE DEF q, r
<1>2. CASE r + 1 < w
  <2>1. (r + 1) % w = r + 1
    BY <1>1, <1>2, SmallMod
  <2>2. (w * q + (r + 1)) % w = r + 1
    BY <1>1, <1>2, ShiftMod
  <2>3. QED
    BY <1>1, <2>1, <2>2 DEF r
<1>3. CASE r + 1 = w
  <2>1. w % w = 0
    <3>1. w * 1 = w
      OBVIOUS
    <3>2. QED
      BY <3>1, Multiple
  <2>2. x + 1 = w * (q + 1)
    BY <1>1, <1>3
  <2>3. (x + 1) % w = 0
    BY <1>1, <2>2, Multiple
  <2>4. QED
    BY <1>3, <2>1, <2>3 DEF r
<1>4. QED
  BY <1>1, <1>2, <1>3

Addresses ==
  IF Known THEN addr \in 0 .. Word - 1 /\ addr % pgsize = 0 ELSE addr = 0

(* Block and page of an address: the block is that of the byte. *)
LEMMA TwoShifts ==
  ASSUME GInv, Known, NEW a \in Nat
  PROVE  (a \div pgsize) \div flashdev.pgPerBk = a \div bksize
<1>1. CASE Row(11, 13, 4)
  BY <1>1 DEF Row
<1>2. CASE Row(11, 14, 8)
  BY <1>2 DEF Row
<1>3. CASE Row(11, 15, 16)
  BY <1>3 DEF Row
<1>4. CASE Row(11, 16, 32)
  BY <1>4 DEF Row
<1>5. CASE Row(11, 17, 64)
  BY <1>5 DEF Row
<1>6. CASE Row(11, 18, 128)
  BY <1>6 DEF Row
<1>7. CASE Row(12, 16, 16)
  BY <1>7 DEF Row
<1>8. CASE Row(12, 17, 32)
  BY <1>8 DEF Row
<1>9. CASE Row(12, 18, 64)
  BY <1>9 DEF Row
<1>10. CASE Row(12, 19, 128)
  BY <1>10 DEF Row
<1>11. QED
  BY <1>1, <1>2, <1>3, <1>4, <1>5, <1>6, <1>7, <1>8, <1>9, <1>10, Geometries

LEMMA Layout ==
  ASSUME GInv, Known
  PROVE  /\ Pages = flashdev.pgPerBk /\ flashdev.pgPerBk \in PgPerBlock
         /\ pgsize \in {2048, 4096} /\ bksize \in BlockBytes /\ bksize < Word
         /\ bksize = pgsize * flashdev.pgPerBk /\ bksize % pgsize = 0
         /\ blocks \in Nat \ {0} /\ \E k \in Nat : Word = bksize * (blocks * k)
<1>1. flashdev.pgPerBk \in PgPerBlock /\ bksize \in BlockBytes /\ pgsize \in {2048, 4096}
      /\ bksize = ChipBlock /\ bksize = pgsize * flashdev.pgPerBk
  <2>1. bksize \in BlockBytes
    BY Geometries DEF Row, BlockBytes
  <2>2. QED
    BY <2>1, BlockShift, Fits DEF PgPerBlock
<1>2. Pages = flashdev.pgPerBk /\ bksize % pgsize = 0
  <2>1. CASE pgsize = 2048
    BY <1>1, <2>1 DEF Pages, PgPerBlock
  <2>2. CASE pgsize = 4096
    BY <1>1, <2>2 DEF Pages, PgPerBlock
  <2>3. QED
    BY <1>1, <2>1, <2>2
<1>3. blocks \in Sizes /\ blocks \in Nat \ {0} /\ blocks * bksize <= Word
  <2>1. blocks \in Sizes /\ blocks * ChipBlock <= Word
    BY DEF GInv, Chip, Known
  <2>2. QED
    BY <1>1, <2>1
<1>4. bksize < Word /\ Word % (blocks * bksize) = 0
  <2>1. bksize \in BlockSizes
    BY <1>1 DEF BlockBytes, BlockSizes
  <2>2. QED
    BY <1>3, <2>1, SizesAssumption
<1>5. \E k \in Nat : Word = bksize * (blocks * k)
  <2> DEFINE w == blocks * bksize
             k == Word \div w
  <2>1. w \in Nat \ {0} /\ bksize \in Nat
    BY <1>1, <1>3 DEF BlockBytes
  <2>2. k \in Nat /\ Word = w * k
    <3> HIDE DEF w
    <3>1. Word % w = 0
      BY <1>4 DEF w
    <3>2. QED
      BY <2>1, <3>1
  <2>3. w * k = bksize * (blocks * k)
    <3> HIDE DEF k
    <3>1. QED
      BY <1>3, <2>1, <2>2
  <2>4. QED
    BY <2>2, <2>3
<1>6. /\ Pages = flashdev.pgPerBk /\ flashdev.pgPerBk \in PgPerBlock
      /\ pgsize \in {2048, 4096} /\ bksize \in BlockBytes /\ bksize < Word
  BY <1>1, <1>2, <1>4
<1>7. blocks \in Nat \ {0} /\ \E k \in Nat : Word = bksize * (blocks * k)
  BY <1>3, <1>5
<1>8. /\ bksize = pgsize * flashdev.pgPerBk /\ bksize % pgsize = 0
      /\ blocks \in Nat \ {0} /\ \E k \in Nat : Word = bksize * (blocks * k)
  BY <1>1, <1>2, <1>7
<1>9. QED
  BY <1>6, <1>8

(* What NextBlock gives: the first page of the next block, or address 0.   *)
LEMMA NextBlockIs ==
  ASSUME GInv, Known, Addresses
  PROVE  LET b == addr \div bksize IN
         /\ NextBlock(addr) \in 0 .. Word - 1 /\ NextBlock(addr) % pgsize = 0
         /\ \/ NextBlock(addr) = (b + 1) * bksize
            \/ /\ NextBlock(addr) = 0
               /\ \E k \in Nat : b + 1 = blocks * k
<1> DEFINE b == addr \div bksize
           x == (b + 1) * bksize
<1>1. addr \in Nat /\ addr < Word
  BY DEF Addresses
<1>2. PICK k \in Nat : Word = bksize * (blocks * k)
  BY Layout
<1>3. bksize \in BlockBytes /\ blocks \in Nat /\ bksize \in Nat /\ b \in Nat
  BY <1>1, Layout DEF BlockBytes
<1>4. blocks * k \in Nat
  BY <1>3
<1>5. x <= Word /\ (x = Word => b + 1 = blocks * k) /\ x \in Nat
  <2> DEFINE m == blocks * k
             d == bksize
  <2>1. m \in Nat /\ d \in BlockBytes /\ addr < d * m /\ Word = d * m
    BY <1>1, <1>2, <1>3, <1>4
  <2> HIDE DEF m, d
  <2>2. (addr \div d + 1) * d <= d * m /\ ((addr \div d + 1) * d = d * m => addr \div d + 1 = m)
    BY <1>1, <2>1, BlockSucc
  <2>3. x <= Word /\ (x = Word => b + 1 = blocks * k)
    BY <2>1, <2>2 DEF m, d
  <2>4. QED
    BY <1>3, <2>3
<1>6. NextBlock(addr) = x % Word
  BY DEF NextBlock, Shl, Shr, bksize
<1>7. x % pgsize = 0
  <2>1. pgsize \in Nat \ {0} /\ flashdev.pgPerBk \in Nat /\ bksize = pgsize * flashdev.pgPerBk
    BY Layout DEF PgPerBlock
  <2>2. x = pgsize * (flashdev.pgPerBk * (b + 1)) /\ flashdev.pgPerBk * (b + 1) \in Nat
    <3> HIDE DEF b
    <3>1. QED
      BY <1>3, <2>1
  <2>3. QED
    BY <2>1, <2>2, Multiple
<1>8. CASE x < Word
  <2>1. x % Word = x
    BY <1>5, <1>8, SmallMod
  <2>2. QED
    BY <1>5, <1>6, <1>7, <1>8, <2>1
<1>9. CASE x = Word
  <2>1. Word * 1 = Word /\ (Word * 1) % Word = 0
    BY Multiple
  <2>2. NextBlock(addr) = 0
    BY <1>6, <1>9, <2>1
  <2>3. 0 % pgsize = 0
    BY Layout
  <2>4. QED
    BY <1>2, <1>5, <1>9, <2>2, <2>3
<1>10. QED
  BY <1>5, <1>8, <1>9

(* Where MovePage leaves the address: at the next page, or at 0 after the  *)
(* last.                                                                   *)
LEMMA NextPageIs ==
  ASSUME GInv, Known, Addresses
  PROVE  LET x == (addr + pgsize) % Word IN
         /\ x \in 0 .. Word - 1 /\ x % pgsize = 0
         /\ \/ x \div pgsize = addr \div pgsize + 1
            \/ /\ x = 0
               /\ \E k \in Nat : addr \div pgsize + 1 = flashdev.pgPerBk * (blocks * k)
<1> DEFINE g == pgsize
           n == flashdev.pgPerBk
           x == (addr + g) % Word
<1>1. addr \in Nat /\ addr < Word /\ addr % g = 0
  BY DEF Addresses
<1>2. PICK k \in Nat : Word = bksize * (blocks * k)
  BY Layout
<1>3. g \in {2048, 4096} /\ n \in Nat /\ bksize = g * n /\ blocks \in Nat
  BY Layout DEF PgPerBlock
<1> DEFINE m == n * (blocks * k)
<1>4. m \in Nat /\ Word = g * m
  <2> HIDE DEF g, n
  <2>1. blocks * k \in Nat
    BY <1>3
  <2>2. m \in Nat
    BY <1>3, <2>1
  <2>3. (g * n) * (blocks * k) = g * m
    BY <1>3, <2>1
  <2>4. QED
    BY <1>2, <1>3, <2>2, <2>3
<1> HIDE DEF m, n, g
<1>5. /\ addr + g <= Word /\ (addr + g) \div g = addr \div g + 1 /\ (addr + g) % g = 0
      /\ addr + g = Word => addr \div g + 1 = m
  BY <1>1, <1>3, <1>4, AddrSucc
<1>6. CASE addr + g < Word
  <2>1. x = addr + g
    BY <1>1, <1>3, <1>6, SmallMod
  <2>2. QED
    BY <1>1, <1>3, <1>5, <1>6, <2>1 DEF g
<1>7. CASE addr + g = Word
  <2>1. Word * 1 = Word /\ (Word * 1) % Word = 0
    BY Multiple
  <2>2. x = 0 /\ addr \div g + 1 = m
    BY <1>5, <1>7, <2>1
  <2>3. 0 % g = 0 /\ 0 \in 0 .. Word - 1
    BY <1>3
  <2>4. QED
    BY <2>2, <2>3 DEF g, m, n
<1>8. QED
  BY <1>1, <1>3, <1>5, <1>6, <1>7

LEMMA AddressesInit == GInit => Addresses
BY DEF GInit, Addresses, Known

LEMMA AddressesStep == GInv /\ Addresses /\ [GNext]_gvars => Addresses'
<1> SUFFICES ASSUME GInv, Addresses, [GNext]_gvars PROVE Addresses'
  OBVIOUS
<1>1. ASSUME Known, Known', UNCHANGED <<addr, flashdev>> PROVE Addresses'
  BY <1>1 DEF Addresses, pgsize
<1>2. ASSUME ~ Known, ~ Known', UNCHANGED addr PROVE Addresses'
  BY <1>2 DEF Addresses
<1>3. CASE SetMemc
  BY <1>2, <1>3 DEF SetMemc, Goto, Known, readVars
<1>4. CASE Upload
  BY <1>2, <1>4 DEF Upload, Goto, Known, readVars
<1>5. CASE NandInit
  <2>1. addr' = 0 /\ Known'
    BY <1>5 DEF NandInit, Goto, Known, readVars, Addresses
  <2>2. flashdev'.pgshift \in {11, 12}
    BY <1>5 DEF NandInit, PgShift
  <2>3. pgsize' = 2 ^ (flashdev'.pgshift)
    BY DEF pgsize
  <2>4. 0 % pgsize' = 0
    <3>1. 2 ^ 11 = 2048 /\ 2 ^ 12 = 4096 /\ 0 % 2048 = 0 /\ 0 % 4096 = 0
      OBVIOUS
    <3>2. CASE flashdev'.pgshift = 11
      BY <2>3, <3>1, <3>2
    <3>3. CASE flashdev'.pgshift = 12
      BY <2>3, <3>1, <3>3
    <3>4. QED
      BY <2>2, <3>2, <3>3
  <2>5. QED
    BY <2>1, <2>4 DEF Addresses
<1>6. CASE BlankingCheck \/ BlankFailed \/ GoSd \/ Jump
  BY <1>1, <1>6 DEF BlankingCheck, BlankFailed, GoSd, Jump, Goto, Known, readVars
<1>7. CASE BlankPassed \/ WriteIsp \/ LoadIsp \/ GoNand
  <2>1. Known /\ Known' /\ flashdev' = flashdev /\ addr' \in {0, bksize}
    BY <1>7 DEF BlankPassed, WriteIsp, LoadIsp, GoNand, Read, Goto, Known
  <2>2. bksize \in 0 .. Word - 1 /\ bksize % pgsize = 0 /\ 0 % pgsize = 0
    BY <2>1, Layout DEF BlockBytes
  <2>3. QED
    BY <2>1, <2>2 DEF Addresses, pgsize
<1>8. CASE SkipBlock
  <2>1. Known /\ Known' /\ flashdev' = flashdev /\ addr' = NextBlock(addr)
    BY <1>8 DEF SkipBlock, InRead, ReadKeeps, Known
  <2>2. QED
    BY <2>1, NextBlockIs DEF Addresses, pgsize
<1>9. CASE MovePage
  <2>1. Known /\ Known' /\ flashdev' = flashdev /\ addr' = (addr + pgsize) % Word
    BY <1>9 DEF MovePage, InRead, ReadKeeps, Known
  <2>2. QED
    BY <2>1, NextPageIs DEF Addresses, pgsize
<1>10. CASE UNCHANGED gvars
  BY <1>10 DEF gvars, readVars, Addresses, Known, pgsize
<1>11. QED
  BY <1>3, <1>4, <1>5, <1>6, <1>7, <1>8, <1>9, <1>10 DEF GNext, Stopped

-----------------------------------------------------------------------------
LEMMA AtIs ==
  ASSUME GInv, Known, Addresses
  PROVE  /\ addr \div pgsize \in Nat
         /\ AtAddr = <<(addr \div bksize) % blocks, (addr \div pgsize) % flashdev.pgPerBk>>
<1>1. addr \in Nat /\ pgsize \in {2048, 4096} /\ Pages = flashdev.pgPerBk
  BY Layout DEF Addresses
<1>2. addr \div pgsize \in Nat
  BY <1>1
<1>3. AtAddr = <<((addr \div pgsize) \div Pages) % blocks, (addr \div pgsize) % Pages>>
  BY DEF AtAddr, At, Pages
<1>4. QED
  BY <1>1, <1>2, <1>3, TwoShifts

(* nand_isbb looks at the block of the address, at its first page.         *)
LEMMA FirstPageIs ==
  ASSUME GInv, Known, Addresses
  PROVE  At(FirstPage(addr)) = <<AtAddr[1], 0>>
<1> DEFINE b == addr \div bksize
           n == flashdev.pgPerBk
<1>1. addr \in Nat /\ addr < Word /\ bksize \in BlockBytes /\ n \in PgPerBlock
      /\ pgsize \in {2048, 4096} /\ bksize = pgsize * n /\ Pages = n
  BY Layout DEF Addresses
<1>2. b \in Nat /\ b * bksize <= addr
  <2> DEFINE d == bksize
  <2> HIDE DEF d
  <2>1. d \in Nat \ {0}
    BY <1>1 DEF d, BlockBytes
  <2>2. addr \div d \in Nat /\ (addr \div d) * d <= addr
    BY <1>1, <2>1
  <2>3. QED
    BY <2>2 DEF d
<1>3. b * n \in Nat /\ b * n < Word
  <2> HIDE DEF b, n
  <2>1. b * n \in Nat /\ b * bksize = (b * n) * pgsize
    BY <1>1, <1>2 DEF PgPerBlock
  <2>2. QED
    BY <1>1, <1>2, <2>1
<1>4. FirstPage(addr) = b * n
  <2>1. 2 ^ (flashdev.bkshift - flashdev.pgshift) = n
    BY BlockShift
  <2>2. FirstPage(addr) = (b * n) % Word
    BY <2>1 DEF FirstPage, Shl, Shr, bksize
  <2>3. QED
    BY <1>3, <2>2, SmallMod
<1>5. (b * n) \div n = b /\ (b * n) % n = 0
  BY <1>1, <1>2, BlockTimes
<1>6. At(b * n) = <<((b * n) \div n) % blocks, (b * n) % n>>
  BY <1>1 DEF At, Pages
<1>7. QED
  BY <1>4, <1>5, <1>6, AtIs

(* Both steps of nand_read, a page and a block, in blocks and pages.       *)
LEMMA PageStep ==
  ASSUME GInv, Addresses, MovePage
  PROVE  AtAddr' = PageAfter(AtAddr) /\ At(row') = AtAddr /\ AtAddr[1] \notin bad
<1> DEFINE n == flashdev.pgPerBk
           p == addr \div pgsize
           x == (addr + pgsize) % Word
<1>1. Known /\ UNCHANGED <<memc, blocks, flashdev>> /\ addr' = x /\ row' = p
      /\ At(FirstPage(addr))[1] \notin bad
  BY DEF MovePage, InRead, ReadKeeps, Known, Shr, pgsize
<1>2. /\ n \in PgPerBlock /\ Pages = n /\ blocks \in Nat \ {0} /\ p \in Nat
      /\ AtAddr = <<(p \div n) % blocks, p % n>>
  BY <1>1, Layout, AtIs, TwoShifts DEF At, AtAddr, Pages
<1>3. At(row') = AtAddr
  BY <1>1 DEF AtAddr
<1>4. AtAddr[1] \notin bad
  BY <1>1, FirstPageIs
<1>5. AtAddr' = <<((x \div pgsize) \div n) % blocks, (x \div pgsize) % n>>
  BY <1>1, <1>2 DEF AtAddr, At, Pages, ChipBlock, ChipPage, pgsize
<1>6. \/ x \div pgsize = p + 1
      \/ x \div pgsize = 0 /\ \E k \in Nat : p + 1 = n * (blocks * k)
  <2>1. pgsize \in {2048, 4096}
    BY <1>1, Layout
  <2>2. 0 \div pgsize = 0
    BY <2>1
  <2>3. QED
    BY <1>1, <2>2, NextPageIs
<1> HIDE DEF n, p, x
<1>7. AtAddr' = PageAfter(AtAddr)
  <2>1. /\ (p % n) + 1 < n => (p + 1) \div n = p \div n /\ (p + 1) % n = (p % n) + 1
        /\ ~ ((p % n) + 1 < n) => (p + 1) \div n = p \div n + 1 /\ (p + 1) % n = 0
    BY <1>2, PageSucc
  <2>2. p \div n \in Nat
    BY <1>2 DEF PgPerBlock
  <2>3. (((p \div n) % blocks) + 1) % blocks = (p \div n + 1) % blocks
    BY <1>2, <2>2, ModSucc
  <2>4. PageAfter(AtAddr) = IF (p % n) + 1 < n THEN <<(p \div n) % blocks, (p % n) + 1>>
                            ELSE <<(p \div n + 1) % blocks, 0>>
    BY <1>2, <2>3 DEF PageAfter
  <2>5. CASE x \div pgsize = p + 1
    BY <1>5, <2>1, <2>4, <2>5
  <2>6. CASE x \div pgsize = 0 /\ \E k \in Nat : p + 1 = n * (blocks * k)
    <3>1. PICK k \in Nat : p + 1 = n * (blocks * k)
      BY <2>6
    <3>2. blocks * k \in Nat
      BY <1>2
    <3>3. (p + 1) % n = 0 /\ (p + 1) \div n = blocks * k
      <4> DEFINE m == blocks * k
      <4> HIDE DEF m
      <4>1. n * m = m * n
        BY <1>2, <3>2 DEF m, PgPerBlock
      <4>2. (m * n) \div n = m /\ (m * n) % n = 0
        BY <1>2, <3>2, BlockTimes DEF m
      <4>3. QED
        BY <3>1, <4>1, <4>2 DEF m
    <3>4. ~ ((p % n) + 1 < n)
      <4>1. p % n \in Nat
        BY <1>2 DEF PgPerBlock
      <4>2. QED
        BY <2>1, <3>3, <4>1
    <3>5. (p \div n + 1) % blocks = 0
      BY <1>2, <2>1, <3>3, <3>4, Multiple
    <3>6. 0 \div n = 0 /\ 0 % n = 0 /\ 0 % blocks = 0
      BY <1>2 DEF PgPerBlock
    <3>7. QED
      BY <1>5, <2>4, <2>6, <3>4, <3>5, <3>6
  <2>7. QED
    BY <1>6, <2>5, <2>6
<1>8. QED
  BY <1>3, <1>4, <1>7

LEMMA BlockStep ==
  ASSUME GInv, Addresses, SkipBlock
  PROVE  AtAddr' = BlockAfter(AtAddr) /\ At(row') = <<AtAddr[1], 0>>
<1> DEFINE b == addr \div bksize
           n == flashdev.pgPerBk
           x == NextBlock(addr)
<1>1. Known /\ UNCHANGED <<memc, blocks, flashdev>> /\ addr' = x /\ row' = FirstPage(addr)
  BY DEF SkipBlock, InRead, ReadKeeps, Known
<1>2. At(row') = <<AtAddr[1], 0>>
  BY <1>1, FirstPageIs
<1>3. n \in PgPerBlock /\ Pages = n /\ blocks \in Nat \ {0} /\ pgsize \in {2048, 4096}
      /\ bksize = pgsize * n /\ bksize \in BlockBytes /\ addr \in Nat /\ x \in Nat
  BY <1>1, Layout, NextBlockIs DEF Addresses
<1>4. b \in Nat /\ AtAddr[1] = b % blocks
  <2>1. AtAddr[1] = b % blocks
    BY <1>1, AtIs
  <2>2. b \in Nat
    BY <1>3 DEF BlockBytes
  <2>3. QED
    BY <2>1, <2>2
<1>5. AtAddr' = <<((x \div pgsize) \div n) % blocks, (x \div pgsize) % n>>
  <2>1. Pages = n
    BY <1>3
  <2> HIDE DEF x
  <2>2. QED
    BY <1>1, <2>1 DEF AtAddr, At, Pages, ChipBlock, ChipPage, pgsize
<1>6. BlockAfter(AtAddr) = <<(b + 1) % blocks, 0>>
  BY <1>3, <1>4, ModSucc DEF BlockAfter
<1>7. CASE x = (b + 1) * bksize
  <2>1. x \div pgsize = (b + 1) * n
    <3> DEFINE m == (b + 1) * n
    <3>1. m \in Nat
      BY <1>3, <1>4 DEF PgPerBlock
    <3>2. x = m * pgsize
      <4> HIDE DEF b, n
      <4>1. (b + 1) * (pgsize * n) = m * pgsize
        BY <1>3, <1>4 DEF PgPerBlock
      <4>2. QED
        BY <1>3, <1>7, <4>1
    <3> HIDE DEF m, x
    <3>3. x \div pgsize = m
      <4>1. CASE pgsize = 2048
        BY <3>1, <3>2, <4>1
      <4>2. CASE pgsize = 4096
        BY <3>1, <3>2, <4>2
      <4>3. QED
        BY <1>3, <4>1, <4>2
    <3>4. QED
      BY <3>3 DEF m
  <2>2. ((b + 1) * n) \div n = b + 1 /\ ((b + 1) * n) % n = 0
    BY <1>3, <1>4, BlockTimes
  <2>3. QED
    BY <1>2, <1>5, <1>6, <2>1, <2>2
<1>8. CASE x = 0 /\ \E k \in Nat : b + 1 = blocks * k
  <2>1. (b + 1) % blocks = 0
    BY <1>3, <1>8, Multiple
  <2>2. 0 \div pgsize = 0 /\ 0 \div n = 0 /\ 0 % n = 0 /\ 0 % blocks = 0
    BY <1>3 DEF PgPerBlock
  <2>3. QED
    BY <1>2, <1>5, <1>6, <1>8, <2>1, <2>2
<1>9. QED
  BY <1>1, <1>7, <1>8, NextBlockIs

(* A page follows a page and a block a block, past the last byte of the    *)
(* address space too; and the block looked at is the block read or written *)
(* (nandc.c:203-204, 232-250).                                             *)
THEOREM AlwaysAddressesAgree == GSpec => AddressesAgree
<1> DEFINE Agree ==
      /\ moved' = moved + 1 => /\ AtAddr' = PageAfter(AtAddr) /\ At(row') = AtAddr
                               /\ AtAddr[1] \notin bad
      /\ InRead /\ pgcnt' = pgcnt => /\ AtAddr' = BlockAfter(AtAddr)
                                     /\ At(row') = <<AtAddr[1], 0>>
<1>1. ASSUME GInv, Addresses, GNext PROVE Agree \/ UNCHANGED gvars
  <2>1. moved \in Nat /\ pgcnt \in Nat
    BY <1>1 DEF GInv, Upright
  <2>2. ASSUME moved' # moved + 1, ~ (InRead /\ pgcnt' = pgcnt) PROVE Agree
    BY <2>2
  <2>3. CASE SetMemc \/ Upload \/ NandInit \/ BlankingCheck \/ BlankFailed \/ GoSd \/ Jump
    <3>1. moved' = moved
      BY <2>3 DEF SetMemc, Upload, NandInit, BlankingCheck, BlankFailed, GoSd, Jump, readVars
    <3>2. ~ InRead
      BY <2>3 DEF SetMemc, Upload, NandInit, BlankingCheck, BlankFailed, GoSd, Jump, Goto, InRead
    <3>3. QED
      BY <2>1, <2>2, <3>1, <3>2
  <2>4. CASE BlankPassed \/ WriteIsp \/ LoadIsp \/ GoNand
    <3>1. moved' = 0 /\ ~ InRead
      BY <2>4 DEF BlankPassed, WriteIsp, LoadIsp, GoNand, Read, Goto, InRead
    <3>2. QED
      BY <2>1, <2>2, <3>1
  <2>5. CASE SkipBlock
    <3>1. moved' # moved + 1
      BY <2>1, <2>5 DEF SkipBlock
    <3>2. QED
      BY <1>1, <2>5, <3>1, BlockStep
  <2>6. CASE MovePage
    <3>1. pgcnt' # pgcnt
      BY <2>1, <2>6 DEF MovePage
    <3>2. QED
      BY <1>1, <2>6, <3>1, PageStep
  <2>7. CASE Stopped
    BY <2>7 DEF Stopped
  <2>8. QED
    BY <1>1, <2>3, <2>4, <2>5, <2>6, <2>7 DEF GNext
<1>2. GInv /\ Addresses /\ [GNext]_gvars => [Agree]_gvars
  BY <1>1
<1>3. GSpec => []Addresses
  BY GInvInit, GInvStep, AddressesInit, AddressesStep, PTL DEF GSpec
<1>4. GSpec => [][Agree]_gvars
  <2> HIDE DEF Agree
  <2>1. QED
    BY <1>2, <1>3, AlwaysGInv, PTL DEF GSpec
<1>5. QED
  BY <1>4 DEF AddressesAgree
=============================================================================
