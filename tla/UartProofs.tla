------------------------------ MODULE UartProofs ------------------------------
(***************************************************************************)
(* An upload over the UART is whole or refused: the proof.                 *)
(*                                                                         *)
(* The bytes that were not lost are counted.  The place in the upload of   *)
(* a byte is its number, and more by what was lost before it: with nothing *)
(* lost the number is the place, and of a byte that comes as late as the   *)
(* lookup table everything that will be lost is before it (InFifo, InReg). *)
(* The number of the word that is read follows from the loop (Counted), up *)
(* to one word that the header may have eaten.  So the magic of the lookup *)
(* table, which is nowhere else behind the BSP, is found only if nothing   *)
(* was lost and nothing eaten.                                             *)
(***************************************************************************)
EXTENDS Uart, SequenceTheorems, TLAPS

(* The place in the upload of the first byte of word w. *)
Start(w) == Bytes * w

(* Bytes the ROM has taken from the FIFO, and words before the loop at pc, *)
(* with e words that the header has eaten.                                 *)
Taken == sent - lost - Len(fifo)
Earlier(e) ==
  CASE pc \in {"greet", "magic"} -> 0 [] pc = "skip" -> 1 [] pc \in {"parse", "value"} -> 1 + Skipped
    [] pc \in {"wait", "bsp"} -> HdrWords + e [] pc = "table" -> TableAt + e
    [] pc = "isp" -> TableAt + Table [] OTHER -> 0

(* The bytes whose place is known: what is lost is before all of them.     *)
Certain(i) == lost = 0 \/ i >= Start(TableAt)
Found      == pc \in {"isp", "done"} \/ (pc = "table" /\ n > 0)

Types ==
  /\ pc \in Polls \cup {"greet", "wait", "done", "dead"}
  /\ reg \in Seq(Nat) /\ Len(reg) <= Bytes
  /\ fifo \in Seq(Nat) /\ Len(fifo) <= Depth
  /\ n \in Nat
  /\ pc = "skip" => n < Skipped
  /\ pc = "parse" => n < Parsed
  /\ pc = "value" => n <= Parsed
  /\ pc = "bsp" => n < HdrWords
  /\ pc = "table" => n < Table
  /\ pc = "isp" => n < IspWords
  /\ pc \in {"greet", "magic", "wait", "done", "dead"} => n = 0
  /\ pc \notin Polls => reg = <<>>
  /\ staged \in [Places -> Seq(Seq(Nat))]
  /\ sent \in 0 .. TotalBytes /\ lost \in 0 .. MaxLost

Counted(e) ==
  /\ Taken \in Nat
  /\ pc \notin {"done", "dead"} => Taken = Start(Earlier(e) + n) + Len(reg)
InFifo ==
  \A k \in 1 .. Len(fifo) : Certain(Taken + k - 1) => fifo[k] = ByteAt(Taken + k - 1 + lost)
InReg ==
  \A k \in 1 .. Len(reg) :
    Certain(Taken - Len(reg) + k - 1) => reg[k] = ByteAt(Taken - Len(reg) + k - 1 + lost)

(* How far each part of the upload has come. *)
Lengths ==
  /\ pc \in {"greet", "magic", "skip", "parse", "value", "wait"} => Len(staged["bsp"]) = 0
  /\ pc = "bsp" => Len(staged["bsp"]) = n
  /\ pc \in {"table", "isp", "done"} => Len(staged["bsp"]) = HdrWords
  /\ pc \in {"greet", "magic", "skip", "parse", "value", "wait", "bsp"} => Len(staged["table"]) = 0
  /\ pc = "table" => Len(staged["table"]) = n
  /\ pc \in {"isp", "done"} => Len(staged["table"]) = Table
  /\ pc \notin {"isp", "done", "dead"} => Len(staged["isp"]) = 0
  /\ pc = "isp" => Len(staged["isp"]) = n
  /\ pc = "done" => Len(staged["isp"]) = IspWords

Copied(e) ==
  /\ lost = 0 => \A k \in 1 .. Len(staged["bsp"]) : staged["bsp"][k] = WordAt(HdrWords + e + k - 1)
  /\ Found => /\ lost = 0 /\ e = 0
              /\ \A k \in 1 .. Len(staged["table"]) : staged["table"][k] = WordAt(TableAt + k - 1)
              /\ \A k \in 1 .. Len(staged["isp"]) :
                   staged["isp"][k] = WordAt(TableAt + Table + k - 1)

Inv(e) == Types /\ Counted(e) /\ InFifo /\ InReg /\ Lengths /\ Copied(e) /\ RefusedForCause
IInv == \E e \in {0, 1} : Inv(e)

-----------------------------------------------------------------------------
(* Bytes and words. *)
LEMMA Sizes ==
  /\ Bytes \in Nat \ {0} /\ Skipped \in Nat \ {0} /\ Parsed \in Nat \ {0}
  /\ IspWords \in Nat \ {0} /\ Depth \in Nat \ {0} /\ Table \in Nat /\ Table > 3
  /\ HdrWords \in Nat /\ HdrWords = 1 + Skipped + Parsed /\ TableAt \in Nat
  /\ TableAt = HdrWords + HdrWords /\ MaxLost \in Nat
BY UartAssumption DEF HdrWords, TableAt

LEMMA StartNat == ASSUME NEW w \in Nat PROVE Start(w) \in Nat
BY Sizes DEF Start

LEMMA StartNext == ASSUME NEW w \in Nat PROVE Start(w + 1) = Start(w) + Bytes
BY Sizes DEF Start

LEMMA StartPlus == ASSUME NEW w \in Nat, NEW v \in Nat PROVE Start(w + v) = Start(w) + Start(v)
BY Sizes DEF Start

LEMMA StartLess == ASSUME NEW w \in Nat, NEW v \in Nat, w < v PROVE Start(w) + Bytes <= Start(v)
<1>1. v - w - 1 \in Nat /\ v = (w + 1) + (v - w - 1)
  OBVIOUS
<1>2. Start(v) = Start(w + 1) + Start(v - w - 1) /\ Start(v - w - 1) \in Nat
  <2>1. Start((w + 1) + (v - w - 1)) = Start(w + 1) + Start(v - w - 1)
    BY <1>1, StartPlus
  <2>2. Start(v - w - 1) \in Nat
    BY <1>1, StartNat
  <2>3. QED
    BY <1>1, <2>1, <2>2
<1>3. QED
  BY <1>2, StartNext, StartNat, Sizes

LEMMA WordOf ==
  ASSUME NEW w \in Nat, NEW j \in 0 .. Bytes - 1
  PROVE  (Start(w) + j) \div Bytes = w /\ (Start(w) + j) % Bytes = j
<1> DEFINE p == Start(w) + j
           q == p \div Bytes
           r == p % Bytes
<1>1. p \in Nat /\ q \in Nat /\ r \in 0 .. Bytes - 1 /\ p = Start(q) + r
  BY Sizes, StartNat DEF Start
<1>2. ~(q < w) /\ ~(w < q)
  BY <1>1, StartLess, StartNat, Sizes
<1>3. QED
  BY <1>1, <1>2, StartNat, Sizes

LEMMA PlaceOf ==
  ASSUME NEW p \in Nat
  PROVE  \E w \in Nat, j \in 0 .. Bytes - 1 : p = Start(w) + j
<1>1. p \div Bytes \in Nat /\ p % Bytes \in 0 .. Bytes - 1 /\ p = Start(p \div Bytes) + (p % Bytes)
  BY Sizes DEF Start
<1>2. QED
  BY <1>1

LEMMA ContentNat == ASSUME NEW w \in Nat PROVE Content(w) \in Nat
BY Sizes DEF Content

LEMMA ByteInWord ==
  ASSUME NEW w \in Nat, NEW j \in 0 .. Bytes - 1
  PROVE  ByteAt(Start(w) + j) = WordAt(w)[j + 1] /\ ByteAt(Start(w) + j) = Start(Content(w)) + j
<1>1. ByteAt(Start(w) + j) = Start(Content(w)) + j
  <2>1. ByteAt(Start(w) + j) = Content(w) * Bytes + j
    BY WordOf DEF ByteAt
  <2>2. QED
    BY <2>1, ContentNat, Sizes DEF Start
<1>2. WordAt(w)[j + 1] = Start(Content(w)) + j
  BY ContentNat, Sizes DEF WordAt, Start
<1>3. QED
  BY <1>1, <1>2

LEMMA ByteNat == ASSUME NEW p \in Nat PROVE ByteAt(p) \in Nat
<1>1. PICK w \in Nat, j \in 0 .. Bytes - 1 : p = Start(w) + j
  BY PlaceOf
<1>2. QED
  BY <1>1, ByteInWord, ContentNat, StartNat, Sizes

LEMMA WordSeq ==
  ASSUME NEW w \in Nat
  PROVE  WordAt(w) \in Seq(Nat) /\ Len(WordAt(w)) = Bytes
BY ContentNat, Sizes DEF WordAt

(* From the lookup table on only its magic begins like a magic. *)
LEMMA MagicByte ==
  ASSUME NEW p \in Nat, p >= Start(TableAt), ByteAt(p) = 0
  PROVE  p = Start(TableAt)
<1>1. PICK w \in Nat, j \in 0 .. Bytes - 1 : p = Start(w) + j
  BY PlaceOf
<1>2. ~(w < TableAt)
  BY <1>1, StartLess, StartNat, Sizes
<1>3. Start(Content(w)) + j = 0
  BY <1>1, ByteInWord
<1>4. j = 0 /\ Start(Content(w)) = 0
  BY <1>3, ContentNat, StartNat, Sizes
<1>5. Content(w) = 0
  BY <1>4, StartLess, StartNat, ContentNat, Sizes
<1>6. w = TableAt
  BY <1>2, <1>5, Sizes DEF Content
<1>7. QED
  BY <1>1, <1>4, <1>6, StartNat, Sizes

LEMMA SameWords == WordAt(TableAt) = Magic /\ WordAt(HdrWords + 1) = WordAt(1)
<1>1. Content(TableAt) = 0 /\ Content(0) = 0
  BY Sizes DEF Content
<1>2. Content(1) = 1
  BY Sizes DEF Content
<1>3. Content(HdrWords + 1) = 1
  BY Sizes DEF Content
<1>4. QED
  BY <1>1, <1>2, <1>3 DEF WordAt, Magic

LEMMA EarlierNat == ASSUME Types, NEW e \in {0, 1} PROVE Earlier(e) + n \in Nat
<1>1. Earlier(e) \in Nat
  BY Sizes DEF Earlier
<1>2. QED
  BY <1>1 DEF Types

-----------------------------------------------------------------------------
(* The sender's step. *)
LEMMA SendStep ==
  ASSUME NEW e \in {0, 1}, Inv(e), Send
  PROVE  Inv(e)'
<1>1. /\ UNCHANGED <<pc, reg, n, staged>> /\ sent' = sent + 1 /\ Taken \in Nat
      /\ fifo \in Seq(Nat) /\ reg \in Seq(Nat) /\ sent \in Nat /\ lost \in Nat /\ TotalBytes \in Nat
      /\ sent < TotalBytes
  BY Sizes DEF Send, Inv, Types, Counted, TotalBytes
<1>2. CASE Fits /\ fifo' = Append(fifo, ByteAt(sent)) /\ lost' = lost
  <2>1. ByteAt(sent) \in Nat
    BY <1>1, ByteNat
  <2>2. Len(fifo') = Len(fifo) + 1 /\ Taken' = Taken /\ fifo' \in Seq(Nat)
    BY <1>1, <1>2, <2>1 DEF Taken
  <2>3. Types'
    BY <1>1, <1>2, <2>1, <2>2, Sizes DEF Inv, Types, Fits
  <2>4. Counted(e)'
    BY <1>1, <2>2 DEF Inv, Counted, Earlier
  <2>5. InFifo'
    <3> SUFFICES ASSUME NEW k \in 1 .. Len(fifo'), Certain(Taken + k - 1)
                 PROVE  fifo'[k] = ByteAt(Taken + k - 1 + lost)
      BY <1>2, <2>2 DEF InFifo, Certain
    <3>1. CASE k \in 1 .. Len(fifo)
      <4>1. fifo[k] = ByteAt(Taken + k - 1 + lost)
        BY <3>1 DEF Inv, InFifo
      <4>2. fifo'[k] = fifo[k]
        BY <1>1, <1>2, <2>1, <3>1
      <4>3. QED
        BY <4>1, <4>2
    <3>2. CASE k = Len(fifo) + 1
      <4>1. Taken + k - 1 + lost = sent
        BY <1>1, <3>2 DEF Taken
      <4>2. fifo'[k] = ByteAt(sent)
        BY <1>1, <1>2, <2>1, <3>2
      <4>3. QED
        BY <4>1, <4>2
    <3>3. Len(fifo) \in Nat
      BY <1>1
    <3>4. QED
      BY <2>2, <3>1, <3>2, <3>3
  <2>6. InReg'
    BY <1>1, <1>2, <2>2 DEF Inv, InReg, Certain
  <2>7. Lengths' /\ Copied(e)' /\ RefusedForCause'
    BY <1>1, <1>2, Zenon DEF Inv, Lengths, Copied, Found, RefusedForCause
  <2>8. QED
    BY <2>3, <2>4, <2>5, <2>6, <2>7 DEF Inv
<1>3. CASE Overruns /\ fifo' = fifo /\ lost' = lost + 1
  <2>1. /\ pc \in {"greet", "wait"} /\ reg = <<>> /\ n = 0 /\ Len(fifo) = Depth
        /\ lost + 1 <= MaxLost
    <3>1. Len(fifo) \in Nat /\ Len(fifo) <= Depth
      BY <1>1 DEF Inv, Types
    <3>2. QED
      BY <1>1, <1>3, <3>1, Sizes DEF Overruns, Fits, Inv, Types, Polls
  <2>2. Taken' = Taken
    BY <1>1, <1>3 DEF Taken
  <2>3. Types'
    BY <1>1, <1>3, <2>1, Sizes DEF Inv, Types
  <2>4. Counted(e)'
    BY <1>1, <2>2 DEF Inv, Counted, Earlier
  <2>5. Taken + Depth <= Start(TableAt)
    <3>1. Taken = Start(IF pc = "greet" THEN 0 ELSE HdrWords + e)
      <4> DEFINE w == IF pc = "greet" THEN 0 ELSE HdrWords + e
      <4>1. Taken = Start(Earlier(e) + n) + Len(reg)
        BY <2>1 DEF Inv, Counted
      <4>2. Earlier(e) + n = w /\ Len(reg) = 0 /\ w \in Nat
        <5>1. w \in Nat
          BY Sizes
        <5>2. Earlier(e) = w
          BY <2>1 DEF Earlier
        <5>3. QED
          BY <2>1, <5>1, <5>2
      <4> HIDE DEF w
      <4>3. Taken = Start(w) + 0 /\ Start(w) \in Nat
        BY <4>1, <4>2, StartNat
      <4>4. Taken = Start(w)
        BY <4>3
      <4>5. QED
        BY <4>4 DEF w
    <3>2. Start(0) <= Start(HdrWords) /\ Start(HdrWords) <= Start(HdrWords + 1)
      BY Sizes, StartNat, StartLess DEF Start
    <3>3. Start(HdrWords + 1) + Start(Skipped + Parsed) = Start(TableAt)
      <4>1. (HdrWords + 1) + (Skipped + Parsed) = TableAt
        BY Sizes
      <4>2. QED
        BY <4>1, Sizes, StartPlus
    <3>4. Depth <= Start(Skipped + Parsed)
      BY UartAssumption DEF Start
    <3>5. Taken <= Start(HdrWords + 1)
      BY <3>1, <3>2, StartNat, Sizes
    <3>6. QED
      BY <1>1, <3>3, <3>4, <3>5, StartNat, Sizes
  <2>6. InFifo'
    <3> SUFFICES ASSUME NEW k \in 1 .. Len(fifo), Certain(Taken + k - 1)' PROVE FALSE
      BY <1>3, <2>2 DEF InFifo
    <3>1. Taken + k - 1 >= Start(TableAt)
      BY <1>1, <1>3, <2>2 DEF Certain
    <3>2. QED
      BY <1>1, <2>1, <2>5, <3>1, StartNat, Sizes
  <2>7. InReg'
    BY <1>1, <2>1 DEF InReg
  <2>8. Lengths' /\ RefusedForCause'
    BY <1>1, <1>3, <2>1, Zenon DEF Inv, Lengths, RefusedForCause
  <2>9. Copied(e)'
    BY <1>1, <1>3, <2>1 DEF Inv, Copied, Found
  <2>10. QED
    BY <2>3, <2>4, <2>6, <2>7, <2>8, <2>9 DEF Inv
<1>4. QED
  BY <1>2, <1>3 DEF Send

(* A byte goes from the FIFO to the register. *)
LEMMA GetByteStep ==
  ASSUME NEW e \in {0, 1}, Inv(e), GetByte
  PROVE  Inv(e)'
<1>1. /\ pc \in Polls /\ Len(reg) < Bytes /\ fifo # <<>>
      /\ reg' = Append(reg, Head(fifo)) /\ fifo' = Tail(fifo)
      /\ UNCHANGED <<pc, n, staged, sent, lost>>
      /\ reg \in Seq(Nat) /\ fifo \in Seq(Nat) /\ sent \in Nat /\ lost \in Nat /\ Taken \in Nat
  BY DEF GetByte, Shifted, Inv, Types, Counted
<1>2. /\ Len(fifo) \in Nat \ {0} /\ Len(fifo') = Len(fifo) - 1 /\ fifo' \in Seq(Nat)
      /\ Head(fifo) = fifo[1] /\ fifo[1] \in Nat
      /\ \A k \in 1 .. Len(fifo') : fifo'[k] = fifo[k + 1]
  <2>1. Len(fifo) \in Nat \ {0} /\ fifo[1] \in Nat
    BY <1>1
  <2>2. Len(fifo') = Len(fifo) - 1 /\ fifo' \in Seq(Nat) /\ Head(fifo) = fifo[1]
    BY <1>1
  <2>3. \A k \in 1 .. Len(fifo') : fifo'[k] = fifo[k + 1]
    BY <1>1, <2>1, <2>2
  <2>4. QED
    BY <2>1, <2>2, <2>3
<1>3. /\ Len(reg) \in Nat /\ Len(reg') = Len(reg) + 1 /\ reg' \in Seq(Nat)
      /\ reg'[Len(reg) + 1] = fifo[1]
      /\ \A k \in 1 .. Len(reg) : reg'[k] = reg[k]
  BY <1>1, <1>2
<1>4. Taken' = Taken + 1 /\ Taken' - Len(reg') = Taken - Len(reg)
  <2>1. Taken' = Taken + 1
    BY <1>1, <1>2 DEF Taken
  <2>2. QED
    BY <1>1, <1>3, <2>1
<1>5. Types'
  BY <1>1, <1>2, <1>3, Sizes DEF Inv, Types
<1>6. Counted(e)'
  <2>1. CASE pc \in {"done", "dead"}
    BY <1>1, <1>4, <2>1 DEF Counted
  <2>2. CASE pc \notin {"done", "dead"}
    <3>1. Taken = Start(Earlier(e) + n) + Len(reg)
      BY <2>2 DEF Inv, Counted
    <3>2. Earlier(e)' = Earlier(e)
      BY <1>1 DEF Earlier
    <3>3. Start(Earlier(e) + n) \in Nat
      BY EarlierNat, StartNat DEF Inv
    <3>4. Taken' = Start(Earlier(e) + n) + Len(reg')
      BY <1>1, <1>3, <1>4, <3>1, <3>3
    <3>5. QED
      BY <1>1, <1>4, <3>2, <3>4 DEF Counted
  <2>3. QED
    BY <2>1, <2>2
<1>7. InFifo'
  <2> SUFFICES ASSUME NEW k \in 1 .. Len(fifo'), Certain(Taken + 1 + k - 1)
               PROVE  fifo'[k] = ByteAt(Taken + 1 + k - 1 + lost)
    BY <1>1, <1>4 DEF InFifo, Certain
  <2>1. k + 1 \in 1 .. Len(fifo) /\ Taken + 1 + k - 1 = Taken + (k + 1) - 1
    BY <1>1, <1>2
  <2>2. QED
    BY <1>2, <2>1 DEF Inv, InFifo
<1>8. InReg'
  <2> DEFINE b == Taken - Len(reg)
  <2> SUFFICES ASSUME NEW k \in 1 .. Len(reg) + 1, Certain(b + k - 1)
               PROVE  reg'[k] = ByteAt(b + k - 1 + lost)
    BY <1>1, <1>3, <1>4 DEF InReg, Certain
  <2>1. CASE k \in 1 .. Len(reg)
    BY <1>3, <2>1 DEF Inv, InReg
  <2>2. CASE k = Len(reg) + 1
    <3>1. b + k - 1 = Taken + 1 - 1 /\ 1 \in 1 .. Len(fifo)
      BY <1>1, <1>2, <1>3, <2>2
    <3>2. QED
      BY <1>3, <2>2, <3>1 DEF Inv, InFifo
  <2>3. QED
    BY <1>3, <2>1, <2>2
<1>9. Lengths' /\ Copied(e)' /\ RefusedForCause'
  BY <1>1, Zenon DEF Inv, Lengths, Copied, Found, RefusedForCause
<1>10. QED
  BY <1>5, <1>6, <1>7, <1>8, <1>9 DEF Inv

-----------------------------------------------------------------------------
(* A word has been read: what every loop does with it. *)
LEMMA WholeWord ==
  ASSUME NEW e \in {0, 1}, Inv(e), pc \in Polls, Len(reg) = Bytes
  PROVE  /\ reg \in Seq(Nat)
         /\ Taken = Start(Earlier(e) + n + 1)
         /\ lost = 0 => reg = WordAt(Earlier(e) + n)
         /\ Certain(Start(Earlier(e) + n)) => reg[1] = ByteAt(Start(Earlier(e) + n) + lost)
<1> DEFINE w == Earlier(e) + n
<1>1. w \in Nat
  BY EarlierNat DEF Inv
<1>2. reg \in Seq(Nat) /\ lost \in Nat
  BY DEF Inv, Types
<1> HIDE DEF w
<1>3. Taken = Start(w) + Bytes /\ Start(w) \in Nat /\ Start(w + 1) = Start(w) + Bytes
  <2>1. Taken = Start(w) + Len(reg)
    BY DEF Inv, Counted, Polls, w
  <2>2. QED
    BY <1>1, <2>1, StartNat, StartNext
<1>4. \A k \in 1 .. Bytes : Certain(Start(w) + k - 1) => reg[k] = ByteAt(Start(w) + k - 1 + lost)
  <2>1. Taken - Len(reg) = Start(w)
    BY <1>3, Sizes
  <2>2. QED
    BY <2>1 DEF Inv, InReg
<1>5. lost = 0 => reg = WordAt(w)
  <2> SUFFICES ASSUME lost = 0 PROVE reg = WordAt(w)
    OBVIOUS
  <2>1. \A k \in 1 .. Bytes : reg[k] = WordAt(w)[k]
    <3> SUFFICES ASSUME NEW k \in 1 .. Bytes PROVE reg[k] = WordAt(w)[k]
      OBVIOUS
    <3>1. reg[k] = ByteAt(Start(w) + k - 1 + 0)
      BY <1>4 DEF Certain
    <3>2. k - 1 \in 0 .. Bytes - 1 /\ Start(w) + k - 1 + 0 = Start(w) + (k - 1) /\ (k - 1) + 1 = k
      BY <1>3, Sizes
    <3>3. QED
      BY <1>1, <3>1, <3>2, ByteInWord
  <2>2. WordAt(w) \in Seq(Nat) /\ Len(WordAt(w)) = Bytes
    BY <1>1, WordSeq
  <2>3. QED
    BY <1>2, <2>1, <2>2
<1>6. Certain(Start(w)) => reg[1] = ByteAt(Start(w) + lost)
  <2>1. 1 \in 1 .. Bytes /\ Start(w) + 1 - 1 = Start(w)
    BY <1>3, Sizes
  <2>2. QED
    BY <1>4, <2>1
<1>7. QED
  BY <1>2, <1>3, <1>5, <1>6 DEF w

LEMMA WordTaken ==
  ASSUME NEW e \in {0, 1}, NEW f \in {0, 1}, Inv(e), pc \in Polls, Len(reg) = Bytes,
         reg' = <<>>, UNCHANGED lineVars,
         pc' \notin {"done", "dead"} => Earlier(f)' + n' = Earlier(e) + n + 1
  PROVE  Counted(f)' /\ InFifo' /\ InReg'
<1>1. Taken = Start(Earlier(e) + n + 1) /\ Taken \in Nat /\ Len(reg') = 0
  BY WholeWord DEF Inv, Counted
<1>2. Taken' = Taken /\ fifo' = fifo /\ lost' = lost
  BY DEF Taken, lineVars
<1>3. Counted(f)'
  <2>1. pc' \notin {"done", "dead"} => Taken' = Start(Earlier(f)' + n')
    BY <1>1, <1>2
  <2>2. Taken' \in Nat /\ Taken' + 0 = Taken'
    BY <1>1, <1>2
  <2>3. QED
    BY <1>1, <2>1, <2>2 DEF Counted
<1>4. InFifo'
  BY <1>2 DEF Inv, InFifo, Certain
<1>5. InReg'
  BY <1>1 DEF InReg
<1>6. QED
  BY <1>3, <1>4, <1>5

(* The header: nothing is staged. *)
LEMMA HeaderWord ==
  ASSUME NEW e \in {0, 1}, NEW f \in {0, 1}, Inv(e), pc \in {"magic", "skip", "parse", "value"},
         Len(reg) = Bytes, reg' = <<>>, UNCHANGED lineVars, staged' = staged,
         pc' \in {"skip", "parse", "value", "wait"}, Types',
         Earlier(f)' + n' = Earlier(e) + n + 1
  PROVE  Inv(f)'
<1>1. Counted(f)' /\ InFifo' /\ InReg'
  BY WordTaken DEF Polls
<1>2. Lengths'
  BY DEF Inv, Lengths
<1>3. Copied(f)' /\ RefusedForCause'
  <2>1. Len(staged["bsp"]) = 0 /\ ~Found'
    BY DEF Inv, Lengths, Found
  <2>2. QED
    BY <2>1 DEF Copied, RefusedForCause
<1>4. QED
  BY <1>1, <1>2, <1>3 DEF Inv

LEMMA GetMagicStep == ASSUME NEW e \in {0, 1}, Inv(e), GetMagic PROVE Inv(e)'
<1>1. /\ pc = "magic" /\ Len(reg) = Bytes /\ reg' = <<>> /\ UNCHANGED <<n, staged, lineVars>>
      /\ pc' = IF reg = Magic THEN "skip" ELSE "dead"
      /\ n = 0
  BY DEF GetMagic, Got, Inv, Types
<1>2. Types'
  BY <1>1, Sizes DEF Inv, Types, Polls, lineVars
<1>3. CASE pc' = "skip"
  <2>1. Earlier(e)' + n' = Earlier(e) + n + 1
    BY <1>1, <1>3 DEF Earlier
  <2>2. QED
    BY <1>1, <1>2, <1>3, <2>1, HeaderWord
<1>4. CASE pc' = "dead"
  <2>1. lost # 0
    <3>1. reg # Magic /\ Earlier(e) + n = 0
      BY <1>1, <1>4 DEF Earlier
    <3>2. QED
      BY <1>1, <3>1, WholeWord DEF Polls, Magic
  <2>2. Counted(e)' /\ InFifo' /\ InReg'
    BY <1>1, <1>4, WordTaken DEF Polls
  <2>3. Lengths' /\ Copied(e)' /\ RefusedForCause'
    BY <1>1, <1>4, <2>1 DEF Lengths, Copied, Found, RefusedForCause, lineVars
  <2>4. QED
    BY <1>2, <2>2, <2>3 DEF Inv
<1>5. QED
  BY <1>1, <1>3, <1>4

LEMMA SkipStep == ASSUME NEW e \in {0, 1}, Inv(e), Skip PROVE Inv(e)'
<1>1. /\ pc = "skip" /\ Len(reg) = Bytes /\ reg' = <<>> /\ UNCHANGED <<staged, lineVars>>
      /\ IF n + 1 < Skipped THEN n' = n + 1 /\ pc' = "skip" ELSE n' = 0 /\ pc' = "parse"
      /\ n \in Nat /\ n < Skipped
  BY DEF Skip, Got, Loop, Inv, Types
<1>2. Types'
  BY <1>1, Sizes DEF Inv, Types, Polls, lineVars
<1>3. Earlier(e)' + n' = Earlier(e) + n + 1
  <2>1. Earlier(e) = 1 /\ Earlier(e)' = IF pc' = "skip" THEN 1 ELSE 1 + Skipped
    BY <1>1 DEF Earlier
  <2>2. QED
    BY <1>1, <2>1, Sizes
<1>4. QED
  BY <1>1, <1>2, <1>3, HeaderWord

(* Where the header ends it has eaten a word, or none. *)
LEMMA ParseStep ==
  ASSUME NEW e \in {0, 1}, Inv(e), Parse
  PROVE  \E f \in {0, 1} : Inv(f)'
<1>1. /\ pc = "parse" /\ Len(reg) = Bytes /\ reg' = <<>> /\ UNCHANGED <<staged, lineVars>>
      /\ \/ n + 1 < Parsed /\ n' = n + 1 /\ pc' = "parse"
         \/ n + 1 = Parsed /\ n' = 0 /\ pc' = "wait"
         \/ n' = n + 1 /\ pc' = "value"
      /\ n \in Nat /\ n < Parsed
  BY Sizes DEF Parse, Got, Loop, Inv, Types
<1>2. Types'
  BY <1>1, Sizes DEF Inv, Types, Polls, lineVars
<1>3. Earlier(0)' + n' = Earlier(e) + n + 1
  <2>1. /\ Earlier(e) = 1 + Skipped
        /\ Earlier(0)' = IF pc' = "wait" THEN HdrWords + 0 ELSE 1 + Skipped
    BY <1>1 DEF Earlier
  <2>2. QED
    BY <1>1, <2>1, Sizes
<1>4. Inv(0)'
  BY <1>1, <1>2, <1>3, HeaderWord
<1>5. QED
  BY <1>4

LEMMA ValueStep ==
  ASSUME NEW e \in {0, 1}, Inv(e), Value
  PROVE  \E f \in {0, 1} : Inv(f)'
<1>1. /\ pc = "value" /\ Len(reg) = Bytes /\ reg' = <<>> /\ UNCHANGED <<staged, lineVars>>
      /\ IF n + 1 < Parsed THEN n' = n + 1 /\ pc' = "parse" ELSE n' = 0 /\ pc' = "wait"
      /\ n \in Nat /\ n <= Parsed
  BY DEF Value, Got, Inv, Types
<1>2. Types'
  BY <1>1, Sizes DEF Inv, Types, Polls, lineVars
<1>3. ASSUME NEW f \in {0, 1}, f = 1 <=> n = Parsed PROVE Inv(f)'
  <2>1. /\ Earlier(e) = 1 + Skipped
        /\ Earlier(f)' = IF pc' = "wait" THEN HdrWords + f ELSE 1 + Skipped
    BY <1>1 DEF Earlier
  <2>2. Earlier(f)' + n' = Earlier(e) + n + 1
    BY <1>1, <1>3, <2>1, Sizes
  <2>3. QED
    BY <1>1, <1>2, <2>2, HeaderWord
<1>4. CASE n = Parsed
  BY <1>3, <1>4
<1>5. CASE n # Parsed
  BY <1>3, <1>5
<1>6. QED
  BY <1>4, <1>5

(* The ROM begins to poll. *)
LEMMA PollStep ==
  ASSUME NEW e \in {0, 1}, Inv(e), Greeted \/ Ready
  PROVE  Inv(e)'
<1>1. /\ (pc = "greet" /\ pc' = "magic") \/ (pc = "wait" /\ pc' = "bsp")
      /\ UNCHANGED <<reg, n, staged, fifo, sent, lost>> /\ n = 0
  BY DEF Greeted, Ready, lineVars, Inv, Types
<1>2. Types'
  BY <1>1, Sizes DEF Inv, Types, Polls
<1>3. Earlier(e)' = Earlier(e) /\ Taken' = Taken
  BY <1>1 DEF Earlier, Taken
<1>4. Counted(e)' /\ InFifo' /\ InReg'
  BY <1>1, <1>3 DEF Inv, Counted, InFifo, InReg, Certain
<1>5. Lengths'
  BY <1>1 DEF Inv, Lengths
<1>6. Copied(e)' /\ RefusedForCause'
  BY <1>1 DEF Inv, Copied, Found, RefusedForCause
<1>7. QED
  BY <1>2, <1>4, <1>5, <1>6 DEF Inv

-----------------------------------------------------------------------------
(* The words that are staged. *)
LEMMA Appended ==
  ASSUME Types, NEW p \in Places, Len(reg) = Bytes, Store(p)
  PROVE  /\ staged' \in [Places -> Seq(Seq(Nat))]
         /\ staged[p] \in Seq(Seq(Nat)) /\ Len(staged'[p]) = Len(staged[p]) + 1
         /\ staged'[p][Len(staged[p]) + 1] = reg
         /\ \A k \in 1 .. Len(staged[p]) : staged'[p][k] = staged[p][k]
         /\ \A q \in Places \ {p} : staged'[q] = staged[q]
<1>1. reg \in Seq(Nat) /\ staged[p] \in Seq(Seq(Nat)) /\ staged'[p] = Append(staged[p], reg)
  BY DEF Types, Store
<1>2. /\ Len(staged'[p]) = Len(staged[p]) + 1 /\ staged'[p] \in Seq(Seq(Nat))
      /\ staged'[p][Len(staged[p]) + 1] = reg
      /\ \A k \in 1 .. Len(staged[p]) : staged'[p][k] = staged[p][k]
  BY <1>1
<1>3. \A q \in Places \ {p} : staged'[q] = staged[q]
  BY DEF Types, Store
<1>4. staged' \in [Places -> Seq(Seq(Nat))]
  BY <1>1, <1>2 DEF Types, Store
<1>5. QED
  BY <1>1, <1>2, <1>3, <1>4

(* What a loop does not touch but for the register. *)
LineTypes ==
  /\ reg \in Seq(Nat) /\ Len(reg) <= Bytes /\ reg = <<>>
  /\ fifo \in Seq(Nat) /\ Len(fifo) <= Depth
  /\ sent \in 0 .. TotalBytes /\ lost \in 0 .. MaxLost

LEMMA EmptyRegister == ASSUME Types, reg' = <<>>, UNCHANGED lineVars PROVE LineTypes'
BY Sizes DEF Types, LineTypes, lineVars

LEMMA ReadBspStep == ASSUME NEW e \in {0, 1}, Inv(e), ReadBsp PROVE Inv(e)'
<1>1. /\ pc = "bsp" /\ Len(reg) = Bytes /\ reg' = <<>> /\ UNCHANGED <<fifo, sent, lost, lineVars>>
      /\ Store("bsp")
      /\ IF n + 1 < HdrWords THEN n' = n + 1 /\ pc' = "bsp" ELSE n' = 0 /\ pc' = "table"
      /\ n \in Nat /\ n < HdrWords
  BY DEF ReadBsp, Got, Loop, Inv, Types, lineVars
<1>2. /\ staged' \in [Places -> Seq(Seq(Nat))] /\ Len(staged["bsp"]) = n
      /\ Len(staged'["bsp"]) = n + 1 /\ staged'["bsp"][n + 1] = reg
      /\ \A k \in 1 .. n : staged'["bsp"][k] = staged["bsp"][k]
      /\ staged'["table"] = staged["table"] /\ staged'["isp"] = staged["isp"]
  <2>1. Len(staged["bsp"]) = n
    BY <1>1 DEF Inv, Lengths
  <2>2. "bsp" \in Places /\ "table" \in Places \ {"bsp"} /\ "isp" \in Places \ {"bsp"}
    BY DEF Places
  <2>3. QED
    BY <1>1, <2>1, <2>2, Appended DEF Inv
<1>3. Types'
  BY <1>1, <1>2, Sizes DEF Inv, Types, Polls
<1>4. Earlier(e) = HdrWords + e
  BY <1>1 DEF Earlier
<1>5. Counted(e)' /\ InFifo' /\ InReg'
  <2>1. Earlier(e)' = IF pc' = "bsp" THEN HdrWords + e ELSE TableAt + e
    BY <1>1 DEF Earlier
  <2>2. Earlier(e)' + n' = Earlier(e) + n + 1
    BY <1>1, <1>4, <2>1, Sizes
  <2>3. QED
    BY <1>1, <2>2, WordTaken DEF Polls
<1>6. Lengths'
  <2>1. pc' = "table" => n + 1 = HdrWords
    BY <1>1, Sizes
  <2>2. QED
    BY <1>1, <1>2, <2>1 DEF Inv, Lengths
<1>7. Copied(e)'
  <2>1. ~Found'
    BY <1>1 DEF Found
  <2>2. lost = 0 => \A k \in 1 .. n + 1 : staged'["bsp"][k] = WordAt(HdrWords + e + k - 1)
    <3> SUFFICES ASSUME lost = 0, NEW k \in 1 .. n + 1
                 PROVE  staged'["bsp"][k] = WordAt(HdrWords + e + k - 1)
      OBVIOUS
    <3>1. CASE k \in 1 .. n
      BY <1>2, <3>1 DEF Inv, Copied
    <3>2. CASE k = n + 1
      <4>1. reg = WordAt(Earlier(e) + n)
        BY <1>1, WholeWord DEF Polls
      <4>2. HdrWords + e + k - 1 = Earlier(e) + n
        BY <1>1, <1>4, <3>2, Sizes
      <4>3. QED
        BY <1>2, <3>2, <4>1, <4>2
    <3>3. QED
      BY <1>1, <3>1, <3>2
  <2>3. QED
    BY <1>1, <1>2, <2>1, <2>2 DEF Copied
<1>8. RefusedForCause'
  BY <1>1 DEF RefusedForCause
<1>9. QED
  BY <1>3, <1>5, <1>6, <1>7, <1>8 DEF Inv

(* The magic of the lookup table: nothing was lost, and nothing eaten. *)
LEMMA MagicFound ==
  ASSUME NEW e \in {0, 1}, Inv(e), pc = "table", Len(reg) = Bytes, n > 0 \/ reg = Magic
  PROVE  lost = 0 /\ e = 0
<1>1. CASE n > 0
  BY <1>1 DEF Inv, Copied, Found
<1>2. CASE n = 0 /\ reg = Magic
  <2>1. Earlier(e) + n = TableAt + e
    <3>1. Earlier(e) = TableAt + e
      BY DEF Earlier
    <3>2. QED
      BY <1>2, <3>1, Sizes
  <2>2. Start(TableAt + e) >= Start(TableAt) /\ Start(TableAt + e) \in Nat /\ Start(TableAt) \in Nat
        /\ (e = 1 => Start(TableAt + e) > Start(TableAt))
    <3>1. CASE e = 0
      BY <3>1, Sizes, StartNat
    <3>2. CASE e = 1
      <4>1. Start(TableAt + 1) = Start(TableAt) + Bytes /\ Start(TableAt) \in Nat
        BY Sizes, StartNat, StartNext
      <4>2. QED
        BY <3>2, <4>1, Sizes
    <3>3. QED
      BY <3>1, <3>2
  <2>3. reg[1] = ByteAt(Start(TableAt + e) + lost)
    BY <2>1, <2>2, WholeWord DEF Polls, Certain
  <2>4. Magic[1] = 0
    BY Sizes DEF Magic, WordAt, Content
  <2>5. lost \in Nat
    BY Sizes DEF Inv, Types
  <2>6. Start(TableAt + e) + lost = Start(TableAt)
    BY <1>2, <2>2, <2>3, <2>4, <2>5, MagicByte
  <2>7. QED
    BY <2>2, <2>5, <2>6
<1>3. QED
  BY <1>1, <1>2 DEF Inv, Types

LEMMA ReadTableStep == ASSUME NEW e \in {0, 1}, Inv(e), ReadTable PROVE Inv(e)'
<1>1. /\ pc = "table" /\ Len(reg) = Bytes /\ reg' = <<>> /\ UNCHANGED <<fifo, sent, lost, lineVars>>
      /\ Store("table") /\ n \in Nat /\ n < Table
      /\ IF n = 0 /\ reg # Magic THEN pc' = "dead" /\ n' = n
         ELSE IF n + 1 < Table THEN n' = n + 1 /\ pc' = "table" ELSE n' = 0 /\ pc' = "isp"
  BY DEF ReadTable, Got, Loop, Inv, Types, lineVars
<1>2. /\ staged' \in [Places -> Seq(Seq(Nat))]
      /\ Len(staged["bsp"]) = HdrWords /\ Len(staged["table"]) = n /\ Len(staged["isp"]) = 0
      /\ Len(staged'["table"]) = n + 1 /\ staged'["table"][n + 1] = reg
      /\ \A k \in 1 .. n : staged'["table"][k] = staged["table"][k]
      /\ staged'["bsp"] = staged["bsp"] /\ staged'["isp"] = staged["isp"]
  <2>1. Len(staged["bsp"]) = HdrWords /\ Len(staged["table"]) = n /\ Len(staged["isp"]) = 0
    BY <1>1 DEF Inv, Lengths
  <2>2. "table" \in Places /\ "bsp" \in Places \ {"table"} /\ "isp" \in Places \ {"table"}
    BY DEF Places
  <2>3. QED
    BY <1>1, <2>1, <2>2, Appended DEF Inv
<1>3. Types'
  <2>1. \/ pc' = "dead" /\ n' = 0
        \/ pc' = "table" /\ n' \in Nat /\ n' < Table
        \/ pc' = "isp" /\ n' = 0
    BY <1>1, Sizes
  <2>2. LineTypes'
    BY <1>1, EmptyRegister DEF Inv
  <2>3. CASE pc' = "dead" /\ n' = 0
    BY <1>2, <2>2, <2>3 DEF Types, LineTypes, Polls
  <2>4. CASE pc' = "table" /\ n' \in Nat /\ n' < Table
    BY <1>2, <2>2, <2>4 DEF Types, LineTypes, Polls
  <2>5. CASE pc' = "isp" /\ n' = 0
    BY <1>2, <2>2, <2>5, Sizes DEF Types, LineTypes, Polls
  <2>6. QED
    BY <2>1, <2>3, <2>4, <2>5
<1>4. Earlier(e) = TableAt + e
  BY <1>1 DEF Earlier
<1>5. lost = 0 => reg = WordAt(TableAt + e + n)
  BY <1>1, <1>4, WholeWord DEF Polls
<1>6. CASE n = 0 /\ reg # Magic
  <2>1. Counted(e)' /\ InFifo' /\ InReg'
    BY <1>1, <1>6, WordTaken DEF Polls
  <2>2. Lengths'
    BY <1>1, <1>2, <1>6 DEF Lengths
  <2>3. Copied(e)'
    BY <1>1, <1>2, <1>6 DEF Inv, Copied, Found
  <2>4. RefusedForCause'
    <3> SUFFICES ASSUME lost = 0
                 PROVE  Len(staged["bsp"]) = HdrWords /\ staged["bsp"][1] = WordAt(1)
      BY <1>1, <1>2 DEF RefusedForCause
    <3>1. e # 0
      <4> SUFFICES ASSUME e = 0 PROVE FALSE
        OBVIOUS
      <4>1. TableAt + e + n = TableAt
        BY <1>6, Sizes
      <4>2. QED
        BY <1>5, <1>6, <4>1, SameWords
    <3>2. HdrWords + e + 1 - 1 = HdrWords + 1 /\ 1 \in 1 .. HdrWords
      BY <3>1, Sizes
    <3>3. staged["bsp"][1] = WordAt(HdrWords + e + 1 - 1)
      BY <1>2, <3>2 DEF Inv, Copied
    <3>4. QED
      BY <1>2, <3>2, <3>3, SameWords
  <2>5. QED
    BY <1>3, <2>1, <2>2, <2>3, <2>4 DEF Inv
<1>7. CASE ~(n = 0 /\ reg # Magic)
  <2>1. lost = 0 /\ e = 0 /\ lost' = 0
    BY <1>1, <1>7, MagicFound
  <2>2. IF n + 1 < Table THEN n' = n + 1 /\ pc' = "table" ELSE n' = 0 /\ pc' = "isp"
    BY <1>1, <1>7
  <2>3. Counted(e)' /\ InFifo' /\ InReg'
    <3>1. Earlier(e)' = IF pc' = "table" THEN TableAt + e ELSE TableAt + Table
      BY <2>2 DEF Earlier
    <3>2. Earlier(e)' + n' = Earlier(e) + n + 1
      BY <1>1, <1>4, <2>1, <2>2, <3>1, Sizes
    <3>3. QED
      BY <1>1, <3>2, WordTaken DEF Polls
  <2>4. Lengths'
    <3>1. pc' = "isp" => n + 1 = Table
      BY <1>1, <2>2, Sizes
    <3>2. QED
      BY <1>2, <2>2, <3>1 DEF Lengths
  <2>5. \A k \in 1 .. n + 1 : staged'["table"][k] = WordAt(TableAt + k - 1)
    <3> SUFFICES ASSUME NEW k \in 1 .. n + 1 PROVE staged'["table"][k] = WordAt(TableAt + k - 1)
      OBVIOUS
    <3>1. CASE k \in 1 .. n
      <4>1. Found
        BY <1>1, <3>1 DEF Found
      <4>2. QED
        BY <1>2, <3>1, <4>1 DEF Inv, Copied
    <3>2. CASE k = n + 1
      <4>1. TableAt + e + n = TableAt + k - 1
        BY <1>1, <2>1, <3>2, Sizes
      <4>2. QED
        BY <1>2, <1>5, <2>1, <3>2, <4>1
    <3>3. QED
      BY <1>1, <3>1, <3>2
  <2>6. Copied(e)'
    <3>1. \A k \in 1 .. Len(staged["bsp"]) : staged["bsp"][k] = WordAt(HdrWords + e + k - 1)
      BY <2>1 DEF Inv, Copied
    <3>2. Len(staged'["isp"]) = 0 /\ 1 .. 0 = {}
      BY <1>2
    <3>3. QED
      BY <1>2, <2>1, <2>5, <3>1, <3>2 DEF Copied
  <2>7. RefusedForCause'
    BY <2>2 DEF RefusedForCause
  <2>8. QED
    BY <1>3, <2>3, <2>4, <2>6, <2>7 DEF Inv
<1>8. QED
  BY <1>6, <1>7

LEMMA ReadIspStep == ASSUME NEW e \in {0, 1}, Inv(e), ReadIsp PROVE Inv(e)'
<1>1. /\ pc = "isp" /\ Len(reg) = Bytes /\ reg' = <<>> /\ UNCHANGED <<fifo, sent, lost, lineVars>>
      /\ Store("isp") /\ n \in Nat /\ n < IspWords
  BY DEF ReadIsp, Got, Inv, Types, lineVars
<1>2. lost = 0 /\ e = 0 /\ lost' = 0
  BY <1>1 DEF Inv, Copied, Found
<1>3. IF n + 1 < IspWords THEN n' = n + 1 /\ pc' = "isp" ELSE n' = 0 /\ pc' = "done"
  <2>1. 4 \in 1 .. Len(staged["table"])
    BY <1>1, Sizes DEF Inv, Lengths
  <2>2. TableAt + 4 - 1 = TableAt + 3
    BY Sizes
  <2>3. staged["table"][4] = WordAt(TableAt + 4 - 1)
    BY <1>1, <2>1 DEF Inv, Copied, Found
  <2>4. Announced(staged["table"][4]) = {IspWords}
    BY <2>2, <2>3 DEF Announced
  <2>5. QED
    BY <1>1, <2>4 DEF ReadIsp, Loop
<1>4. /\ staged' \in [Places -> Seq(Seq(Nat))]
      /\ Len(staged["bsp"]) = HdrWords /\ Len(staged["table"]) = Table /\ Len(staged["isp"]) = n
      /\ Len(staged'["isp"]) = n + 1 /\ staged'["isp"][n + 1] = reg
      /\ \A k \in 1 .. n : staged'["isp"][k] = staged["isp"][k]
      /\ staged'["bsp"] = staged["bsp"] /\ staged'["table"] = staged["table"]
  <2>1. Len(staged["bsp"]) = HdrWords /\ Len(staged["table"]) = Table /\ Len(staged["isp"]) = n
    BY <1>1 DEF Inv, Lengths
  <2>2. "isp" \in Places /\ "bsp" \in Places \ {"isp"} /\ "table" \in Places \ {"isp"}
    BY DEF Places
  <2>3. QED
    BY <1>1, <2>1, <2>2, Appended DEF Inv
<1>5. Types'
  <2>1. \/ pc' = "isp" /\ n' \in Nat /\ n' < IspWords
        \/ pc' = "done" /\ n' = 0
    BY <1>1, <1>3, Sizes
  <2>2. LineTypes'
    BY <1>1, EmptyRegister DEF Inv
  <2>3. QED
    BY <1>4, <2>1, <2>2 DEF Types, LineTypes, Polls
<1>6. Earlier(e) = TableAt + Table
  BY <1>1 DEF Earlier
<1>7. Counted(e)' /\ InFifo' /\ InReg'
  <2>1. pc' = "isp" => Earlier(e)' = TableAt + Table
    BY DEF Earlier
  <2>2. pc' # "done" => Earlier(e)' + n' = Earlier(e) + n + 1
    BY <1>1, <1>3, <1>6, <2>1, Sizes
  <2>3. QED
    BY <1>1, <2>2, WordTaken DEF Polls
<1>8. Lengths'
  <2>1. pc' = "done" => n + 1 = IspWords
    BY <1>1, <1>3, Sizes
  <2>2. QED
    BY <1>3, <1>4, <2>1 DEF Lengths
<1>9. \A k \in 1 .. n + 1 : staged'["isp"][k] = WordAt(TableAt + Table + k - 1)
  <2> SUFFICES ASSUME NEW k \in 1 .. n + 1
               PROVE  staged'["isp"][k] = WordAt(TableAt + Table + k - 1)
    OBVIOUS
  <2>1. CASE k \in 1 .. n
    BY <1>1, <1>4, <2>1 DEF Inv, Copied, Found
  <2>2. CASE k = n + 1
    <3>1. reg = WordAt(Earlier(e) + n)
      BY <1>1, <1>2, WholeWord DEF Polls
    <3>2. Earlier(e) + n = TableAt + Table + k - 1
      BY <1>1, <1>6, <2>2, Sizes
    <3>3. QED
      BY <1>4, <2>2, <3>1, <3>2
  <2>3. n \in Nat /\ (k \in 1 .. n \/ k = n + 1)
    BY <1>1
  <2>4. QED
    BY <2>1, <2>2, <2>3
<1>10. Copied(e)'
  <2>1. Found
    BY <1>1 DEF Found
  <2>2. QED
    BY <1>2, <1>4, <1>9, <2>1 DEF Inv, Copied
<1>11. RefusedForCause'
  BY <1>3 DEF RefusedForCause
<1>12. QED
  BY <1>5, <1>7, <1>8, <1>10, <1>11 DEF Inv

-----------------------------------------------------------------------------
(* The invariant is inductive. *)
LEMMA InitIInv == Init => IInv
<1> SUFFICES ASSUME Init PROVE Inv(0)
  BY DEF IInv
<1>1. TotalBytes \in Nat
  BY Sizes DEF TotalBytes
<1>2. Types
  BY <1>1, Sizes DEF Init, Types, Polls, Places
<1>3. Taken = 0 /\ Earlier(0) + n = 0
  <2>1. Earlier(0) = 0 /\ n = 0
    BY DEF Init, Earlier
  <2>2. sent = 0 /\ lost = 0 /\ Len(fifo) = 0
    BY DEF Init
  <2>3. Taken = 0
    BY <2>2 DEF Taken
  <2>4. QED
    BY <2>1, <2>3
<1>4. Counted(0)
  <2>1. Start(0) = 0
    BY Sizes DEF Start
  <2>2. QED
    BY <1>3, <2>1 DEF Init, Counted
<1>5. InFifo /\ InReg
  BY DEF Init, InFifo, InReg
<1>6. Lengths /\ Copied(0) /\ RefusedForCause
  BY DEF Init, Lengths, Copied, Found, RefusedForCause, Places
<1>7. QED
  BY <1>2, <1>4, <1>5, <1>6 DEF Inv

LEMMA NextIInv == IInv /\ [Next]_uartVars => IInv'
<1> SUFFICES ASSUME NEW e \in {0, 1}, Inv(e), [Next]_uartVars PROVE \E f \in {0, 1} : Inv(f)'
  BY DEF IInv
<1>1. CASE Send
  BY <1>1, SendStep
<1>2. CASE Greeted \/ Ready
  BY <1>2, PollStep
<1>3. CASE GetByte
  BY <1>3, GetByteStep
<1>4. CASE GetMagic
  BY <1>4, GetMagicStep
<1>5. CASE Skip
  BY <1>5, SkipStep
<1>6. CASE Parse
  BY <1>6, ParseStep
<1>7. CASE Value
  BY <1>7, ValueStep
<1>8. CASE ReadBsp
  BY <1>8, ReadBspStep
<1>9. CASE ReadTable
  BY <1>9, ReadTableStep
<1>10. CASE ReadIsp
  BY <1>10, ReadIspStep
<1>11. CASE UNCHANGED uartVars
  <2> USE <1>11 DEF uartVars
  <2>1. Types'
    BY DEF Inv, Types
  <2>2. Earlier(e)' = Earlier(e) /\ Taken' = Taken
    BY DEF Earlier, Taken
  <2>3. Counted(e)' /\ InFifo' /\ InReg'
    BY <2>2 DEF Inv, Counted, InFifo, InReg, Certain
  <2>4. Lengths' /\ RefusedForCause'
    BY DEF Inv, Lengths, RefusedForCause
  <2>5. Copied(e)'
    BY DEF Inv, Copied, Found
  <2>6. Inv(e)'
    BY <2>1, <2>3, <2>4, <2>5 DEF Inv
  <2>7. QED
    BY <2>6
<1>12. QED
  BY <1>1, <1>2, <1>3, <1>4, <1>5, <1>6, <1>7, <1>8, <1>9, <1>10, <1>11
     DEF Next, Rom, Stopped, Starved

(* The inductive invariant: the place in the upload of every byte that is  *)
(* in the FIFO, in the word under way or in the DDR.                       *)
THEOREM Invariance == Spec => []IInv
<1>1. Init => IInv
  BY InitIInv
<1>2. IInv /\ [Next]_uartVars => IInv'
  BY NextIInv
<1>3. QED
  BY <1>1, <1>2, PTL DEF Spec

(* Every variable has its type in every state of an upload over the UART:  *)
(* no loop reads more words than it has, whatever was lost, and the one    *)
(* over the ISP reads the number of words that was sent.                   *)
THEOREM UartTypes == Spec => []UartTypeOK
<1>1. IInv => UartTypeOK
  <2> SUFFICES ASSUME NEW e \in {0, 1}, Inv(e) PROVE UartTypeOK
    BY DEF IInv
  <2>1. IF pc \in Polls THEN n < LoopWords[pc] ELSE n = 0
    <3>1. pc \notin Polls => n = 0
      BY DEF Inv, Types, Polls
    <3>2. ASSUME pc \in Polls PROVE n < LoopWords[pc]
      <4>1. /\ LoopWords["magic"] = 1 /\ LoopWords["skip"] = Skipped /\ LoopWords["parse"] = Parsed
            /\ LoopWords["value"] = Parsed + 1 /\ LoopWords["bsp"] = HdrWords
            /\ LoopWords["table"] = Table /\ LoopWords["isp"] = IspWords
        BY DEF LoopWords, Polls
      <4>2. n \in Nat /\ (pc = "value" => n < Parsed + 1)
        BY Sizes DEF Inv, Types
      <4>3. QED
        BY <3>2, <4>1, <4>2 DEF Inv, Types, Polls
    <3>3. QED
      BY <3>1, <3>2
  <2>2. Len(reg) \in Nat /\ Len(fifo) \in Nat /\ DOMAIN staged = Places
    BY DEF Inv, Types
  <2>3. QED
    BY <2>1, <2>2, Sizes DEF Inv, Types, UartTypeOK
<1>2. QED
  BY <1>1, Invariance, PTL

LEMMA Prefix ==
  ASSUME NEW s \in Seq(Seq(Nat)), NEW t \in Seq(Seq(Nat)), Len(s) <= Len(t),
         \A k \in 1 .. Len(s) : s[k] = t[k]
  PROVE  s = SubSeq(t, 1, Len(s)) /\ (Len(s) = Len(t) => s = t)
<1>1. /\ SubSeq(t, 1, Len(s)) \in Seq(Seq(Nat)) /\ Len(SubSeq(t, 1, Len(s))) = Len(s)
      /\ \A k \in 1 .. Len(s) : SubSeq(t, 1, Len(s))[k] = t[k]
  OBVIOUS
<1>2. QED
  BY <1>1, SeqEqual

LEMMA SentWords ==
  /\ SentAt("bsp") \in Seq(Seq(Nat)) /\ Len(SentAt("bsp")) = HdrWords
  /\ \A k \in 1 .. HdrWords : SentAt("bsp")[k] = WordAt(HdrWords + k - 1)
  /\ SentAt("table") \in Seq(Seq(Nat)) /\ Len(SentAt("table")) = Table
  /\ \A k \in 1 .. Table : SentAt("table")[k] = WordAt(TableAt + k - 1)
  /\ SentAt("isp") \in Seq(Seq(Nat)) /\ Len(SentAt("isp")) = IspWords
  /\ \A k \in 1 .. IspWords : SentAt("isp")[k] = WordAt(TableAt + Table + k - 1)
<1> DEFINE B == [k \in 1 .. HdrWords |-> WordAt(HdrWords + k - 1)]
           T == [k \in 1 .. Table    |-> WordAt(TableAt + k - 1)]
           I == [k \in 1 .. IspWords |-> WordAt(TableAt + Table + k - 1)]
<1>1. /\ \A k \in 1 .. HdrWords : HdrWords + k - 1 \in Nat
      /\ \A k \in 1 .. Table : TableAt + k - 1 \in Nat
      /\ \A k \in 1 .. IspWords : TableAt + Table + k - 1 \in Nat
  BY Sizes
<1>2. \A w \in Nat : WordAt(w) \in Seq(Nat)
  BY WordSeq
<1>3. B \in Seq(Seq(Nat)) /\ Len(B) = HdrWords
  BY <1>1, <1>2, Sizes
<1>4. T \in Seq(Seq(Nat)) /\ Len(T) = Table
  BY <1>1, <1>2, Sizes
<1>5. I \in Seq(Seq(Nat)) /\ Len(I) = IspWords
  BY <1>1, <1>2, Sizes
<1>6. SentAt("bsp") = B /\ SentAt("table") = T /\ SentAt("isp") = I
  BY DEF SentAt
<1>7. QED
  BY <1>3, <1>4, <1>5, <1>6

(* Once the magic of the lookup table was found every word at ISP_Base, at *)
(* ISP_Base + 128 and at ISP_Base + 1024 is the one that was sent for that *)
(* place, however many bytes were lost and wherever (board.c:152-225).     *)
THEOREM AlwaysUploadIntact == Spec => []UploadIntact
<1>1. IInv => UploadIntact
  <2> SUFFICES ASSUME NEW e \in {0, 1}, Inv(e), Found, NEW p \in Places
               PROVE  /\ staged[p] = SubSeq(SentAt(p), 1, Len(staged[p]))
                      /\ pc = "done" => staged[p] = SentAt(p)
    BY DEF IInv, UploadIntact, Found
  <2>1. lost = 0 /\ e = 0 /\ staged[p] \in Seq(Seq(Nat))
    BY DEF Inv, Copied, Types
  <2>2. n \in Nat /\ (pc = "table" => n < Table) /\ (pc = "isp" => n < IspWords)
        /\ pc \in {"table", "isp", "done"}
    BY DEF Inv, Types, Found
  <2>3. /\ SentAt(p) \in Seq(Seq(Nat))
        /\ Len(staged[p]) <= Len(SentAt(p)) /\ (pc = "done" => Len(staged[p]) = Len(SentAt(p)))
        /\ \A k \in 1 .. Len(staged[p]) : staged[p][k] = SentAt(p)[k]
    <3>1. CASE p = "bsp"
      <4>1. Len(staged["bsp"]) = HdrWords
        BY <2>2 DEF Inv, Lengths
      <4>2. ASSUME NEW k \in 1 .. HdrWords PROVE staged["bsp"][k] = WordAt(HdrWords + k - 1)
        <5>1. staged["bsp"][k] = WordAt(HdrWords + 0 + k - 1)
          BY <2>1, <4>1 DEF Inv, Copied
        <5>2. HdrWords + 0 + k - 1 = HdrWords + k - 1
          BY Sizes
        <5>3. QED
          BY <5>1, <5>2
      <4>3. /\ SentAt("bsp") \in Seq(Seq(Nat)) /\ Len(SentAt("bsp")) = HdrWords
            /\ \A k \in 1 .. HdrWords : SentAt("bsp")[k] = staged["bsp"][k]
        BY <4>2, SentWords
      <4>4. HdrWords <= HdrWords
        BY Sizes
      <4>5. QED
        BY <3>1, <4>1, <4>3, <4>4
    <3>2. CASE p = "table"
      <4>1. Len(staged["table"]) = IF pc = "table" THEN n ELSE Table
        BY <2>2 DEF Inv, Lengths
      <4>2. \A k \in 1 .. Len(staged["table"]) : staged["table"][k] = WordAt(TableAt + k - 1)
        BY DEF Inv, Copied
      <4>3. 1 .. Len(staged["table"]) \subseteq 1 .. Table /\ Len(staged["table"]) <= Table
        BY <2>2, <4>1, Sizes
      <4>4. QED
        BY <2>2, <3>2, <4>1, <4>2, <4>3, SentWords
    <3>3. CASE p = "isp"
      <4>1. Len(staged["isp"]) = IF pc = "isp" THEN n ELSE IF pc = "done" THEN IspWords ELSE 0
        BY <2>2 DEF Inv, Lengths
      <4>2. \A k \in 1 .. Len(staged["isp"]) : staged["isp"][k] = WordAt(TableAt + Table + k - 1)
        BY DEF Inv, Copied
      <4>3. 1 .. Len(staged["isp"]) \subseteq 1 .. IspWords /\ Len(staged["isp"]) <= IspWords
        BY <2>2, <4>1, Sizes
      <4>4. QED
        BY <2>2, <3>3, <4>1, <4>2, <4>3, SentWords
    <3>4. QED
      BY <3>1, <3>2, <3>3 DEF Places
  <2>4. QED
    BY <2>1, <2>3, Prefix
<1>2. QED
  BY <1>1, Invariance, PTL

(* An upload that lost nothing is refused only where its header ends with  *)
(* an address, which takes the first word of the BSP for its value         *)
(* (board.c:145, 182-184).                                                 *)
THEOREM AlwaysRefusedForCause == Spec => []RefusedForCause
<1>1. IInv => RefusedForCause
  BY DEF IInv, Inv
<1>2. QED
  BY <1>1, Invariance, PTL
===============================================================================
