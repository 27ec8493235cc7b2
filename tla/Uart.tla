--------------------------------- MODULE Uart ---------------------------------
(***************************************************************************)
(* An upload over the UART byte by byte: serial_getw of serial.c under the *)
(* read_uart_* of board.c.  The sender waits for nobody.  While the ROM    *)
(* polls, it empties the FIFO faster than the line fills it; while it      *)
(* prints its greeting or waits for the DDR2, what does not fit is lost.   *)
(*                                                                         *)
(* The sender's words are: header, the same again (the BSP), lookup table  *)
(* and ISP.  Header and lookup table begin with the same magic, which is   *)
(* nowhere else in them.                                                   *)
(***************************************************************************)
EXTENDS Naturals, Sequences

CONSTANTS
  Bytes,     \* bytes of a word, 4 in the code
  Skipped,   \* words behind the magic of the header, 3 in the code
  Parsed,    \* and words that are parsed, 124
  Table,     \* words of the lookup table, 128
  IspWords,  \* words of the ISP
  Depth,     \* bytes the FIFO holds
  MaxLost    \* bound: bytes that are lost

HdrWords   == 1 + Skipped + Parsed
TableAt    == 2 * HdrWords
TotalBytes == Bytes * (TableAt + Table + IspWords)

(* The FIFO, of 16 bytes in a UART of this kind, holds less than a header. *)
(* What is lost, and one word the header may eat, is less than what follows*)
(* the magic of the lookup table.                                          *)
ASSUME UartAssumption ==
  /\ {Bytes, Skipped, Parsed, IspWords, Depth} \subseteq Nat \ {0}
  /\ Table \in Nat /\ Table > 3 /\ MaxLost \in Nat
  /\ Depth <= Bytes * (Skipped + Parsed)
  /\ MaxLost + Bytes <= Bytes * (Table - 1 + IspWords)

VARIABLES
  pc,      \* what the ROM is reading or waiting for
  reg,     \* Reg of serial_getw: the bytes of the word so far
  n,       \* words read by the loop at pc
  staged,  \* the words at ISP_Base, ISP_Base + 128 and ISP_Base + 1024
  fifo,    \* the receive FIFO
  sent,    \* bytes the sender has sent
  lost     \* and how many of them were lost

uartVars == <<pc, reg, n, staged, fifo, sent, lost>>
lineVars == <<fifo, sent, lost>>

(* The loops around serial_getw, and how many words each of them reads. *)
Polls  == {"magic", "skip", "parse", "value", "bsp", "table", "isp"}
LoopWords == [p \in Polls |->
  CASE p = "magic" -> 1 [] p = "skip" -> Skipped [] p = "parse" -> Parsed [] p = "value" -> Parsed + 1
    [] p = "bsp" -> HdrWords [] p = "table" -> Table [] p = "isp" -> IspWords]
Places == {"bsp", "table", "isp"}

(* The content of the word at each place of the upload. *)
Content(w) == IF w < TableAt THEN w % HdrWords ELSE IF w = TableAt THEN 0 ELSE w
ByteAt(p)  == Content(p \div Bytes) * Bytes + (p % Bytes)
WordAt(w)  == [b \in 1 .. Bytes |-> Content(w) * Bytes + b - 1]
Magic      == WordAt(0)

UartTypeOK ==
  /\ pc \in Polls \cup {"greet", "wait", "done", "dead"}
  /\ Len(reg) \in 0 .. Bytes /\ Len(fifo) \in 0 .. Depth
  /\ n \in Nat /\ (IF pc \in Polls THEN n < LoopWords[pc] ELSE n = 0)
  /\ DOMAIN staged = Places
  /\ sent \in 0 .. TotalBytes /\ lost \in 0 .. MaxLost

Init ==
  /\ pc = "greet" /\ reg = <<>> /\ n = 0
  /\ staged = [p \in Places |-> <<>>]
  /\ fifo = <<>> /\ sent = 0 /\ lost = 0

-----------------------------------------------------------------------------
(* The sender, and the overrun of the FIFO. *)
Fits     == Len(fifo) < Depth
Overruns == ~Fits /\ pc \in {"greet", "wait"} /\ lost < MaxLost

Send ==
  /\ sent < TotalBytes /\ sent' = sent + 1
  /\ \/ Fits     /\ fifo' = Append(fifo, ByteAt(sent)) /\ lost' = lost
     \/ Overruns /\ fifo' = fifo /\ lost' = lost + 1
  /\ UNCHANGED <<pc, reg, n, staged>>

(* Mutant: the first byte goes to the top of the word. *)
ShiftedUp(r, b) == <<b>> \o r

(* (rbr << 8k) + Reg *)
Shifted(r, b) == Append(r, b)

GetByte ==
  /\ pc \in Polls /\ Len(reg) < Bytes /\ fifo # <<>>
  /\ reg' = Shifted(reg, Head(fifo)) /\ fifo' = Tail(fifo)
  /\ UNCHANGED <<pc, n, staged, sent, lost>>

-----------------------------------------------------------------------------
(* serial_getw has returned to the loop at "at". *)
Got(at) == pc = at /\ Len(reg) = Bytes /\ reg' = <<>> /\ UNCHANGED lineVars

(* Mutant: the loop reads one word more. *)
LoopOver(words, next) ==
  IF n < words THEN n' = n + 1 /\ pc' = pc ELSE n' = 0 /\ pc' = next

(* The loop goes on, or the next one starts. *)
Loop(words, next) ==
  IF n + 1 < words THEN n' = n + 1 /\ pc' = pc ELSE n' = 0 /\ pc' = next

Greeted ==
  /\ pc = "greet" /\ pc' = "magic"
  /\ UNCHANGED <<reg, n, staged, lineVars>>

GetMagic ==
  /\ Got("magic")
  /\ pc' = IF reg = Magic THEN "skip" ELSE "dead"
  /\ UNCHANGED <<n, staged>>

Skip == Got("skip") /\ Loop(Skipped, "parse") /\ UNCHANGED staged

(* A word of the header, whatever its top byte is.  What a header that has *)
(* lost a byte writes, and where, is left out.                             *)
Parse ==
  /\ Got("parse")
  /\ \/ Loop(Parsed, "wait")
     \/ pc' = "value" /\ n' = n + 1
  /\ UNCHANGED staged

Value ==
  /\ Got("value")
  /\ IF n + 1 < Parsed THEN n' = n + 1 /\ pc' = "parse" ELSE n' = 0 /\ pc' = "wait"
  /\ UNCHANGED staged

(* The controller is up, if the header started one. *)
Ready ==
  /\ pc = "wait" /\ pc' = "bsp"
  /\ UNCHANGED <<reg, n, staged, lineVars>>

Store(p) == staged' = [staged EXCEPT ![p] = Append(@, reg)]

ReadBsp == Got("bsp") /\ Store("bsp") /\ Loop(HdrWords, "table")

(* The word at ISP_Base + 131 in words; of any other word the ROM may take *)
(* any number.                                                             *)
Announced(w) == IF w = WordAt(TableAt + 3) THEN {IspWords} ELSE 0 .. IspWords + 1

(* Mutant: the magic is not compared. *)
ReadTableBlind ==
  /\ Got("table") /\ Store("table")
  /\ Loop(Table, "isp")

(* Mutant: another word is read where the magic is missing. *)
ReadTableSearch ==
  /\ Got("table")
  /\ IF n = 0 /\ reg # Magic THEN UNCHANGED <<pc, n, staged>>
     ELSE Store("table") /\ Loop(Table, "isp")

(* read_uart_lookuptable compares the first word it has stored. *)
ReadTable ==
  /\ Got("table") /\ Store("table")
  /\ IF n = 0 /\ reg # Magic THEN pc' = "dead" /\ n' = n
     ELSE Loop(Table, "isp")

ReadIsp ==
  /\ Got("isp") /\ Store("isp")
  /\ \E words \in Announced(staged["table"][4]) : Loop(words, "done")

Rom == \/ Greeted \/ GetByte \/ GetMagic \/ Skip \/ Parse \/ Value \/ Ready
       \/ ReadBsp \/ ReadTable \/ ReadIsp

(* The program is over, or polls for a byte that does not come. *)
Stopped == pc \in {"done", "dead"} /\ UNCHANGED uartVars
Starved == pc \in Polls /\ fifo = <<>> /\ UNCHANGED uartVars

Next == Send \/ Rom \/ Stopped \/ Starved
Spec == Init /\ [][Next]_uartVars /\ WF_uartVars(Send) /\ WF_uartVars(Rom)

-----------------------------------------------------------------------------
SentAt(p) ==
  CASE p = "bsp"   -> [k \in 1 .. HdrWords |-> WordAt(HdrWords + k - 1)]
    [] p = "table" -> [k \in 1 .. Table    |-> WordAt(TableAt + k - 1)]
    [] p = "isp"   -> [k \in 1 .. IspWords |-> WordAt(TableAt + Table + k - 1)]

(* board.c:152-225: the only words that are compared are the two magics,   *)
(* yet once the second one has been found every word in the DDR is the one *)
(* sent for that place: lost bytes and an address in the last word of the  *)
(* header cannot go unnoticed, at whatever byte of a word they set in.     *)
UploadIntact ==
  pc \in {"isp", "done"} \/ (pc = "table" /\ n > 0) =>
    \A p \in Places :
      /\ staged[p] = SubSeq(SentAt(p), 1, Len(staged[p]))
      /\ pc = "done" => staged[p] = SentAt(p)

(* board.c:145, 182-184: an upload that came through without a loss is     *)
(* refused only because the last word of its header was an address, which  *)
(* took the magic of the BSP for its value.                                *)
RefusedForCause ==
  pc = "dead" /\ lost = 0 => Len(staged["bsp"]) = HdrWords /\ staged["bsp"][1] = WordAt(1)

(* serial.c:63: nobody ends the wait for a byte that was lost, but the ROM *)
(* has seen the wrong magic before it asks for more than the sender has.   *)
UartDecides == pc = "greet" ~> pc \in {"done", "dead"}
=============================================================================
