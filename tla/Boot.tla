--------------------------------- MODULE Boot ---------------------------------
(***************************************************************************)
(* The ROM from reset to main: start.S and board.c.  Some header, from     *)
(* UART, an SD card or page 0 of the flash, is a list of register writes   *)
(* that brings up the DDR2; the ROM then copies itself there, checks the   *)
(* copy, maps it to 0 and enters main.  An upload also stages its data in  *)
(* the DDR.                                                                *)
(*                                                                         *)
(* The DDR2 controllers come up on their own after a header has written    *)
(* their command register, and the sender at the other end of the UART     *)
(* waits for nobody.  A reset leaves the DDR and the SRAM of the NAND      *)
(* controller as they are, or loses them: Init has every mixture.          *)
(***************************************************************************)
EXTENDS Integers

CONSTANTS
  HdrWords,   \* words of a header that are parsed, 124 in the code
  Headers,    \* the headers that a UART, a card or the flash holds
  Backing,    \* the DDR2 controller behind 0x20000000, where code and data go
  MaxLost     \* bound: words or bytes the UART loses

Ddr   == {"A", "B", "C"}
Words == Ddr \cup {"reg", "plain"}   \* a command register, another address, no address

ASSUME BootAssumption ==
  /\ HdrWords \in Nat \ {0} /\ Headers \subseteq [1 .. HdrWords -> Words]
  /\ Backing \in Ddr /\ MaxLost \in Nat

VARIABLES
  pc,      \* where the program is
  src,     \* whose header is or was parsed: "none", "uart", "sd" or "nand"
  hdr,     \* the words of that header
  i,       \* the loop counter over them
  asked,   \* DDR2_A, DDR2_B, DDR2_C: controllers the header has started
  ddr,     \* state of the controllers
  sram2,   \* *SD_NANDCSRAM2: was an upload read?
  bsp,     \* what the DDR holds at ISP_Base: the first 128 words
  rest,    \* and lookup table and ISP
  code,    \* does the DDR hold a copy of the ROM?
  remap,   \* REMAP of the AHB controller: is the DDR at 0?
  slip     \* words or bytes the ROM is ahead of the sender's layout

streamVars == <<src, hdr, i, asked, slip>>
memVars    == <<bsp, rest, code>>
vars == <<pc, streamVars, ddr, sram2, memVars, remap>>

PCs == {"reset", "strap", "bsp_strap", "words", "uart_wait", "uart_bsp", "uart_lt",
        "uart_isp", "sd_bsp", "sd_isp", "tst", "ddr2", "nand_wait", "ahbc",
        "copy", "verify", "main", "dead"}

(* What a part of the staging area holds: what it held at reset, no magic, *)
(* what was sent, the same words but some, or not all of one upload.       *)
Staged == {"old", "none", "sent", "slipped", "torn"}

TypeOK ==
  /\ pc \in PCs
  /\ src \in {"none", "uart", "sd", "nand"}
  /\ hdr \in [1 .. HdrWords -> Words]
  /\ i \in 0 .. HdrWords + 1
  /\ asked \in SUBSET Ddr
  /\ ddr \in [Ddr -> {"off", "starting", "ready"}]
  /\ sram2 \in BOOLEAN
  /\ bsp \in Staged /\ rest \in Staged
  /\ code \in BOOLEAN /\ remap \in BOOLEAN
  /\ slip \in 0 .. MaxLost + 1

Init ==
  /\ pc = "reset" /\ src = "none" /\ i = 0 /\ asked = {} /\ slip = 0
  /\ hdr = [k \in 1 .. HdrWords |-> "plain"]
  /\ ddr \in [Ddr -> {"off", "ready"}]
  /\ sram2 \in BOOLEAN
  /\ bsp \in {"old", "none"} /\ rest = "old"
  /\ code \in BOOLEAN /\ remap \in BOOLEAN
  /\ remap => code /\ ddr[Backing] = "ready"

-----------------------------------------------------------------------------
Goto(from, to) == pc = from /\ pc' = to

(* A write to the DDR is lost while its controller is not ready. *)
Landed(old, new) == IF ddr[Backing] = "ready" THEN new ELSE old

(* reset: the chip answers READ_ID with an ID; or "No NAND Flash". *)
InitNandc ==
  /\ Goto("reset", "strap") \/ Goto("reset", "dead")
  /\ UNCHANGED <<streamVars, ddr, sram2, memVars, remap>>

(* SCU_BOOT_STRAP *)
Strap ==
  /\ Goto("strap", "bsp_strap") \/ Goto("strap", "ddr2")
  /\ UNCHANGED <<streamVars, ddr, sram2, memVars, remap>>

-----------------------------------------------------------------------------
(* board_bsp_strap: a card, or the UART. *)
Begin(from, s) ==
  Goto(from, "words") /\ src' = s /\ hdr' \in Headers /\ i' = 0 /\ asked' = {}

(* Sector 0 of the card has the magic. *)
SdFormat ==
  /\ Begin("bsp_strap", "sd")
  /\ sram2' = TRUE
  /\ UNCHANGED <<slip, ddr, memVars, remap>>

(* Mutant: *SD_NANDCSRAM2 keeps what it holds. *)
SdNoFormatStale ==
  /\ Goto("bsp_strap", "tst")
  /\ UNCHANGED <<streamVars, ddr, sram2, memVars, remap>>

(* "SD card exist, but No AVI ISP format" *)
SdNoFormat ==
  /\ Goto("bsp_strap", "tst")
  /\ sram2' = FALSE
  /\ UNCHANGED <<streamVars, ddr, memVars, remap>>

(* The UART sends the magic and three words first. *)
UartFormat ==
  /\ Begin("bsp_strap", "uart")
  /\ UNCHANGED <<slip, ddr, sram2, memVars, remap>>

(* "Upgrade failed": sector 0 cannot be read, or the UART sends no magic. *)
UpgradeFailed ==
  /\ Goto("bsp_strap", "dead")
  /\ UNCHANGED <<streamVars, ddr, sram2, memVars, remap>>

(* One turn of the loop over the header: a word with a top byte is an      *)
(* address, and the word after it, whatever it is, its value.              *)
IsAddress(w) == w # "plain"

Word ==
  LET w == hdr[i + 1] IN
  /\ pc = "words" /\ i < HdrWords
  /\ i' = IF IsAddress(w) THEN i + 2 ELSE i + 1
  /\ asked' = asked \cup ({w} \cap Ddr)
  /\ ddr' = [d \in Ddr |-> IF d = w THEN "starting" ELSE ddr[d]]
  /\ pc' = IF src = "nand" /\ w \in Ddr THEN "nand_wait" ELSE "words"
  /\ UNCHANGED <<src, hdr, slip, sram2, memVars, remap>>

(* Mutant: DDR2_C is waited for whether it was started or not. *)
WaitedForC == {"C"}

(* After the loop the upload paths wait for one controller. *)
Waited == IF "C" \in asked THEN {"C"} ELSE IF "A" \in asked THEN {"A"} ELSE asked \cap {"B"}
Up(ds) == \A d \in ds : ddr[d] = "ready"

(* Mutant: every word of the header counts as ahead. *)
UartParsedAhead ==
  /\ src = "uart" /\ i >= HdrWords
  /\ Goto("words", "uart_wait")
  /\ slip' = slip + i
  /\ UNCHANGED <<src, hdr, i, asked, ddr, sram2, memVars, remap>>

(* The value of an address in the last word was the word after the header. *)
UartParsed ==
  /\ src = "uart" /\ i >= HdrWords
  /\ Goto("words", "uart_wait")
  /\ slip' = slip + (i - HdrWords)
  /\ UNCHANGED <<src, hdr, i, asked, ddr, sram2, memVars, remap>>

(* The sender goes on; what the FIFO cannot hold is lost. *)
UartOverrun ==
  /\ pc = "uart_wait" /\ ~Up(Waited) /\ slip < MaxLost
  /\ slip' = slip + 1
  /\ UNCHANGED <<pc, src, hdr, i, asked, ddr, sram2, memVars, remap>>

(* Mutant: *SD_NANDCSRAM2 is not set. *)
UartReadyUnflagged ==
  /\ Goto("uart_wait", "uart_bsp") /\ Up(Waited)
  /\ bsp' = Landed(bsp, "none")
  /\ UNCHANGED <<streamVars, ddr, sram2, rest, code, remap>>

(* *ISP_Base = 0 *)
UartReady ==
  /\ Goto("uart_wait", "uart_bsp") /\ Up(Waited)
  /\ bsp' = Landed(bsp, "none")
  /\ sram2' = TRUE
  /\ UNCHANGED <<streamVars, ddr, rest, code, remap>>

Received == IF slip = 0 THEN "sent" ELSE "slipped"

ReadUartBsp ==
  /\ Goto("uart_bsp", "uart_lt")
  /\ bsp' = Landed(bsp, Received)
  /\ UNCHANGED <<streamVars, ddr, sram2, rest, code, remap>>

(* Mutant: the magic is not compared. *)
ReadUartLookuptableBlind ==
  /\ Goto("uart_lt", "uart_isp")
  /\ rest' = Landed(rest, "torn")
  /\ UNCHANGED <<streamVars, ddr, sram2, bsp, code, remap>>

(* The magic of the lookup table is read back from the DDR. *)
ReadUartLookuptable ==
  /\ Goto("uart_lt", IF slip = 0 /\ ddr[Backing] = "ready" THEN "uart_isp" ELSE "dead")
  /\ rest' = Landed(rest, "torn")
  /\ UNCHANGED <<streamVars, ddr, sram2, bsp, code, remap>>

ReadUartIsp ==
  /\ Goto("uart_isp", "tst")
  /\ rest' = Landed(rest, Received)
  /\ UNCHANGED <<streamVars, ddr, sram2, bsp, code, remap>>

SdParsed ==
  /\ src = "sd" /\ i >= HdrWords /\ Up(Waited)
  /\ Goto("words", "sd_bsp")
  /\ bsp' = Landed(bsp, "none")
  /\ UNCHANGED <<streamVars, ddr, sram2, rest, code, remap>>

(* Sectors 0 and 1: the first 128 words and the lookup table. *)
ReadSdBsp ==
  /\ Goto("sd_bsp", "sd_isp")
  /\ bsp' = Landed(bsp, "sent") /\ rest' = Landed(rest, "torn")
  /\ UNCHANGED <<streamVars, ddr, sram2, code, remap>>

(* read_sd_bsp_lt_isp *)
ReadSdIsp ==
  /\ Goto("sd_isp", "tst")
  /\ rest' = Landed(rest, "sent")
  /\ UNCHANGED <<streamVars, ddr, sram2, bsp, code, remap>>

(* What bsp and rest may be when an upload ends early: some of the words   *)
(* being read are in the DDR.                                              *)
Cut ==
  {<<bsp, rest>>} \cup
  IF pc = "uart_bsp" THEN {<<Landed(bsp, "torn"), rest>>}
  ELSE IF pc = "sd_bsp"
       THEN {<<Landed(bsp, "torn"), rest>>, <<Landed(bsp, "sent"), Landed(rest, "torn")>>}
  ELSE IF pc \in {"uart_lt", "uart_isp", "sd_isp"} THEN {<<bsp, Landed(rest, "torn")>>}
  ELSE {}

(* "Upgrade failed": SDCardReadSector gives up in the middle. *)
SdReadFailed ==
  /\ pc \in {"sd_bsp", "sd_isp"} /\ pc' = "dead"
  /\ \E c \in Cut : bsp' = c[1] /\ rest' = c[2]
  /\ UNCHANGED <<streamVars, ddr, sram2, code, remap>>

-----------------------------------------------------------------------------
(* tst r4, #1 *)
TestSram2 ==
  /\ Goto("tst", IF sram2 THEN "ahbc" ELSE "ddr2")
  /\ UNCHANGED <<streamVars, ddr, sram2, memVars, remap>>

(* board_init_ddr2: page 0 of the flash begins with the magic; or "No BSP". *)
InitDdr2 ==
  /\ Begin("ddr2", "nand")
  /\ UNCHANGED <<slip, ddr, sram2, memVars, remap>>
NoBsp ==
  /\ Goto("ddr2", "dead")
  /\ UNCHANGED <<streamVars, ddr, sram2, memVars, remap>>

(* Mutant: *ISP_Base is not cleared. *)
NandReadyUncleared ==
  /\ Goto("nand_wait", "words")
  /\ ddr[hdr[i - 1]] = "ready"
  /\ UNCHANGED <<streamVars, ddr, sram2, memVars, remap>>

(* Here each controller is waited for when it is started; of the three     *)
(* branches only DDR2_C's clears *ISP_Base.                                *)
NandReady ==
  /\ Goto("nand_wait", "words")
  /\ ddr[hdr[i - 1]] = "ready"
  /\ bsp' = IF hdr[i - 1] = "C" THEN Landed(bsp, "none") ELSE bsp
  /\ UNCHANGED <<streamVars, ddr, sram2, rest, code, remap>>

NandParsed ==
  /\ src = "nand" /\ i >= HdrWords
  /\ Goto("words", "ahbc")
  /\ UNCHANGED <<streamVars, ddr, sram2, memVars, remap>>

-----------------------------------------------------------------------------
(* The REMAP bit; init_ahbc. *)
InitAhbc ==
  /\ Goto("ahbc", IF remap THEN "main" ELSE "copy")
  /\ UNCHANGED <<streamVars, ddr, sram2, memVars, remap>>

CopyCode ==
  /\ Goto("copy", "verify")
  /\ code' = Landed(code, TRUE)
  /\ UNCHANGED <<streamVars, ddr, sram2, bsp, rest, remap>>

(* Mutant: the copy is not compared. *)
VerifyCodeBlind ==
  /\ Goto("verify", "main")
  /\ remap' = TRUE
  /\ UNCHANGED <<streamVars, ddr, sram2, memVars>>

(* The copy is read back and compared; "No Memory" if it differs. *)
VerifyCode ==
  /\ Goto("verify", IF code /\ ddr[Backing] = "ready" THEN "main" ELSE "dead")
  /\ remap' = (pc' = "main")
  /\ UNCHANGED <<streamVars, ddr, sram2, memVars>>

-----------------------------------------------------------------------------
(* External: a controller that was started becomes ready. *)
DdrUp ==
  /\ \E d \in Ddr : ddr[d] = "starting" /\ ddr' = [ddr EXCEPT ![d] = "ready"]
  /\ UNCHANGED <<pc, streamVars, sram2, memVars, remap>>

Stopped == pc \in {"main", "dead"} /\ UNCHANGED vars

Rom ==
  \/ InitNandc \/ Strap \/ SdFormat \/ SdNoFormat \/ UartFormat \/ UpgradeFailed
  \/ Word \/ UartParsed \/ UartReady \/ ReadUartBsp \/ ReadUartLookuptable
  \/ ReadUartIsp \/ SdParsed \/ ReadSdBsp \/ ReadSdIsp \/ SdReadFailed
  \/ TestSram2 \/ InitDdr2 \/ NoBsp \/ NandReady \/ NandParsed \/ InitAhbc \/ CopyCode \/ VerifyCode

Next == Rom \/ UartOverrun \/ DdrUp \/ Stopped

Spec == Init /\ [][Next]_vars
Fairness == WF_vars(Rom) /\ WF_vars(DdrUp)

-----------------------------------------------------------------------------
(* start.S:109-119, 282-293: whatever the header brought up, and when, main *)
(* runs only out of a DDR that holds the ROM's code and is up, but for a   *)
(* controller that a header starts anew and that the ROM does not wait for.*)
CodeVerified ==
  pc = "main" => code /\ remap /\ (ddr[Backing] = "ready" \/ Backing \in asked \ Waited)

(* start.S:97-107: the copy to the DDR is never tried before a header was  *)
(* applied, though the flag that says so lies in an SRAM nobody clears, and*)
(* an upload's header is never followed by the one in the flash, which     *)
(* would clear what was staged.                                            *)
SomeHeader == pc \in {"ahbc", "copy", "verify", "main"} => src # "none"
OneHeader  == [][src # "none" => src' = src]_src

(* board.c:307-328: an upload that gets to main is in the DDR as it was    *)
(* sent, whatever a UART's sender lost and wherever the header ends, unless*)
(* the header starts the DDR behind ISP_Base and the ROM waits for another.*)
UploadWhole ==
  pc = "main" /\ src \in {"uart", "sd"} /\ Backing \notin asked \ Waited =>
    bsp = "sent" /\ rest = "sent"

(* A NAND boot whose header starts the DDR2_C behind ISP_Base leaves no    *)
(* magic of an earlier upload for main to find (board.c:381-383).          *)
StaleMagicCleared ==
  pc = "main" /\ src = "nand" /\ Backing = "C" /\ "C" \in asked => bsp = "none"

(* Every boot gets to main or to an error loop: the ROM waits only for     *)
(* controllers that a header has started.                                  *)
BootDecides == pc = "reset" ~> pc \in {"main", "dead"}
=============================================================================
