------------------------------- MODULE SdUpload -------------------------------
(***************************************************************************)
(* An upload from an SD card: the SD branch of board_bsp_strap, with       *)
(* read_sd_format and read_sd_bsp_lt_isp (src/bsp/board.c), over the SD    *)
(* driver.  Sector 0 of the card is the header, sector 1 the lookup table  *)
(* with the length of the ISP, the ISP begins in sector 2.                 *)
(***************************************************************************)
EXTENDS Sdc

(* Header and lookup table are read in one call. *)
ASSUME UploadAssumption == MaxBlocks > 1

VARIABLES
  phase,    \* where board_bsp_strap is
  sram,     \* the block at SD_Header_BSP, whose registers were written
  low,      \* the blocks at ISP_Base
  isp       \* the blocks at ISP_Base + 1024, a sequence

uploadVars == <<phase, sram, low, isp>>
vars == <<sdcVars, uploadVars>>

TypeOK ==
  /\ SdcTypeOK
  /\ phase \in {"start", "init", "header", "format", "bsp", "isp", "done", "no_format", "failed"}

Init ==
  /\ SdcInit
  /\ phase = "start" /\ sram = Junk /\ low = <<Junk, Junk>> /\ isp = <<>>

-----------------------------------------------------------------------------
(* SDHostInterfaceInit returns nothing: sector 0 is read in any case. *)
Start == phase = "start" /\ HostInit /\ phase' = "init" /\ UNCHANGED <<sram, low, isp>>

ReadHeader ==
  /\ phase = "init" /\ CallReadSector(0, 1)
  /\ phase' = "header" /\ UNCHANGED <<sram, low, isp>>

Failed ==
  /\ phase \in {"header", "bsp", "isp"} /\ dpc = "idle" /\ ~result
  /\ phase' = "failed" /\ UNCHANGED <<sdcVars, sram, low, isp>>

Succeeded(p) == phase = p /\ dpc = "idle" /\ result

(* read_sd_format: with the magic, the registers of the header are written;*)
(* a block that came wrong may or may not have the magic.                  *)
Format ==
  /\ Succeeded("header")
  /\ phase' = "format" /\ sram' = buf[0] /\ UNCHANGED <<sdcVars, low, isp>>
NoFormat ==
  /\ Succeeded("header")
  /\ phase' = "no_format" /\ UNCHANGED <<sdcVars, sram, low, isp>>

ReadBsp ==
  /\ phase = "format" /\ CallReadSector(0, 2)
  /\ phase' = "bsp" /\ UNCHANGED <<sram, low, isp>>

(* (length >> 9) + 1 sectors, with the length read from the lookup table:  *)
(* the image may have any size, as may a wrong table.                      *)
ReadIsp ==
  /\ Succeeded("bsp")
  /\ \E n \in 1 .. MaxBlocks : CallReadSector(2, n)
  /\ low' = <<buf[0], buf[1]>>
  /\ phase' = "isp" /\ UNCHANGED <<sram, isp>>

Done ==
  /\ Succeeded("isp")
  /\ isp' = [k \in 1 .. count |-> buf[k - 1]]
  /\ phase' = "done" /\ UNCHANGED <<sdcVars, sram, low>>

Stopped == phase \in {"done", "no_format", "failed"} /\ UNCHANGED vars

Board == Start \/ ReadHeader \/ Failed \/ Format \/ NoFormat \/ ReadBsp \/ ReadIsp \/ Done
Driver == phase # "start" /\ SdDriver /\ UNCHANGED uploadVars

Next ==
  \/ Board
  \/ Driver
  \/ (Slot \/ ChangeCard) /\ UNCHANGED <<driverVars, uploadVars>>
  \/ Stopped

Spec == Init /\ [][Next]_vars
Fairness == WF_vars(Board \/ Driver) /\ WF_vars(Slot /\ UNCHANGED <<driverVars, uploadVars>>)

-----------------------------------------------------------------------------
(* SDHostInterfaceInit's failure is ignored (board.c:298), yet no block is  *)
(* asked for before a card was identified: with the block length and the   *)
(* way of addressing that fit the card that is going to answer.            *)
ReadsIdentified ==
  dpc \in {"blklen", "read"} =>
    /\ hostRca # 0 /\ blkLen = Length
    /\ In({"tran"}) => rca = hostRca /\ hostHc = (slot \in HighCap)

(* SDCardReadSector (sdc.c:382-422) that returns TRUE has read the sectors  *)
(* it was asked for, in order, from one card, and only the last can be     *)
(* wrong: a CRC error is noticed when the next block is read.              *)
From(c, s, b) == b.card = c /\ b.sector = s
SectorsRead ==
  dpc = "idle" /\ result /\ phase \in {"header", "bsp", "isp"} =>
    LET first == IF phase = "isp" THEN 2 ELSE 0 IN
    \A k \in 0 .. count - 1 :
      /\ From(buf[0].card, first + k, buf[k])
      /\ k < count - 1 => buf[k].right

(* An upload that is done came off one card as it is there, up to the last *)
(* sector of the ISP: the header was applied before its CRC was looked at, *)
(* but a wrong header never gets further than that (board.c:297-312).      *)
UploadRight ==
  phase = "done" =>
    /\ From(sram.card, 0, sram) /\ sram.right
    /\ \A k \in 1 .. 2 : From(sram.card, k - 1, low[k]) /\ low[k].right
    /\ \A k \in DOMAIN isp :
         From(sram.card, k + 1, isp[k]) /\ (k < count => isp[k].right)

(* The retry counts bound every loop: an upload ends, whatever the card    *)
(* does (sdc.c:100-282).                                                   *)
UploadDecides == phase = "start" ~> phase \in {"done", "no_format", "failed"}
=============================================================================
