--------------------------- MODULE SdUploadProofs ---------------------------
(***************************************************************************)
(* An upload from an SD card that is done came off one identified card, as *)
(* it is there: the proof.                                                 *)
(*                                                                         *)
(* The argument follows a card: while it answers to the address the host   *)
(* has, it is the card that was identified (Identified), so every sector   *)
(* comes from where it is said to (Where) and off the card that the header *)
(* came off (Laid).  And it follows an error: a block that came wrong      *)
(* leaves DATA_CRC_FAIL set, which nothing clears before the next block is *)
(* read, and that read fails (Line, Laid, Before).                         *)
(***************************************************************************)
EXTENDS SdUpload, TLAPS

InitPCs == {"cmd0", "ocr", "cid", "addr"}
CallPCs == {"set", "select", "settle", "stop", "blklen", "read", "batch", "fifo", "wait"}

(* A card that has an address, which a card that was put in has not. *)
Known == In({"stby", "tran", "data"})

(* Where the call began, how many blocks it has, and whether it has looked *)
(* at DATA_CRC_FAIL since the last of them.                                *)
First   == IF phase = "isp" THEN 2 ELSE 0
Last    == IF dpc = "wait" \/ (dpc \in {"settle", "stop"} /\ loop = "wait") THEN 1 ELSE 0
Stored  == count - left + Last
Checked == dpc = "fifo" \/ (dpc = "batch" /\ got > 0)
Active  == phase \in {"header", "bsp", "isp"} /\ (dpc \in CallPCs \/ (dpc = "idle" /\ result))

(* Right, or an error that is about to be found. *)
RightOr(b, found) == b.right \/ (crcFail /\ ~found)

BlockType == [card : Cards \cup {NoCard}, sector : Nat, right : BOOLEAN]

(* Truth values apart: Zenon has these, the SMT solver the rest. *)
Flags ==
  /\ busy \in BOOLEAN /\ right \in BOOLEAN /\ fifo \in BOOLEAN /\ crcFail \in BOOLEAN
  /\ hostHc \in BOOLEAN /\ noError \in BOOLEAN /\ result \in BOOLEAN
Values ==
  /\ slot \in Cards \cup {NoCard} /\ cst \in CardStates /\ rca \in Rcas \cup {0}
  /\ reading \in [card : Cards \cup {NoCard}, sector : Nat]
  /\ sent \in 0 .. Batches /\ changes \in 0 .. MaxChanges
  /\ hostRca \in Rcas \cup {0} /\ blkLen \in {0, Length}
  /\ tries \in Nat /\ polls \in 0 .. PollTries
  /\ addr \in Nat /\ left \in 0 .. MaxBlocks /\ count \in 0 .. MaxBlocks
  /\ got \in 0 .. Batches - 1
  /\ buf \in [0 .. MaxBlocks - 1 -> BlockType]
PCs ==
  /\ dpc \in InitPCs \cup CallPCs \cup {"off", "idle"}
  /\ loop \in {"set", "wait"}
  /\ phase \in {"start", "init", "header", "format", "bsp", "isp", "done", "no_format", "failed"}
  /\ sram \in BlockType

Types == Flags /\ Values /\ PCs

Sync ==
  /\ phase = "start" <=> dpc = "off"
  /\ dpc \in InitPCs => phase = "init"
  /\ dpc \in CallPCs => phase \in {"header", "bsp", "isp"}
  /\ phase = "init" => dpc \in InitPCs \cup {"idle"}
  /\ dpc \in {"set", "wait"} => loop = dpc
  /\ dpc = "select" => loop = "set"
  /\ dpc \in CallPCs => left \in 1 .. count /\ (loop = "set" => left = count)
  /\ Active /\ dpc = "idle" => left = 0
  /\ phase = "header" => count = 1
  /\ phase = "bsp" => count = 2
  /\ phase = "isp" => count > 0

Identified ==
  /\ rca # 0 <=> cst \in {"stby", "tran", "data"}
  /\ dpc \in InitPCs \cup {"off"} => hostRca = 0
  /\ dpc \in {"cid", "addr"} /\ In({"ready", "ident"}) => hostHc = (slot \in HighCap)
  /\ dpc \in CallPCs \ {"set"} => hostRca # 0
  /\ hostRca # 0 => blkLen = Length
  /\ hostRca # 0 /\ Known => rca = hostRca /\ hostHc = (slot \in HighCap)

(* The block that is being read. *)
Line ==
  dpc \in {"batch", "fifo"} =>
    /\ sent = got + IF fifo THEN 1 ELSE 0
    /\ sent = Batches => right \/ crcFail
    /\ Known => slot = reading.card

Where ==
  /\ dpc \in CallPCs /\ hostRca # 0 =>
       addr = IF hostHc THEN First + count - left ELSE (First + count - left) * Length
  /\ dpc \in {"batch", "fifo"} =>
       /\ reading.sector = First + count - left
       /\ Stored > 0 => reading.card = buf[0].card
       /\ phase \in {"bsp", "isp"} => reading.card = sram.card

(* The blocks of the call so far. *)
Laid ==
  Active =>
    /\ \A k \in 0 .. Stored - 1 :
         From(buf[0].card, First + k, buf[k]) /\ (k < Stored - 1 => buf[k].right)
    /\ Stored > 0 =>
         /\ Known => slot = buf[0].card
         /\ RightOr(buf[Stored - 1], Checked)
         /\ phase \in {"bsp", "isp"} => buf[0].card = sram.card

(* The blocks of the calls before. *)
Before ==
  /\ phase \in {"format", "bsp", "isp", "done"} => sram.sector = 0
  /\ phase \in {"format", "bsp", "isp"} /\ Known => slot = sram.card
  /\ phase = "format" => RightOr(sram, FALSE)
  /\ phase = "bsp" /\ Active => RightOr(sram, Checked \/ Stored > 0)
  /\ phase \in {"isp", "done"} =>
       /\ sram.right /\ low[1].right
       /\ \A k \in 1 .. 2 : From(sram.card, k - 1, low[k])
  /\ phase = "isp" /\ Active => RightOr(low[2], Checked \/ Stored > 0)
  /\ phase = "done" =>
       /\ low[2].right
       /\ \A k \in DOMAIN isp : From(sram.card, k + 1, isp[k]) /\ (k < count => isp[k].right)

Data == Line /\ Where /\ Laid /\ Before
IInv == Types /\ Sync /\ Identified /\ Data

USE CardAssumption, SdcAssumption, UploadAssumption

-----------------------------------------------------------------------------
LEMMA InitIInv == Init => IInv
<1> SUFFICES ASSUME Init PROVE IInv
  OBVIOUS
<1> USE DEF Init, SdcInit, SdCardInit, Junk, Nowhere
<1>1. Types
  <2>1. Flags
    BY Zenon DEF Flags
  <2>2. Values /\ PCs
    BY DEF Values, PCs, CardStates, BlockType, InitPCs, CallPCs
  <2>3. QED
    BY <2>1, <2>2 DEF Types
<1>2. Sync /\ Line /\ Where /\ Laid /\ Before
  BY DEF Sync, Line, Where, Laid, Before, Active, InitPCs, CallPCs
<1>3. Identified
  BY DEF Identified, InitPCs, CallPCs
<1>4. QED
  BY <1>1, <1>2, <1>3 DEF IInv, Data

-----------------------------------------------------------------------------
(* The types, step by step. *)
LEMMA JunkBlocks == [k \in 0 .. MaxBlocks - 1 |-> Junk] \in [0 .. MaxBlocks - 1 -> BlockType]
BY DEF Junk, BlockType

LEMMA TypesImplyTypeOK == Types => TypeOK
<1>1. reading \in [card : Cards \cup {NoCard}, sector : Nat] =>
        reading.card \in Cards \cup {NoCard} /\ reading.sector \in Nat
  OBVIOUS
<1>2. buf \in [0 .. MaxBlocks - 1 -> BlockType] => DOMAIN buf = 0 .. MaxBlocks - 1
  OBVIOUS
<1>3. QED
  BY <1>1, <1>2 DEF Types, TypeOK, SdcTypeOK, SdCardTypeOK, Flags, Values, PCs, InitPCs, CallPCs

LEMMA ValuesCall ==
  ASSUME Types, NEW a \in 0 .. 2, NEW n \in 1 .. MaxBlocks, CallReadSector(a, n)
  PROVE  Values'
<1>1. addr' \in Nat
  BY DEF CallReadSector, Types, Values, Length
<1>2. QED
  BY <1>1, JunkBlocks DEF CallReadSector, Types, Flags, Values, sdVars, cardVars, dataVars

LEMMA TypesBoard == Types /\ Board => Types'
<1> SUFFICES ASSUME Types, Board PROVE Types'
  OBVIOUS
<1> USE DEF Board, Start, HostInit, Failed, Format, NoFormat, Done, Succeeded, sdcVars, sdVars,
        cardVars, dataVars, driverVars
<1>1. Flags'
  BY Zenon DEF Types, Flags, ReadHeader, ReadBsp, ReadIsp, CallReadSector
<1>2. PCs'
  <2>1. buf[0] \in BlockType
    BY DEF Types, Values
  <2>2. QED
    BY <2>1 DEF Types, PCs, InitPCs, CallPCs, ReadHeader, ReadBsp, ReadIsp, CallReadSector
<1>3. Values'
  <2>1. CASE Start
    BY <2>1 DEF Types, Flags, Values
  <2>2. CASE ReadHeader
    BY <2>2, ValuesCall DEF ReadHeader
  <2>3. CASE ReadBsp
    BY <2>3, ValuesCall DEF ReadBsp
  <2>4. CASE ReadIsp
    BY <2>4, ValuesCall DEF ReadIsp
  <2>5. CASE Format \/ NoFormat \/ Failed \/ Done
    BY <2>5, Zenon DEF Types, Values
  <2>6. QED
    BY <2>1, <2>2, <2>3, <2>4, <2>5
<1>4. QED
  BY <1>1, <1>2, <1>3 DEF Types

LEMMA FlagsDriver == Flags /\ SdDriver => Flags'
<1> SUFFICES ASSUME Flags, SdDriver PROVE Flags'
  OBVIOUS
<1> USE DEF sdVars, cardVars, dataVars, HostKeeps, LoopKeeps, InitKeeps, Returns, Flags
<1>1. CASE HostInit
  BY <1>1, Zenon DEF HostInit
<1>2. CASE GoIdle
  BY <1>2, Zenon DEF GoIdle
<1>3. CASE GetOcr
  BY <1>3, Zenon DEF GetOcr, InitFails
<1>4. CASE AllSendCid \/ SendRelativeAddr
  BY <1>4, Zenon DEF AllSendCid, SendRelativeAddr
<1>5. CASE InitCommandFails
  BY <1>5, Zenon DEF InitCommandFails, InitFails
<1>6. CASE CommandFails \/ AskState \/ Standby
  BY <1>6, Zenon DEF CommandFails, AskState, Standby, CardSelects, CardSends, CardStops, SectorAt
<1>7. CASE SelectCard \/ LoopOverflow \/ Unsettled
  BY <1>7, Zenon DEF SelectCard, LoopOverflow, Unsettled, CardSelects
<1>8. CASE GiveUp \/ StopTransmission \/ SetBlkSize
  BY <1>8, Zenon DEF GiveUp, StopTransmission, SetBlkSize, CardStops
<1>9. CASE Transfer \/ Settled
  BY <1>9, Zenon DEF Transfer, Settled, InTransfer
<1>10. CASE ReadSingle \/ CheckCrc
  BY <1>10, Zenon DEF ReadSingle, CheckCrc, CardSends
<1>11. CASE TakeBatch \/ DataTimeout
  BY <1>11, Zenon DEF TakeBatch, DataTimeout
<1>12. QED
  BY <1>1, <1>2, <1>3, <1>4, <1>5, <1>6, <1>7, <1>8, <1>9, <1>10, <1>11 DEF SdDriver

LEMMA ValuesDriver == Types /\ Sync /\ SdDriver => Values'
<1> SUFFICES ASSUME Flags, Values, PCs, Sync, SdDriver PROVE Values'
  BY DEF Types
<1> USE DEF sdVars, cardVars, dataVars, HostKeeps, LoopKeeps, InitKeeps, Returns, Flags, Values,
        CardStates
<1>1. CASE HostInit
  BY <1>1 DEF HostInit
<1>2. CASE GoIdle
  BY <1>2 DEF GoIdle
<1>3. CASE GetOcr
  BY <1>3 DEF GetOcr, InitFails
<1>4. CASE AllSendCid
  BY <1>4 DEF AllSendCid
<1>5. CASE SendRelativeAddr
  BY <1>5 DEF SendRelativeAddr
<1>6. CASE InitCommandFails
  BY <1>6 DEF InitCommandFails, InitFails
<1>7. CASE CommandFails
  BY <1>7 DEF CommandFails, CardSelects, CardSends, CardStops, SectorAt, In, Length
<1>8. CASE AskState
  BY <1>8 DEF AskState
<1>9. CASE Transfer
  <2>1. left \in 1 .. count
    BY <1>9 DEF Transfer, PCs, Sync, CallPCs
  <2>2. QED
    BY <1>9, <2>1 DEF Transfer, InTransfer, Length
<1>10. CASE Standby
  BY <1>10 DEF Standby
<1>11. CASE SelectCard
  BY <1>11 DEF SelectCard, CardSelects
<1>12. CASE LoopOverflow
  BY <1>12 DEF LoopOverflow
<1>13. CASE Settled
  BY <1>13 DEF Settled, InTransfer, Sync, CallPCs, Length
<1>14. CASE Unsettled
  BY <1>14 DEF Unsettled
<1>15. CASE GiveUp
  BY <1>15 DEF GiveUp
<1>16. CASE StopTransmission
  BY <1>16 DEF StopTransmission, CardStops
<1>17. CASE SetBlkSize
  BY <1>17 DEF SetBlkSize
<1>18. CASE ReadSingle
  BY <1>18 DEF ReadSingle, SectorAt, In, Length, CardSends
<1>19. CASE CheckCrc
  BY <1>19 DEF CheckCrc
<1>20. CASE TakeBatch
  <2>1. [card |-> reading.card, sector |-> reading.sector, right |-> right] \in BlockType
    BY DEF BlockType
  <2>2. QED
    BY <1>20, <2>1 DEF TakeBatch
<1>21. CASE DataTimeout
  BY <1>21 DEF DataTimeout
<1>22. QED
  BY <1>1, <1>2, <1>3, <1>4, <1>5, <1>6, <1>7, <1>8, <1>9, <1>10, <1>11,
     <1>12, <1>13, <1>14, <1>15, <1>16, <1>17, <1>18, <1>19, <1>20, <1>21 DEF SdDriver

LEMMA PCsDriver == PCs /\ SdDriver /\ UNCHANGED uploadVars => PCs'
<1> SUFFICES ASSUME PCs, SdDriver, UNCHANGED uploadVars PROVE PCs'
  OBVIOUS
<1> USE DEF uploadVars, HostKeeps, LoopKeeps, InitKeeps, Returns, PCs, InitPCs, CallPCs
<1>1. CASE HostInit \/ GoIdle \/ GetOcr \/ AllSendCid
  BY <1>1 DEF HostInit, GoIdle, GetOcr, AllSendCid, InitFails
<1>2. CASE SendRelativeAddr \/ InitCommandFails
  BY <1>2 DEF SendRelativeAddr, InitCommandFails, InitFails
<1>3. CASE CommandFails \/ AskState \/ Standby \/ SelectCard \/ LoopOverflow \/ Unsettled
  BY <1>3 DEF CommandFails, AskState, Standby, SelectCard, LoopOverflow, Unsettled
<1>4. CASE GiveUp \/ StopTransmission \/ SetBlkSize \/ CheckCrc \/ DataTimeout
  BY <1>4 DEF GiveUp, StopTransmission, SetBlkSize, CheckCrc, DataTimeout
<1>5. CASE Transfer \/ Settled \/ ReadSingle \/ TakeBatch
  BY <1>5 DEF Transfer, Settled, InTransfer, ReadSingle, TakeBatch
<1>6. QED
  BY <1>1, <1>2, <1>3, <1>4, <1>5 DEF SdDriver

LEMMA TypesDriver == Types /\ Sync /\ Driver => Types'
BY FlagsDriver, ValuesDriver, PCsDriver DEF Types, Driver

LEMMA TypesSlot == Types /\ (Slot \/ ChangeCard) /\ UNCHANGED <<driverVars, uploadVars>> => Types'
<1> SUFFICES ASSUME Types, Slot \/ ChangeCard, UNCHANGED <<driverVars, uploadVars>> PROVE Types'
  OBVIOUS
<1> USE DEF Slot, PowerUp, SendBatch, BlockSent, ChangeCard, cardVars, dataVars, driverVars,
        uploadVars
<1>1. Flags'
  BY Zenon DEF Types, Flags
<1>2. Values'
  <2> USE DEF Types, Flags, Values, CardStates
  <2>1. CASE PowerUp
    BY <2>1
  <2>2. CASE SendBatch
    BY <2>2
  <2>3. CASE BlockSent
    BY <2>3
  <2>4. CASE ChangeCard
    BY <2>4
  <2>5. QED
    BY <2>1, <2>2, <2>3, <2>4
<1>3. PCs'
  BY DEF Types, PCs
<1>4. QED
  BY <1>1, <1>2, <1>3 DEF Types

-----------------------------------------------------------------------------
(* Where board_bsp_strap and the driver are. *)
LEMMA SyncBoard == Types /\ Sync /\ Board => Sync'
<1> SUFFICES ASSUME Types, Sync, Board PROVE Sync'
  OBVIOUS
<1> USE DEF Sync, Active, InitPCs, CallPCs
<1>1. CASE Start
  BY <1>1 DEF Start, HostInit
<1>2. CASE ReadHeader \/ ReadBsp
  BY <1>2 DEF ReadHeader, ReadBsp, CallReadSector
<1>3. CASE ReadIsp
  BY <1>3 DEF ReadIsp, CallReadSector
<1>4. CASE Failed
  BY <1>4 DEF Failed, sdcVars, driverVars
<1>5. CASE Format \/ NoFormat \/ Done
  BY <1>5 DEF Format, NoFormat, Done, Succeeded, sdcVars, driverVars
<1>6. QED
  BY <1>1, <1>2, <1>3, <1>4, <1>5 DEF Board

LEMMA SyncDriver == Types /\ Sync /\ Driver => Sync'
<1> SUFFICES ASSUME Flags, Values, PCs, Sync, phase # "start", SdDriver, UNCHANGED uploadVars
             PROVE Sync'
  BY DEF Types, Driver
<1> USE DEF PCs, Values, Sync, Active, InitPCs, CallPCs, uploadVars, HostKeeps, LoopKeeps,
        InitKeeps, Returns
<1>1. CASE HostInit
  BY <1>1 DEF HostInit
<1>2. CASE GoIdle
  BY <1>2 DEF GoIdle
<1>3. CASE GetOcr
  BY <1>3 DEF GetOcr, InitFails
<1>4. CASE AllSendCid
  BY <1>4 DEF AllSendCid
<1>5. CASE SendRelativeAddr
  BY <1>5 DEF SendRelativeAddr
<1>6. CASE InitCommandFails
  BY <1>6 DEF InitCommandFails, InitFails
<1>7. CASE CommandFails
  BY <1>7 DEF CommandFails, CardSelects, CardSends, CardStops, SectorAt
<1>8. CASE AskState
  BY <1>8 DEF AskState
<1>9. CASE Transfer
  BY <1>9 DEF Transfer, InTransfer
<1>10. CASE Standby
  BY <1>10 DEF Standby
<1>11. CASE SelectCard
  BY <1>11 DEF SelectCard, CardSelects
<1>12. CASE LoopOverflow
  BY <1>12 DEF LoopOverflow
<1>13. CASE Settled
  BY <1>13 DEF Settled, InTransfer
<1>14. CASE Unsettled
  BY <1>14 DEF Unsettled
<1>15. CASE GiveUp
  BY <1>15 DEF GiveUp
<1>16. CASE StopTransmission
  BY <1>16 DEF StopTransmission, CardStops
<1>17. CASE SetBlkSize
  BY <1>17 DEF SetBlkSize
<1>18. CASE ReadSingle
  BY <1>18 DEF ReadSingle, SectorAt, CardSends
<1>19. CASE CheckCrc
  BY <1>19 DEF CheckCrc
<1>20. CASE TakeBatch
  BY <1>20 DEF TakeBatch
<1>21. CASE DataTimeout
  BY <1>21 DEF DataTimeout
<1>22. QED
  BY <1>1, <1>2, <1>3, <1>4, <1>5, <1>6, <1>7, <1>8, <1>9, <1>10, <1>11,
     <1>12, <1>13, <1>14, <1>15, <1>16, <1>17, <1>18, <1>19, <1>20, <1>21 DEF SdDriver

LEMMA SyncSlot == Sync /\ (Slot \/ ChangeCard) /\ UNCHANGED <<driverVars, uploadVars>> => Sync'
BY DEF Sync, Active, InitPCs, CallPCs, driverVars, uploadVars

-----------------------------------------------------------------------------
(* A card that answers to the host's address is the one it identified. *)
LEMMA IdentifiedBoard == Types /\ Sync /\ Identified /\ Board => Identified'
<1> SUFFICES ASSUME Types, Sync, Identified, Board PROVE Identified'
  OBVIOUS
<1> USE DEF Identified, In, Known, InitPCs, CallPCs
<1>1. CASE Start
  BY <1>1 DEF Start, HostInit, cardVars, Types, Values
<1>2. CASE ReadHeader \/ ReadBsp \/ ReadIsp
  BY <1>2 DEF ReadHeader, ReadBsp, ReadIsp, CallReadSector, sdVars, cardVars
<1>3. CASE Failed \/ Format \/ NoFormat \/ Done
  BY <1>3 DEF Failed, Format, NoFormat, Done, Succeeded, sdcVars, sdVars, cardVars, driverVars
<1>4. QED
  BY <1>1, <1>2, <1>3 DEF Board

LEMMA IdentifiedDriver == Types /\ Sync /\ Identified /\ Driver => Identified'
<1> SUFFICES ASSUME Flags, Values, PCs, Sync, Identified, phase # "start", SdDriver,
                    UNCHANGED uploadVars
             PROVE Identified'
  BY DEF Types, Driver
<1> USE DEF Flags, Values, PCs, Sync, Identified, In, Addressed, Known, InitPCs, CallPCs, uploadVars, sdVars,
        cardVars, HostKeeps, LoopKeeps, InitKeeps, Returns
<1>1. CASE HostInit
  BY <1>1 DEF HostInit
<1>2. CASE GoIdle
  BY <1>2 DEF GoIdle
<1>3. CASE GetOcr
  BY <1>3 DEF GetOcr, InitFails
<1>4. CASE AllSendCid
  BY <1>4 DEF AllSendCid
<1>5. CASE SendRelativeAddr
  BY <1>5 DEF SendRelativeAddr
<1>6. CASE InitCommandFails
  BY <1>6 DEF InitCommandFails, InitFails
<1>7. CASE CommandFails
  BY <1>7 DEF CommandFails, CardSelects, CardSends, CardStops, SectorAt
<1>8. CASE AskState
  BY <1>8 DEF AskState
<1>9. CASE Transfer
  BY <1>9 DEF Transfer, InTransfer
<1>10. CASE Standby
  BY <1>10 DEF Standby
<1>11. CASE SelectCard
  BY <1>11 DEF SelectCard, CardSelects
<1>12. CASE LoopOverflow
  BY <1>12 DEF LoopOverflow
<1>13. CASE Settled
  BY <1>13 DEF Settled, InTransfer
<1>14. CASE Unsettled
  BY <1>14 DEF Unsettled
<1>15. CASE GiveUp
  BY <1>15 DEF GiveUp
<1>16. CASE StopTransmission
  BY <1>16 DEF StopTransmission, CardStops
<1>17. CASE SetBlkSize
  BY <1>17 DEF SetBlkSize
<1>18. CASE ReadSingle
  BY <1>18 DEF ReadSingle, SectorAt, CardSends
<1>19. CASE CheckCrc
  BY <1>19 DEF CheckCrc
<1>20. CASE TakeBatch
  BY <1>20 DEF TakeBatch
<1>21. CASE DataTimeout
  BY <1>21 DEF DataTimeout
<1>22. QED
  BY <1>1, <1>2, <1>3, <1>4, <1>5, <1>6, <1>7, <1>8, <1>9, <1>10, <1>11,
     <1>12, <1>13, <1>14, <1>15, <1>16, <1>17, <1>18, <1>19, <1>20, <1>21 DEF SdDriver

LEMMA IdentifiedSlot ==
  Types /\ Identified /\ (Slot \/ ChangeCard) /\ UNCHANGED <<driverVars, uploadVars>> => Identified'
<1> SUFFICES ASSUME Types, Identified, Slot \/ ChangeCard, UNCHANGED <<driverVars, uploadVars>>
             PROVE Identified'
  OBVIOUS
<1> USE DEF Identified, In, Known, InitPCs, CallPCs, driverVars, cardVars
<1>1. CASE PowerUp \/ SendBatch \/ BlockSent
  BY <1>1 DEF PowerUp, SendBatch, BlockSent
<1>2. CASE ChangeCard
  BY <1>2 DEF ChangeCard
<1>3. QED
  BY <1>1, <1>2 DEF Slot

-----------------------------------------------------------------------------
(* What was read: lemmas for steps that read nothing. *)
LEMMA DataQuiet ==
  ASSUME phase' \in {"start", "init", "no_format", "failed"}, dpc' \notin CallPCs
  PROVE  Data'
BY DEF Data, Line, Where, Laid, Before, Active, CallPCs

LEMMA DataReturnsFalse ==
  ASSUME Sync, Data, dpc \in CallPCs, dpc' = "idle", result' = FALSE,
         Known' => Known, UNCHANGED <<slot, uploadVars>>
  PROVE  Data'
<1>1. phase' \in {"header", "bsp", "isp"} /\ ~Active'
  BY DEF Sync, uploadVars, Active, CallPCs
<1>2. Line' /\ Where' /\ Laid'
  BY <1>1 DEF Line, Where, Laid, CallPCs
<1>3. Before'
  BY <1>1, Zenon DEF Data, Before, Known, In, uploadVars
<1>4. QED
  BY <1>2, <1>3 DEF Data

LEMMA DataWithin ==
  ASSUME Sync, Data, dpc \in CallPCs \ {"batch", "fifo"}, dpc' \in CallPCs \ {"batch", "fifo"},
         Last' = Last, Known' => Known,
         UNCHANGED <<slot, crcFail, hostRca, hostHc, addr, left, count, buf, uploadVars>>
  PROVE  Data'
<1>1. /\ Active /\ Active' /\ ~Checked /\ ~Checked' /\ Stored' = Stored /\ First' = First
      /\ UNCHANGED <<phase, sram, low, isp>>
  BY DEF Sync, Active, Checked, Stored, First, CallPCs, uploadVars
<1>2. Line' /\ Where'
  BY <1>1 DEF Data, Line, Where
<1>3. Laid'
  BY <1>1 DEF Data, Laid, RightOr, From
<1>4. Before'
  BY <1>1 DEF Data, Before, RightOr, From
<1>5. QED
  BY <1>2, <1>3, <1>4 DEF Data

(* The calls of board_bsp_strap, and what it takes from them. *)
LEMMA DataCall ==
  ASSUME Types, Identified, NEW a \in 0 .. 2, NEW n \in 1 .. MaxBlocks, CallReadSector(a, n),
         phase' \in {"header", "bsp", "isp"}, First' = a, Before'
  PROVE  Data'
<1>1. /\ Stored' = 0 /\ dpc' = "set" /\ left' = count' /\ hostRca' = hostRca
      /\ hostHc' = hostHc /\ blkLen' = blkLen
      /\ addr' = IF hostHc THEN a ELSE a * blkLen
  BY DEF CallReadSector, Stored, Last
<1>2. hostRca # 0 => addr' = IF hostHc THEN a ELSE a * Length
  BY <1>1 DEF Identified
<1>3. a + count' - left' = a
  BY DEF CallReadSector
<1>4. Where'
  BY <1>1, <1>2, <1>3 DEF Where
<1>5. Line' /\ Laid'
  BY <1>1 DEF Line, Laid
<1>6. QED
  BY <1>4, <1>5 DEF Data

LEMMA DataBoard == Types /\ Sync /\ Identified /\ Data /\ Board => Data'
<1> SUFFICES ASSUME Types, Sync, Identified, Data, Board PROVE Data'
  OBVIOUS
<1>1. CASE Start
  BY <1>1, DataQuiet DEF Start, HostInit, CallPCs
<1>2. CASE ReadHeader
  <2>1. First' = 0 /\ phase' = "header" /\ Before'
    BY <1>2 DEF ReadHeader, First, Before
  <2>2. QED
    BY <1>2, <2>1, DataCall DEF ReadHeader
<1>3. CASE Failed
  <2>1. phase' = "failed" /\ dpc' = "idle"
    BY <1>3 DEF Failed, sdcVars, driverVars
  <2>2. QED
    BY <2>1, DataQuiet DEF CallPCs
<1>4. CASE NoFormat
  <2>1. phase' = "no_format" /\ dpc' = "idle"
    BY <1>4 DEF NoFormat, Succeeded, sdcVars, driverVars
  <2>2. QED
    BY <2>1, DataQuiet DEF CallPCs
<1>5. CASE Format
  <2>1. Active /\ ~Checked /\ phase = "header" /\ First = 0 /\ Stored = 1
    BY <1>5 DEF Format, Succeeded, Active, Checked, First, Stored, Last, Sync
  <2>2. /\ buf[0].sector = 0
        /\ RightOr(buf[0], FALSE)
        /\ Known => slot = buf[0].card
    BY <2>1 DEF Data, Laid, From, RightOr
  <2>3. /\ phase' = "format" /\ dpc' = "idle" /\ sram' = buf[0]
        /\ UNCHANGED <<slot, cst, crcFail>>
    BY <1>5 DEF Format, Succeeded, sdcVars, sdVars, cardVars, dataVars, driverVars
  <2>4. Before'
    BY <2>2, <2>3 DEF Before, Known, In, RightOr
  <2>5. QED
    BY <2>3, <2>4 DEF Data, Line, Where, Laid, Active, CallPCs
<1>6. CASE ReadBsp
  <2>1. /\ First' = 0 /\ phase' = "bsp" /\ Stored' = 0 /\ ~Checked' /\ sram' = sram
        /\ UNCHANGED <<slot, cst, crcFail>>
    BY <1>6 DEF ReadBsp, CallReadSector, First, Stored, Last, Checked, sdVars, cardVars, dataVars
  <2>2. sram.sector = 0 /\ (Known => slot = sram.card) /\ RightOr(sram, FALSE)
    BY <1>6 DEF ReadBsp, Data, Before
  <2>3. Before'
    BY <2>1, <2>2 DEF Before, Known, In, RightOr
  <2>4. QED
    BY <1>6, <2>1, <2>3, DataCall DEF ReadBsp
<1>7. CASE ReadIsp
  <2>1. Active /\ ~Checked /\ phase = "bsp" /\ First = 0 /\ Stored = 2
    BY <1>7 DEF ReadIsp, Succeeded, Active, Checked, First, Stored, Last, Sync
  <2>2. /\ \A k \in 0 .. 1 : From(sram.card, k, buf[k])
        /\ buf[0].right /\ RightOr(buf[1], FALSE)
    BY <2>1 DEF Data, Laid, From, RightOr
  <2>3. sram.sector = 0 /\ (Known => slot = sram.card) /\ sram.right
    BY <2>1 DEF Data, Before, RightOr
  <2>4. /\ First' = 2 /\ phase' = "isp" /\ Stored' = 0 /\ ~Checked' /\ sram' = sram
        /\ low' = <<buf[0], buf[1]>> /\ UNCHANGED <<slot, cst, crcFail>>
    BY <1>7 DEF ReadIsp, CallReadSector, First, Stored, Last, Checked, sdVars, cardVars, dataVars
  <2>5. /\ low'[1] = buf[0] /\ low'[2] = buf[1]
        /\ From(sram.card, 0, low'[1]) /\ From(sram.card, 1, low'[2])
    BY <2>2, <2>4 DEF From
  <2>6. \A k \in 1 .. 2 : From(sram'.card, k - 1, low'[k])
    BY <2>4, <2>5 DEF From
  <2>7. Before'
    BY <2>2, <2>3, <2>4, <2>5, <2>6 DEF Before, Known, In, RightOr
  <2>8. QED
    BY <1>7, <2>4, <2>7, DataCall DEF ReadIsp
<1>8. CASE Done
  <2>1. Active /\ ~Checked /\ phase = "isp" /\ First = 2 /\ Stored = count /\ count \in Nat \ {0}
    BY <1>8 DEF Done, Succeeded, Active, Checked, First, Stored, Last, Sync, Types, Values
  <2>2. /\ phase' = "done" /\ dpc' = "idle" /\ isp' = [k \in 1 .. count |-> buf[k - 1]]
        /\ UNCHANGED <<slot, cst, crcFail, sram, low, count>>
    BY <1>8 DEF Done, Succeeded, sdcVars, sdVars, cardVars, dataVars, driverVars
  <2>3. \A k \in 0 .. count - 1 :
          From(sram.card, 2 + k, buf[k]) /\ (k < count - 1 => buf[k].right)
    BY <2>1 DEF Data, Laid
  <2>4. \A k \in 1 .. count : From(sram.card, k + 1, buf[k - 1]) /\ (k < count => buf[k - 1].right)
    <3> SUFFICES ASSUME NEW k \in 1 .. count
                 PROVE  From(sram.card, k + 1, buf[k - 1]) /\ (k < count => buf[k - 1].right)
      OBVIOUS
    <3>1. k - 1 \in 0 .. count - 1 /\ 2 + (k - 1) = k + 1 /\ (k < count => k - 1 < count - 1)
      BY <2>1
    <3>2. QED
      BY <2>3, <3>1
  <2>5. \A k \in DOMAIN isp' : From(sram.card, k + 1, isp'[k]) /\ (k < count => isp'[k].right)
    BY <2>2, <2>4
  <2>6. low[2].right
    BY <2>1 DEF Data, Before, RightOr
  <2>7. Before'
    BY <2>1, <2>2, <2>5, <2>6 DEF Data, Before, From
  <2>8. QED
    BY <2>2, <2>7 DEF Data, Line, Where, Laid, Active, CallPCs
<1>9. QED
  BY <1>1, <1>2, <1>3, <1>4, <1>5, <1>6, <1>7, <1>8 DEF Board

(* The steps of SDCardReadSector. *)
LEMMA DataInTransfer ==
  ASSUME Types, Sync, Identified, Data, InTransfer, UNCHANGED uploadVars,
         dpc \in {"set", "wait", "settle"}
  PROVE  Data'
<1> USE DEF HostKeeps, sdVars, cardVars, dataVars, Returns
<1>1. CASE loop = "set"
  <2>1. /\ dpc' = "blklen" /\ Last' = Last /\ (Known' => Known)
        /\ UNCHANGED <<slot, crcFail, hostRca, hostHc, addr, left, count, buf>>
    BY <1>1 DEF InTransfer, Sync, Last, Known, In
  <2>2. QED
    BY <2>1, DataWithin DEF CallPCs
<1>2. CASE loop = "wait"
  <2>1. /\ left \in 1 .. count /\ count \in 0 .. MaxBlocks /\ phase \in {"header", "bsp", "isp"}
        /\ addr \in Nat /\ Active /\ ~Checked /\ Stored = count - left + 1
    BY <1>2 DEF Sync, Types, Values, CallPCs, Active, Checked, Stored, Last
  <2>2. /\ left' = left - 1 /\ UNCHANGED <<slot, cst, crcFail, hostRca, hostHc, count, buf>>
        /\ dpc' \in {"blklen", "idle"} /\ loop' = loop /\ (dpc' = "idle" => result' = TRUE)
        /\ UNCHANGED <<phase, sram, low, isp>>
    BY <1>2 DEF InTransfer, uploadVars
  <2>3. Active' /\ ~Checked' /\ Stored' = Stored /\ First' = First
    BY <2>1, <2>2 DEF Active, Checked, Stored, Last, First, CallPCs
  <2>4. Line' /\ (hostRca # 0 => blkLen = Length)
    BY <2>2 DEF Line, Identified
  <2>5. Where'
    <3>1. hostRca # 0 =>
            addr = IF hostHc THEN First + count - left ELSE (First + count - left) * Length
      BY DEF Data, Where, CallPCs
    <3>2. hostRca # 0 => addr' = addr + IF hostHc THEN 1 ELSE Length
      BY <1>2, <2>4 DEF InTransfer
    <3>3. First \in {0, 2}
      BY DEF First
    <3>4. hostRca # 0 =>
            addr' = IF hostHc THEN First + count - left' ELSE (First + count - left') * Length
      BY <2>1, <2>2, <3>1, <3>2, <3>3 DEF Length
    <3>5. QED
      BY <2>2, <2>3, <3>4 DEF Where
  <2>6. Laid'
    BY <2>1, <2>2, <2>3 DEF Data, Laid, RightOr, From, Known, In
  <2>7. Before'
    BY <2>1, <2>2, <2>3 DEF Data, Before, RightOr, From, Known, In
  <2>8. QED
    BY <2>4, <2>5, <2>6, <2>7 DEF Data
<1>3. QED
  BY <1>1, <1>2 DEF Types, PCs

LEMMA DataReadSingle ==
  ASSUME Types, Sync, Identified, Data, ReadSingle, UNCHANGED uploadVars
  PROVE  Data'
<1>1. /\ left \in 1 .. count /\ count \in 0 .. MaxBlocks /\ phase \in {"header", "bsp", "isp"}
      /\ Active /\ ~Checked /\ Stored = count - left /\ Known /\ dpc = "read"
  BY DEF ReadSingle, Sync, Types, Values, CallPCs, Active, Checked, Stored, Last, Known, In,
         CardSends
<1>2. /\ dpc' = "batch" /\ got' = 0 /\ sent' = 0 /\ right' = TRUE /\ fifo' = FALSE
      /\ reading'.card = slot /\ reading'.sector = SectorAt(addr)
      /\ UNCHANGED <<slot, crcFail, hostRca, hostHc, addr, left, count, buf, phase, sram, low, isp>>
  BY DEF ReadSingle, HostKeeps, uploadVars, CardSends
<1>3. Active' /\ ~Checked' /\ Stored' = Stored /\ First' = First
  BY <1>1, <1>2 DEF Active, Checked, Stored, Last, First, CallPCs
<1>4. Line'
  BY <1>2 DEF Line
<1>5. SectorAt(addr) = First + count - left
  <2>1. hostRca # 0 /\ hostHc = (slot \in HighCap)
    BY <1>1 DEF Identified, CallPCs
  <2>2. addr = IF hostHc THEN First + count - left ELSE (First + count - left) * Length
    BY <1>1, <2>1 DEF Data, Where, CallPCs
  <2>3. First + count - left \in Nat
    BY <1>1 DEF First
  <2>4. \A x \in Nat : (x * 512) \div 512 = x
    OBVIOUS
  <2>5. CASE slot \in HighCap
    BY <2>1, <2>2, <2>5 DEF SectorAt
  <2>6. CASE slot \notin HighCap
    <3>1. addr = (First + count - left) * 512
      BY <2>1, <2>2, <2>6 DEF Length
    <3>2. SectorAt(addr) = addr \div 512
      BY <2>6 DEF SectorAt, Length
    <3>3. QED
      BY <2>3, <2>4, <3>1, <3>2
  <2>7. QED
    BY <2>5, <2>6
<1>6. Where'
  <2>1. hostRca # 0 =>
          addr = IF hostHc THEN First + count - left ELSE (First + count - left) * Length
    BY <1>1 DEF Data, Where, CallPCs
  <2>2. /\ Stored > 0 => slot = buf[0].card
        /\ phase \in {"bsp", "isp"} => slot = sram.card
    BY <1>1 DEF Data, Laid, Before
  <2>3. QED
    BY <1>2, <1>3, <1>5, <2>1, <2>2 DEF Where
<1>7. Known' => Known
  BY <1>1
<1>8. Laid'
  BY <1>1, <1>2, <1>3 DEF Data, Laid, RightOr, From
<1>9. Before'
  BY <1>1, <1>2, <1>3 DEF Data, Before, RightOr, From
<1>10. QED
  BY <1>4, <1>6, <1>8, <1>9 DEF Data

LEMMA DataCheckCrc ==
  ASSUME Types, Sync, Data, CheckCrc, ~crcFail, UNCHANGED uploadVars
  PROVE  Data'
<1>1. /\ dpc = "batch" /\ dpc' = "fifo" /\ crcFail' = FALSE /\ loop' = loop
      /\ UNCHANGED <<slot, cst, reading, sent, right, fifo, got, hostRca, hostHc, addr, left,
                     count, buf, phase, sram, low, isp>>
  BY DEF CheckCrc, HostKeeps, cardVars, uploadVars
<1>2. Active /\ Active' /\ Stored' = Stored /\ First' = First /\ Known' = Known
  BY <1>1 DEF Sync, Active, Stored, Last, First, Known, In, CallPCs
<1>3. Line'
  BY <1>1, <1>2 DEF Data, Line
<1>4. Where'
  BY <1>1, <1>2 DEF Data, Where, CallPCs
<1>5. Laid'
  BY <1>1, <1>2 DEF Data, Laid, RightOr, From
<1>6. Before'
  BY <1>1, <1>2 DEF Data, Before, RightOr, From
<1>7. QED
  BY <1>3, <1>4, <1>5, <1>6 DEF Data

LEMMA DataTakeBatch ==
  ASSUME Types, Sync, Data, TakeBatch, got + 1 < Batches, UNCHANGED uploadVars
  PROVE  Data'
<1>1. /\ dpc = "fifo" /\ dpc' = "batch" /\ fifo /\ fifo' = FALSE /\ got' = got + 1 /\ loop' = loop
      /\ got \in Nat /\ sent \in Nat
      /\ UNCHANGED <<slot, cst, reading, sent, right, crcFail, hostRca, hostHc, addr, left,
                     count, buf, phase, sram, low, isp>>
  BY DEF TakeBatch, HostKeeps, cardVars, uploadVars, Types, Values
<1>2. /\ Active /\ Active' /\ Checked /\ Checked' /\ Stored' = Stored /\ First' = First
      /\ Known' = Known
  BY <1>1 DEF Sync, Active, Checked, Stored, Last, First, Known, In, CallPCs
<1>3. Line'
  BY <1>1, <1>2 DEF Data, Line
<1>4. Where'
  BY <1>1, <1>2 DEF Data, Where, CallPCs
<1>5. Laid'
  BY <1>1, <1>2 DEF Data, Laid, RightOr, From
<1>6. Before'
  BY <1>1, <1>2 DEF Data, Before, RightOr, From
<1>7. QED
  BY <1>3, <1>4, <1>5, <1>6 DEF Data

(* The last batch of a block: what is wrong with it has been noticed. *)
LEMMA DataTakeBlock ==
  ASSUME Types, Sync, Data, TakeBatch, ~(got + 1 < Batches), UNCHANGED uploadVars
  PROVE  Data'
<1> DEFINE new == [card |-> reading.card, sector |-> reading.sector, right |-> right]
<1>1. /\ dpc = "fifo" /\ dpc' = "wait" /\ fifo /\ loop' = "wait" /\ got \in 0 .. Batches - 1
      /\ left \in 1 .. count /\ count \in 0 .. MaxBlocks
      /\ buf \in [0 .. MaxBlocks - 1 -> BlockType]
      /\ buf' = [buf EXCEPT ![count - left] = new]
      /\ UNCHANGED <<slot, cst, reading, sent, right, crcFail, hostRca, hostHc, addr, left,
                     count, phase, sram, low, isp>>
  BY DEF TakeBatch, HostKeeps, cardVars, uploadVars, Types, Values, Sync, CallPCs
<1>2. /\ Active /\ Active' /\ Checked /\ ~Checked' /\ First' = First /\ Known' = Known
      /\ Stored = count - left /\ Stored' = Stored + 1
  BY <1>1 DEF Sync, Active, Checked, Stored, Last, First, Known, In, CallPCs
<1>3. Line'
  BY <1>1 DEF Line
<1>4. Where'
  BY <1>1, <1>2 DEF Data, Where, CallPCs
<1>5. right \/ crcFail
  <2>1. sent = Batches
    BY <1>1 DEF Data, Line
  <2>2. QED
    BY <1>1, <2>1 DEF Data, Line
<1>6. /\ buf'[Stored].card = reading.card /\ buf'[Stored].sector = First + Stored
      /\ buf'[Stored].right = right
      /\ \A k \in 0 .. Stored - 1 : buf'[k] = buf[k]
  <2>1. reading.sector = First + count - left
    BY <1>1 DEF Data, Where
  <2>2. First \in {0, 2}
    BY DEF First
  <2>3. reading.sector = First + Stored /\ Stored \in 0 .. MaxBlocks - 1
    BY <1>1, <1>2, <2>1, <2>2
  <2>4. buf'[Stored] = new
    BY <1>1, <1>2, <2>3
  <2>5. \A k \in 0 .. Stored - 1 : buf'[k] = buf[k]
    BY <1>1, <1>2, <2>3
  <2>6. QED
    BY <2>3, <2>4, <2>5
<1>7. /\ buf'[0].card = reading.card
      /\ Known => slot = reading.card
      /\ phase \in {"bsp", "isp"} => reading.card = sram.card
  <2>1. Stored > 0 => reading.card = buf[0].card
    BY <1>1 DEF Data, Where
  <2>2. buf'[0].card = reading.card
    <3>1. CASE Stored = 0
      BY <1>6, <3>1
    <3>2. CASE Stored > 0
      BY <1>1, <1>2, <1>6, <2>1, <3>2
    <3>3. QED
      BY <1>1, <1>2, <3>1, <3>2
  <2>3. QED
    BY <1>1, <2>2 DEF Data, Where, Line
<1>8. \A k \in 0 .. Stored - 1 : From(reading.card, First + k, buf[k]) /\ buf[k].right
  <2>1. Stored > 0 => reading.card = buf[0].card /\ buf[Stored - 1].right
    BY <1>1, <1>2 DEF Data, Where, Laid, RightOr
  <2>2. QED
    BY <1>1, <1>2, <2>1 DEF Data, Laid
<1>9. Laid'
  <2>1. \A k \in 0 .. Stored : From(reading.card, First + k, buf'[k])
                                /\ (k < Stored => buf'[k].right)
    BY <1>1, <1>2, <1>6, <1>8 DEF From
  <2>2. Stored' - 1 = Stored
    BY <1>1, <1>2
  <2>3. QED
    BY <1>1, <1>2, <1>5, <1>6, <1>7, <2>1, <2>2 DEF Laid, RightOr
<1>10. Before'
  BY <1>1, <1>2 DEF Data, Before, RightOr, From
<1>11. QED
  BY <1>3, <1>4, <1>9, <1>10 DEF Data

LEMMA DataDriver == Types /\ Sync /\ Identified /\ Data /\ Driver => Data'
<1> SUFFICES ASSUME Types, Flags, Values, PCs, Sync, Identified, Data, phase # "start",
                    SdDriver, UNCHANGED uploadVars
             PROVE Data'
  BY DEF Types, Driver
<1> USE DEF sdVars, cardVars, dataVars, HostKeeps, LoopKeeps, InitKeeps, Returns
<1>1. CASE HostInit
  BY <1>1 DEF HostInit, Sync
<1>2. CASE GoIdle
  <2>1. phase' = "init" /\ dpc' \notin CallPCs
    BY <1>2 DEF GoIdle, Sync, InitPCs, CallPCs, uploadVars
  <2>2. QED
    BY <2>1, DataQuiet
<1>3. CASE GetOcr
  <2>1. phase' = "init" /\ dpc' \notin CallPCs
    BY <1>3 DEF GetOcr, InitFails, Sync, InitPCs, CallPCs, uploadVars
  <2>2. QED
    BY <2>1, DataQuiet
<1>4. CASE AllSendCid
  <2>1. phase' = "init" /\ dpc' \notin CallPCs
    BY <1>4 DEF AllSendCid, Sync, InitPCs, CallPCs, uploadVars
  <2>2. QED
    BY <2>1, DataQuiet
<1>5. CASE SendRelativeAddr
  <2>1. phase' = "init" /\ dpc' \notin CallPCs
    BY <1>5 DEF SendRelativeAddr, Sync, InitPCs, CallPCs, uploadVars
  <2>2. QED
    BY <2>1, DataQuiet
<1>6. CASE InitCommandFails
  <2>1. phase' = "init" /\ dpc' \notin CallPCs
    BY <1>6 DEF InitCommandFails, InitFails, Sync, InitPCs, CallPCs, uploadVars
  <2>2. QED
    BY <2>1, DataQuiet
<1>7. CASE CommandFails
  <2>1. dpc \in CallPCs /\ dpc' = "idle" /\ result' = FALSE
    BY <1>7 DEF CommandFails, CallPCs
  <2>2. slot' = slot /\ (Known' => Known)
    BY <1>7 DEF CommandFails, CardSelects, CardStops, CardSends, Known, In, Addressed
  <2>3. QED
    BY <2>1, <2>2, DataReturnsFalse
<1>8. CASE AskState
  <2>1. /\ dpc \in CallPCs \ {"batch", "fifo"} /\ dpc' \in CallPCs \ {"batch", "fifo"}
        /\ Last' = Last /\ (Known' => Known)
        /\ UNCHANGED <<slot, crcFail, hostRca, hostHc, addr, left, count, buf>>
    BY <1>8 DEF AskState, CallPCs, PCs, Sync, Last, Known, In, Addressed
  <2>2. QED
    BY <2>1, DataWithin
<1>9. CASE Transfer
  BY <1>9, DataInTransfer DEF Transfer, CallPCs, PCs
<1>10. CASE Standby
  <2>1. CASE loop = "set"
    <3>1. /\ dpc \in CallPCs \ {"batch", "fifo"} /\ dpc' \in CallPCs \ {"batch", "fifo"}
          /\ Last' = Last /\ (Known' => Known)
          /\ UNCHANGED <<slot, crcFail, hostRca, hostHc, addr, left, count, buf>>
      BY <1>10, <2>1 DEF Standby, CallPCs, PCs, Sync, Last, Known, In, Addressed
    <3>2. QED
      BY <3>1, DataWithin
  <2>2. CASE loop # "set"
    <3>1. dpc \in CallPCs /\ dpc' = "idle" /\ result' = FALSE /\ UNCHANGED <<slot, cst>>
      BY <1>10, <2>2 DEF Standby, CallPCs, PCs
    <3>2. QED
      BY <3>1, DataReturnsFalse DEF Known, In
  <2>3. QED
    BY <2>1, <2>2
<1>11. CASE SelectCard
  <2>1. /\ dpc \in CallPCs \ {"batch", "fifo"} /\ dpc' \in CallPCs \ {"batch", "fifo"}
        /\ Last' = Last /\ (Known' => Known)
        /\ UNCHANGED <<slot, crcFail, hostRca, hostHc, addr, left, count, buf>>
    BY <1>11 DEF SelectCard, CallPCs, PCs, Sync, Last, Known, In, Addressed, CardSelects
  <2>2. QED
    BY <2>1, DataWithin
<1>12. CASE LoopOverflow
  <2>1. dpc \in CallPCs /\ dpc' = "idle" /\ result' = FALSE /\ UNCHANGED <<slot, cst>>
    BY <1>12 DEF LoopOverflow, CallPCs, PCs
  <2>2. QED
    BY <2>1, DataReturnsFalse DEF Known, In
<1>13. CASE Settled
  BY <1>13, DataInTransfer DEF Settled, CallPCs, PCs
<1>14. CASE Unsettled
  <2>1. /\ dpc \in CallPCs \ {"batch", "fifo"} /\ dpc' \in CallPCs \ {"batch", "fifo"}
        /\ Last' = Last /\ (Known' => Known)
        /\ UNCHANGED <<slot, crcFail, hostRca, hostHc, addr, left, count, buf>>
    BY <1>14 DEF Unsettled, CallPCs, PCs, Sync, Last, Known, In, Addressed
  <2>2. QED
    BY <2>1, DataWithin
<1>15. CASE GiveUp
  <2>1. CASE noError
    <3>1. /\ dpc \in CallPCs \ {"batch", "fifo"} /\ dpc' \in CallPCs \ {"batch", "fifo"}
          /\ Last' = Last /\ (Known' => Known)
          /\ UNCHANGED <<slot, crcFail, hostRca, hostHc, addr, left, count, buf>>
      BY <1>15, <2>1 DEF GiveUp, CallPCs, PCs, Sync, Last, Known, In, Addressed
    <3>2. QED
      BY <3>1, DataWithin
  <2>2. CASE ~noError
    <3>1. dpc \in CallPCs /\ dpc' = "idle" /\ result' = FALSE /\ UNCHANGED <<slot, cst>>
      BY <1>15, <2>2 DEF GiveUp, CallPCs, PCs
    <3>2. QED
      BY <3>1, DataReturnsFalse DEF Known, In
  <2>3. QED
    BY <2>1, <2>2
<1>16. CASE StopTransmission
  <2>1. /\ dpc \in CallPCs \ {"batch", "fifo"} /\ dpc' \in CallPCs \ {"batch", "fifo"}
        /\ Last' = Last /\ (Known' => Known)
        /\ UNCHANGED <<slot, crcFail, hostRca, hostHc, addr, left, count, buf>>
    BY <1>16 DEF StopTransmission, CallPCs, PCs, Sync, Last, Known, In, Addressed, CardStops
  <2>2. QED
    BY <2>1, DataWithin
<1>17. CASE SetBlkSize
  <2>1. /\ dpc \in CallPCs \ {"batch", "fifo"} /\ dpc' \in CallPCs \ {"batch", "fifo"}
        /\ Last' = Last /\ (Known' => Known)
        /\ UNCHANGED <<slot, crcFail, hostRca, hostHc, addr, left, count, buf>>
    BY <1>17 DEF SetBlkSize, CallPCs, PCs, Sync, Last, Known, In, Addressed
  <2>2. QED
    BY <2>1, DataWithin
<1>18. CASE ReadSingle
  BY <1>18, DataReadSingle
<1>19. CASE CheckCrc
  <2>1. CASE crcFail
    <3>1. dpc \in CallPCs /\ dpc' = "idle" /\ result' = FALSE /\ UNCHANGED <<slot, cst>>
      BY <1>19, <2>1 DEF CheckCrc, CallPCs, PCs
    <3>2. QED
      BY <3>1, DataReturnsFalse DEF Known, In
  <2>2. CASE ~crcFail
    BY <1>19, <2>2, DataCheckCrc
  <2>3. QED
    BY <2>1, <2>2
<1>20. CASE TakeBatch
  <2>1. CASE got + 1 < Batches
    BY <1>20, <2>1, DataTakeBatch
  <2>2. CASE ~(got + 1 < Batches)
    BY <1>20, <2>2, DataTakeBlock
  <2>3. QED
    BY <2>1, <2>2
<1>21. CASE DataTimeout
  <2>1. dpc \in CallPCs /\ dpc' = "idle" /\ result' = FALSE /\ UNCHANGED <<slot, cst>>
    BY <1>21 DEF DataTimeout, CallPCs, PCs
  <2>2. QED
    BY <2>1, DataReturnsFalse DEF Known, In
<1>22. QED
  BY <1>1, <1>2, <1>3, <1>4, <1>5, <1>6, <1>7, <1>8, <1>9, <1>10, <1>11,
     <1>12, <1>13, <1>14, <1>15, <1>16, <1>17, <1>18, <1>19, <1>20, <1>21 DEF SdDriver

(* What the slot does: an error is only ever added, and a card that was    *)
(* put in has no address.                                                  *)
LEMMA DataSlot ==
  ASSUME Types, Sync, Identified, Data, Slot \/ ChangeCard, UNCHANGED <<driverVars, uploadVars>>
  PROVE  Data'
<1>1. /\ UNCHANGED <<dpc, loop, hostRca, hostHc, addr, left, count, got, buf, result,
                     phase, sram, low, isp>>
      /\ UNCHANGED reading
      /\ Known' => Known /\ slot' = slot
      /\ crcFail => crcFail'
  <2> USE DEF driverVars, uploadVars, cardVars, dataVars, Known, In
  <2>1. CASE PowerUp
    BY <2>1 DEF PowerUp
  <2>2. CASE SendBatch
    BY <2>2 DEF SendBatch
  <2>3. CASE BlockSent
    BY <2>3 DEF BlockSent
  <2>4. CASE ChangeCard
    BY <2>4 DEF ChangeCard
  <2>5. QED
    BY <2>1, <2>2, <2>3, <2>4 DEF Slot
<1>2. /\ Active' <=> Active
      /\ Checked' <=> Checked
      /\ Stored' = Stored /\ First' = First
  BY <1>1 DEF Active, Checked, Stored, Last, First
<1>3. Line'
  <2> SUFFICES ASSUME dpc \in {"batch", "fifo"}
               PROVE  /\ sent' = got + IF fifo' THEN 1 ELSE 0
                      /\ sent' = Batches => right' \/ crcFail'
    BY <1>1 DEF Data, Line
  <2>1. /\ sent = got + IF fifo THEN 1 ELSE 0
        /\ sent = Batches => right \/ crcFail
    BY DEF Data, Line
  <2>2. CASE SendBatch
    <3>1. ~fifo /\ fifo' /\ sent' = sent + 1 /\ sent \in Nat /\ got \in Nat
      BY <2>2 DEF SendBatch, Types, Values
    <3>2. sent' = Batches => right' \/ crcFail'
      BY <2>2, Zenon DEF SendBatch
    <3>3. QED
      BY <2>1, <3>1, <3>2
  <2>3. CASE UNCHANGED dataVars
    BY <2>1, <2>3 DEF dataVars
  <2>4. QED
    BY <2>2, <2>3 DEF Slot, PowerUp, BlockSent, ChangeCard
<1>4. Where'
  BY <1>1, <1>2 DEF Data, Where
<1>5. \A b, found : RightOr(b, found) => (b.right \/ (crcFail' /\ ~found))
  BY <1>1 DEF RightOr
<1>6. Laid'
  BY <1>1, <1>2, <1>5 DEF Data, Laid, RightOr, From
<1>7. Before'
  BY <1>1, <1>2, <1>5 DEF Data, Before, RightOr, From
<1>8. QED
  BY <1>3, <1>4, <1>6, <1>7 DEF Data

-----------------------------------------------------------------------------
(* The invariant is inductive. *)
LEMMA NextIInv == IInv /\ [Next]_vars => IInv'
<1> SUFFICES ASSUME Types, Sync, Identified, Data, [Next]_vars PROVE IInv'
  BY DEF IInv
<1>1. CASE Board
  BY <1>1, TypesBoard, SyncBoard, IdentifiedBoard, DataBoard DEF IInv
<1>2. CASE Driver
  BY <1>2, TypesDriver, SyncDriver, IdentifiedDriver, DataDriver DEF IInv
<1>3. CASE (Slot \/ ChangeCard) /\ UNCHANGED <<driverVars, uploadVars>>
  BY <1>3, TypesSlot, SyncSlot, IdentifiedSlot, DataSlot DEF IInv
<1>4. CASE UNCHANGED vars
  <2> USE <1>4 DEF vars, sdcVars, sdVars, cardVars, dataVars, driverVars, uploadVars
  <2>1. Types'
    <3>1. Flags'
      BY Zenon DEF Types, Flags
    <3>2. PCs'
      BY DEF Types, PCs
    <3>3. Values'
      BY Zenon DEF Types, Values
    <3>4. QED
      BY <3>1, <3>2, <3>3 DEF Types
  <2>2. Sync'
    BY Zenon DEF Sync, Active
  <2>3. Identified'
    BY Zenon DEF Identified, Known, In
  <2>4. Line' /\ Where'
    BY Zenon DEF Data, Line, Where, Stored, Last, First, Known, In
  <2>5. Laid'
    BY Zenon DEF Data, Laid, Active, RightOr, Checked, From, Stored, Last, First, Known, In
  <2>6. Before'
    BY Zenon DEF Data, Before, Active, RightOr, Checked, From, Stored, Last, Known, In
  <2>7. QED
    BY <2>1, <2>2, <2>3, <2>4, <2>5, <2>6 DEF IInv, Data
<1>5. QED
  BY <1>1, <1>2, <1>3, <1>4 DEF Next, Stopped

(* The inductive invariant: types, driver and board in step (Sync), the    *)
(* card that answers (Identified), and where every sector is (Data).        *)
THEOREM Invariance == Spec => []IInv
<1>1. Init => IInv
  BY InitIInv
<1>2. IInv /\ [Next]_vars => IInv'
  BY NextIInv
<1>3. QED
  BY <1>1, <1>2, PTL DEF Spec

(* Every variable has its type in every state of an upload: no counter of  *)
(* the driver leaves its bound, and no block is laid outside the buffer.   *)
THEOREM UploadTypes == Spec => []TypeOK
<1>1. IInv => TypeOK
  BY TypesImplyTypeOK DEF IInv
<1>2. QED
  BY <1>1, Invariance, PTL

(* No block is asked for before a card was identified, and the card that   *)
(* answers is addressed the way it was found to be (sdc.c:100-219).        *)
THEOREM AlwaysReadsIdentified == Spec => []ReadsIdentified
<1>1. IInv => ReadsIdentified
  BY DEF IInv, Identified, ReadsIdentified, CallPCs, In, Known
<1>2. QED
  BY <1>1, Invariance, PTL

(* SDCardReadSector that returns TRUE has read the sectors it was asked    *)
(* for, in order, from one card, and all but the last came right           *)
(* (sdc.c:382-422).                                                        *)
THEOREM AlwaysSectorsRead == Spec => []SectorsRead
<1>1. IInv => SectorsRead
  <2> SUFFICES ASSUME IInv, dpc = "idle", result, phase \in {"header", "bsp", "isp"}
               PROVE  \A k \in 0 .. count - 1 :
                        From(buf[0].card, First + k, buf[k]) /\ (k < count - 1 => buf[k].right)
    BY DEF SectorsRead, First
  <2>1. Active /\ Stored = count
    BY DEF IInv, Types, Values, Sync, Active, Stored, Last
  <2>2. QED
    BY <2>1 DEF IInv, Data, Laid
<1>2. QED
  BY <1>1, Invariance, PTL

(* An upload that is done came off one card, the sectors in their order    *)
(* and right up to the last of the ISP (board.c:297-312): DATA_CRC_FAIL is *)
(* looked at only when the next block is read, and nothing of what was     *)
(* read before is used after that look fails.                              *)
THEOREM AlwaysUploadRight == Spec => []UploadRight
<1>1. IInv => UploadRight
  <2> SUFFICES ASSUME IInv, phase = "done" PROVE UploadRight
    BY DEF UploadRight
  <2>1. /\ sram.sector = 0 /\ sram.right /\ low[1].right /\ low[2].right
        /\ \A k \in 1 .. 2 : From(sram.card, k - 1, low[k])
        /\ \A k \in DOMAIN isp :
             From(sram.card, k + 1, isp[k]) /\ (k < count => isp[k].right)
    BY DEF IInv, Data, Before
  <2>2. QED
    BY <2>1 DEF UploadRight, From
<1>2. QED
  BY <1>1, Invariance, PTL
=============================================================================
