--------------------------------- MODULE Sdc ---------------------------------
(***************************************************************************)
(* The SD driver: src/drivers/sdc.c over SDC_SendCommand and SDC_ReadBlock *)
(* of src/drivers/sdc_cntr.c.  SDHostInterfaceInit identifies the card,    *)
(* SDCardReadSector reads sectors, one CMD17 at a time.                    *)
(*                                                                         *)
(* A command is one step.  It may fail whatever the card is up to (no      *)
(* answer, a CRC error, an error bit in the card status), and the card may *)
(* have carried out a command that failed.                                 *)
(***************************************************************************)
EXTENDS SdCard

CONSTANTS
  OcrTries,    \* SD_CARD_GET_OCR_RETRY_COUNT
  PollTries,   \* SD_CARD_WAIT_OPERATION_COMPLETE_RETRY_COUNT
  StateTries,  \* SD_CARD_STATE_CHANGE_RETRY_COUNT
  WaitTries,   \* SD_CARD_WAIT_TRANSFER_STATE_RETRY_COUNT
  MaxBlocks    \* bound: sectors of one call

ASSUME SdcAssumption ==
  /\ OcrTries \in Nat /\ PollTries \in Nat \ {0} /\ StateTries \in Nat \ {0}
  /\ WaitTries \in Nat \ {0} /\ MaxBlocks \in Nat \ {0}

VARIABLES
  dpc,       \* where the driver is
  hostRca,   \* SDCard->RCA
  hostHc,    \* the SD_OCR_STATUS_BIT of SDCard->OCR
  blkLen,    \* SDCard->CSD_ReadBlockLength; 0 until it is set
  noError,   \* *SD_ErrorCode = ERR_NO_ERROR
  loop,      \* the loop that waits for an operation: "set" or "wait"
  tries,     \* its RetryCount
  polls,     \* RetryCount of SD_WaitOperationComplete
  addr,      \* StartAddr
  left,      \* TurnBlkCount
  count,     \* BlkCount
  got,       \* batches of the block read so far
  buf,       \* the blocks read by this call
  result     \* what the last call returned

driverVars == <<dpc, hostRca, hostHc, blkLen, noError, loop, tries, polls,
                addr, left, count, got, buf, result>>
sdcVars == <<sdVars, driverVars>>

Length == 512
Junk == [card |-> NoCard, sector |-> 0, right |-> FALSE]

SdcTypeOK ==
  /\ SdCardTypeOK
  /\ dpc \in {"off", "cmd0", "ocr", "cid", "addr", "idle", "set", "select", "settle", "stop",
              "blklen", "read", "batch", "fifo", "wait"}
  /\ hostRca \in Rcas \cup {0} /\ hostHc \in BOOLEAN /\ blkLen \in {0, Length}
  /\ noError \in BOOLEAN /\ loop \in {"set", "wait"}
  /\ tries \in Nat /\ polls \in 0 .. PollTries
  /\ addr \in Nat /\ left \in 0 .. MaxBlocks /\ count \in 0 .. MaxBlocks
  /\ got \in 0 .. Batches - 1
  /\ DOMAIN buf = 0 .. MaxBlocks - 1
  /\ result \in BOOLEAN

(* The structure lies in an SRAM that keeps what an earlier boot left. *)
SdcInit ==
  /\ SdCardInit
  /\ dpc = "off" /\ hostRca = 0 /\ hostHc \in BOOLEAN /\ blkLen \in {0, Length}
  /\ noError = TRUE /\ loop = "set" /\ tries = 0 /\ polls = 0
  /\ addr = 0 /\ left = 0 /\ count = 0 /\ got = 0
  /\ buf = [k \in 0 .. MaxBlocks - 1 |-> Junk] /\ result = FALSE

-----------------------------------------------------------------------------
(* SDHostInterfaceInit, SDCardInsert: the controller is reset. *)
HostInit ==
  /\ dpc = "off"
  /\ dpc' = "cmd0" /\ noError' = TRUE /\ hostRca' = 0
  /\ fifo' = FALSE /\ crcFail' = FALSE
  /\ UNCHANGED <<cardVars, reading, sent, right, changes, hostHc, blkLen, loop, tries,
                 polls, addr, left, count, got, buf, result>>

(* SDCardInsert returns, whether or not the card was identified. *)
InitFails == dpc' = "idle" /\ noError' = FALSE /\ UNCHANGED <<hostRca, blkLen>>
InitKeeps == UNCHANGED <<dataVars, slot, changes, loop, polls, addr, left, count,
                         got, buf, result>>

(* CMD0, which no card answers and one may miss; CMD8's answer is ignored. *)
GoIdle ==
  /\ dpc = "cmd0"
  /\ \/ cst' = "idle" /\ rca' = 0 /\ busy' = TRUE
     \/ UNCHANGED <<cst, rca, busy>>
  /\ dpc' = "ocr" /\ tries' = 0
  /\ UNCHANGED <<hostRca, hostHc, blkLen, noError>> /\ InitKeeps

(* Mutant: SDCard->OCR keeps what an earlier boot left. *)
GetOcrStale ==
  /\ dpc = "ocr" /\ In({"idle"})
  /\ tries' = tries + 1
  /\ cst' = IF busy THEN "idle" ELSE "ready"
  /\ IF tries > OcrTries THEN InitFails
     ELSE dpc' = (IF busy THEN "ocr" ELSE "cid") /\ UNCHANGED <<hostRca, blkLen, noError>>
  /\ UNCHANGED <<hostHc, rca, busy>> /\ InitKeeps

(* SD_GetOCRCmd, CMD55 and ACMD41: the count is tested before the answer. *)
GetOcr ==
  /\ dpc = "ocr" /\ In({"idle"})
  /\ tries' = tries + 1
  /\ cst' = IF busy THEN "idle" ELSE "ready"
  /\ hostHc' = (~busy /\ slot \in HighCap)
  /\ IF tries > OcrTries THEN InitFails
     ELSE dpc' = (IF busy THEN "ocr" ELSE "cid") /\ UNCHANGED <<hostRca, blkLen, noError>>
  /\ UNCHANGED <<rca, busy>> /\ InitKeeps

(* CMD2 *)
AllSendCid ==
  /\ dpc = "cid" /\ In({"ready"})
  /\ cst' = "ident" /\ dpc' = "addr"
  /\ UNCHANGED <<rca, busy, tries, hostRca, hostHc, blkLen, noError>> /\ InitKeeps

(* CMD3: the card chooses its address.  With the end of SD_RootInit. *)
SendRelativeAddr ==
  /\ dpc = "addr" /\ In({"ident"})
  /\ cst' = "stby" /\ rca' \in Rcas
  /\ hostRca' = rca' /\ blkLen' = Length /\ dpc' = "idle"
  /\ UNCHANGED <<busy, tries, hostHc, noError>> /\ InitKeeps

(* One of these commands fails; the card may have carried it out. *)
InitCommandFails ==
  /\ dpc \in {"ocr", "cid", "addr"}
  /\ InitFails
  /\ \/ UNCHANGED <<cst, rca>>
     \/ dpc = "ocr" /\ In({"idle"}) /\ ~busy /\ cst' = "ready" /\ rca' = rca
     \/ dpc = "cid" /\ In({"ready"}) /\ cst' = "ident" /\ rca' = rca
     \/ dpc = "addr" /\ In({"ident"}) /\ cst' = "stby" /\ rca' \in Rcas
  /\ UNCHANGED <<hostHc, busy, tries>> /\ InitKeeps

-----------------------------------------------------------------------------
(* SDCardReadSector(StartBlk, BlkCount, Buf) is called. *)
CallReadSector(start, n) ==
  /\ dpc = "idle"
  /\ dpc' = "set" /\ loop' = "set" /\ tries' = 0 /\ noError' = TRUE
  /\ addr' = IF hostHc THEN start ELSE start * blkLen
  /\ left' = n /\ count' = n
  /\ buf' = [k \in 0 .. MaxBlocks - 1 |-> Junk]
  /\ UNCHANGED <<sdVars, hostRca, hostHc, blkLen, polls, got, result>>

Returns(r) == dpc' = "idle" /\ result' = r
HostKeeps == UNCHANGED <<hostRca, hostHc, blkLen, count>>

(* What CMD7, CMD12 and CMD17 do in the card. *)
CardSelects ==
  /\ Addressed(hostRca) /\ cst = "stby" /\ cst' = "tran"
  /\ UNCHANGED <<slot, rca, busy, dataVars, changes>>
CardStops ==
  /\ In({"data"}) /\ cst' = "tran"
  /\ UNCHANGED <<slot, rca, busy, dataVars, changes>>

SectorAt(a) == IF slot \in HighCap THEN a ELSE a \div Length

CardSends ==
  /\ In({"tran"}) /\ cst' = "data"
  /\ sent' = 0 /\ right' = TRUE /\ fifo' = FALSE
  /\ reading' = [card |-> slot, sector |-> SectorAt(addr)]
  /\ UNCHANGED <<slot, rca, busy, crcFail, changes>>

(* A command of the call fails, with an error code; the card may have      *)
(* carried it out.                                                         *)
CommandFails ==
  /\ dpc \in {"set", "wait", "settle", "select", "stop", "blklen", "read"}
  /\ Returns(FALSE) /\ noError' = FALSE
  /\ \/ UNCHANGED sdVars
     \/ dpc = "select" /\ CardSelects
     \/ dpc = "stop" /\ CardStops
     \/ dpc = "read" /\ CardSends
  /\ UNCHANGED <<loop, tries, polls, addr, left, got, buf>> /\ HostKeeps

(* The head of SD_SetCardTransferState and SD_WaitCardEnterTransferState   *)
(* after CMD13: the card is sending, so SD_WaitOperationComplete.          *)
LoopKeeps == UNCHANGED <<sdVars, addr, left, got, buf>> /\ HostKeeps
Limit == IF loop = "set" THEN StateTries ELSE WaitTries

AskState ==
  /\ dpc = loop /\ tries < Limit /\ Addressed(hostRca) /\ cst = "data"
  /\ tries' = tries + 1 /\ polls' = 0 /\ noError' = TRUE
  /\ dpc' = "settle"
  /\ UNCHANGED <<loop, result>> /\ LoopKeeps

(* Mutant: the address of the next block is one on, for every card. *)
InTransferByOne ==
  /\ noError' = TRUE
  /\ IF loop = "set"
     THEN dpc' = "blklen" /\ UNCHANGED <<addr, left, result>>
     ELSE /\ left' = left - 1
          /\ addr' = addr + 1
          /\ IF left = 1 THEN Returns(TRUE) ELSE dpc' = "blklen" /\ result' = result
  /\ UNCHANGED <<sdVars, loop, got, buf>> /\ HostKeeps

(* The card is in the transfer state: SDCardReadSector goes on. *)
InTransfer ==
  /\ noError' = TRUE
  /\ IF loop = "set"
     THEN dpc' = "blklen" /\ UNCHANGED <<addr, left, result>>
     ELSE /\ left' = left - 1
          /\ addr' = addr + IF hostHc THEN 1 ELSE blkLen
          /\ IF left = 1 THEN Returns(TRUE) ELSE dpc' = "blklen" /\ result' = result
  /\ UNCHANGED <<sdVars, loop, got, buf>> /\ HostKeeps

Transfer ==
  /\ dpc = loop /\ tries < Limit /\ Addressed(hostRca) /\ cst = "tran"
  /\ InTransfer
  /\ tries' = tries + 1 /\ UNCHANGED polls

(* In standby: CMD7 selects the card, where it is awaited it is an error. *)
Standby ==
  /\ dpc = loop /\ tries < Limit /\ Addressed(hostRca) /\ cst = "stby"
  /\ noError' = TRUE /\ tries' = tries + 1
  /\ IF loop = "set" THEN dpc' = "select" /\ result' = result ELSE Returns(FALSE)
  /\ UNCHANGED <<loop, polls>> /\ LoopKeeps

SelectCard ==
  /\ dpc = "select" /\ CardSelects
  /\ dpc' = "set" /\ noError' = TRUE
  /\ UNCHANGED <<loop, tries, polls, addr, left, got, buf, result>> /\ HostKeeps

(* SD_SetCardTransferState leaves the error code of its last command. *)
LoopOverflow ==
  /\ dpc = loop /\ tries = Limit
  /\ Returns(FALSE)
  /\ noError' = (loop = "set")
  /\ UNCHANGED <<loop, tries, polls>> /\ LoopKeeps

(* SD_WaitOperationComplete(SD_TRAN_STATE): CMD13 again. *)
Settled ==
  /\ dpc = "settle" /\ polls < PollTries /\ Addressed(hostRca) /\ cst = "tran"
  /\ InTransfer
  /\ polls' = polls + 1 /\ UNCHANGED tries

Unsettled ==
  /\ dpc = "settle" /\ polls < PollTries /\ Addressed(hostRca) /\ cst # "tran"
  /\ polls' = polls + 1 /\ noError' = TRUE
  /\ UNCHANGED <<dpc, loop, tries, result>> /\ LoopKeeps

(* It gives up with no error code: the transmission is to be stopped. *)
GiveUp ==
  /\ dpc = "settle" /\ polls = PollTries
  /\ IF noError THEN dpc' = "stop" /\ result' = result ELSE Returns(FALSE)
  /\ UNCHANGED <<noError, loop, tries, polls>> /\ LoopKeeps

(* CMD12 is illegal, and gets no answer, once the card is done. *)
StopTransmission ==
  /\ dpc = "stop" /\ CardStops
  /\ dpc' = loop /\ noError' = TRUE
  /\ UNCHANGED <<loop, tries, polls, addr, left, got, buf, result>> /\ HostKeeps

-----------------------------------------------------------------------------
(* SD_ReadSingleBlock: CMD16, SDC_ConfigDataTransfer, CMD17. *)
SetBlkSize ==
  /\ dpc = "blklen" /\ In({"tran"})
  /\ dpc' = "read" /\ noError' = TRUE
  /\ UNCHANGED <<loop, tries, polls, result>> /\ LoopKeeps

ReadSingle ==
  /\ dpc = "read" /\ CardSends
  /\ dpc' = "batch" /\ got' = 0 /\ noError' = TRUE
  /\ UNCHANGED <<loop, tries, polls, addr, left, buf, result>> /\ HostKeeps

(* Mutant: DATA_CRC_FAIL is cleared but not looked at. *)
CheckCrcBlind ==
  /\ dpc = "batch" /\ dpc' = "fifo"
  /\ crcFail' = FALSE
  /\ UNCHANGED <<cardVars, reading, sent, right, fifo, changes, noError, loop, tries,
                 polls, addr, left, got, buf, result>> /\ HostKeeps

(* SDC_ReadBlock looks at DATA_CRC_FAIL before each batch, not behind the  *)
(* last: SDC_CheckBlockDataCRC is commented out.                           *)
CheckCrc ==
  /\ dpc = "batch"
  /\ IF crcFail THEN Returns(FALSE) ELSE dpc' = "fifo" /\ result' = result
  /\ crcFail' = FALSE
  /\ UNCHANGED <<cardVars, reading, sent, right, fifo, changes, noError, loop, tries,
                 polls, addr, left, got, buf>> /\ HostKeeps

(* Mutant: one batch too many is counted. *)
TakeBatchOver ==
  /\ dpc = "fifo" /\ fifo
  /\ fifo' = FALSE /\ dpc' = "batch" /\ got' = got + 1
  /\ UNCHANGED <<cardVars, reading, sent, right, crcFail, changes, noError, loop, tries,
                 polls, addr, left, buf, result>> /\ HostKeeps

TakeBatch ==
  /\ dpc = "fifo" /\ fifo
  /\ fifo' = FALSE
  /\ IF got + 1 < Batches
     THEN dpc' = "batch" /\ got' = got + 1 /\ UNCHANGED <<loop, tries, buf>>
     ELSE /\ dpc' = "wait" /\ loop' = "wait" /\ tries' = 0 /\ got' = 0
          /\ buf' = [buf EXCEPT ![count - left] =
                       [card |-> reading.card, sector |-> reading.sector, right |-> right]]
  /\ UNCHANGED <<cardVars, reading, sent, right, crcFail, changes, noError, polls, addr,
                 left, result>> /\ HostKeeps

(* Mutant: after DATA_TIMEOUT the FIFO is polled on. *)
DataTimeoutPollsOn ==
  /\ dpc = "fifo" /\ ~fifo
  /\ noError' = FALSE
  /\ UNCHANGED <<dpc, result, loop, tries, polls>> /\ LoopKeeps

(* DATA_TIMEOUT *)
DataTimeout ==
  /\ dpc = "fifo" /\ ~fifo
  /\ Returns(FALSE) /\ noError' = FALSE
  /\ UNCHANGED <<loop, tries, polls>> /\ LoopKeeps

SdDriver ==
  \/ HostInit \/ GoIdle \/ GetOcr \/ AllSendCid \/ SendRelativeAddr \/ InitCommandFails
  \/ CommandFails \/ AskState \/ Transfer \/ Standby \/ SelectCard \/ LoopOverflow
  \/ Settled \/ Unsettled \/ GiveUp \/ StopTransmission
  \/ SetBlkSize \/ ReadSingle \/ CheckCrc \/ TakeBatch \/ DataTimeout
=============================================================================
