------------------------------ MODULE SdCommand ------------------------------
(***************************************************************************)
(* SDC_SendCommand of src/drivers/sdc_cntr.c over the command registers of *)
(* the SD host controller: what lies under the single step that a command  *)
(* is in Sdc.                                                              *)
(*                                                                         *)
(* The controller sends the command, waits for the answer of the card, and *)
(* sets bits of its status register, which stay set until they are cleared.*)
(* It gives up on the card by itself long before the driver gives up on    *)
(* it, or it hangs and sets no bit any more.                               *)
(***************************************************************************)
EXTENDS Naturals

CONSTANTS
  Tries,    \* SDCNTR_STATUS_RETRY_COUNT
  MaxCalls  \* bound: commands

ASSUME CommandAssumption == Tries \in Nat \ {0, 1} /\ MaxCalls \in Nat \ {0}

VARIABLES
  spc,       \* where SDC_SendCommand is
  no,        \* the number of the command, in place of its content
  kind,      \* does it need a response: "none", "short" or "long"?
  retry,     \* RetryCount
  response,  \* *Response, four words; each is the number of the command it answers
  result,    \* what the last call returned
  error,     \* *SD_ErrorCode
  flags,     \* the command bits of SDC_STATUS_REG
  flight,    \* what the controller does with the command
  regs,      \* SDC_RESPONSE0_REG and the three behind it
  heard      \* the last command that was sent to its end

callVars == <<no, kind, response, result, error>>
hwVars   == <<flags, flight, regs, heard>>
commandVars == <<spc, retry, callVars, hwVars>>

Bits      == {"CMD_SEND", "RSP_TIMEOUT", "RSP_CRC_FAIL", "RSP_CRC_OK"}
Responses == [0 .. 3 -> 0 .. MaxCalls]
NoAnswer  == [w \in 0 .. 3 |-> 0]

CommandTypeOK ==
  /\ spc \in {"idle", "clear", "send", "poll"}
  /\ no \in 0 .. MaxCalls /\ kind \in {"none", "short", "long"}
  /\ retry \in 0 .. Tries
  /\ response \in Responses /\ regs \in Responses
  /\ result \in BOOLEAN
  /\ error \in {"NO_ERROR", "TIMEOUT", "CRC", "SEND_TIMEOUT"}
  /\ flags \subseteq Bits
  /\ flight \in {"idle", "sending", "awaiting", "hung"}
  /\ heard \in 0 .. MaxCalls

Init ==
  /\ spc = "idle" /\ no = 0 /\ kind = "none" /\ retry = 0
  /\ response = NoAnswer /\ result = FALSE /\ error = "NO_ERROR"
  /\ flags \in SUBSET Bits /\ flight = "idle" /\ regs = NoAnswer /\ heard = 0

-----------------------------------------------------------------------------
(* The controller. *)
Transmitted ==
  /\ flight = "sending"
  /\ flags' = flags \cup {"CMD_SEND"} /\ heard' = no
  /\ flight' = IF kind = "none" THEN "idle" ELSE "awaiting"
  /\ UNCHANGED <<spc, retry, callVars, regs>>

Answered ==
  /\ flight = "awaiting" /\ flight' = "idle"
  /\ \/ flags' = flags \cup {"RSP_TIMEOUT"} /\ UNCHANGED regs
     \/ flags' = flags \cup {"RSP_CRC_FAIL"} /\ regs' = NoAnswer
     \/ /\ flags' = flags \cup {"RSP_CRC_OK"}
        /\ regs' = [w \in 0 .. 3 |-> IF w = 0 \/ kind = "long" THEN no ELSE regs[w]]
  /\ UNCHANGED <<spc, retry, callVars, heard>>

Hangs ==
  /\ flight \in {"sending", "awaiting"} /\ flight' = "hung"
  /\ UNCHANGED <<spc, retry, callVars, flags, regs, heard>>

-----------------------------------------------------------------------------
Call ==
  /\ spc = "idle" /\ no < MaxCalls
  /\ spc' = "clear" /\ no' = no + 1 /\ retry' = 0
  /\ kind' \in {"none", "short", "long"}
  /\ UNCHANGED <<response, result, error, hwVars>>

(* Mutant: the bits of an earlier response are not cleared. *)
ClearSent ==
  /\ spc = "clear" /\ spc' = "send"
  /\ flags' = flags \ {"CMD_SEND"}
  /\ UNCHANGED <<retry, callVars, flight, regs, heard>>

Clear ==
  /\ spc = "clear" /\ spc' = "send"
  /\ flags' = {}
  /\ UNCHANGED <<retry, callVars, flight, regs, heard>>

(* The argument and the command are written. *)
Send ==
  /\ spc = "send" /\ spc' = "poll"
  /\ flight' = IF flight = "hung" THEN "hung" ELSE "sending"
  /\ UNCHANGED <<retry, callVars, flags, regs, heard>>

(* SDC_SendCommand clears the bit that ends it and returns. *)
Ends(bit, ok, code) ==
  /\ spc = "poll" /\ retry < Tries /\ bit \in flags
  /\ spc' = "idle" /\ flags' = flags \ {bit}
  /\ result' = ok /\ error' = code
  /\ UNCHANGED <<retry, no, kind, flight, regs, heard>>

Sent == kind = "none" /\ Ends("CMD_SEND", TRUE, "NO_ERROR") /\ UNCHANGED response

(* The bits are looked at in this order. *)
RspTimeout == kind # "none" /\ Ends("RSP_TIMEOUT", FALSE, "TIMEOUT") /\ UNCHANGED response

(* Mutant: what has been sent and not answered right has failed. *)
RspCrcFailEarly ==
  /\ kind # "none" /\ flags \cap {"RSP_TIMEOUT", "RSP_CRC_OK"} = {}
  /\ Ends("CMD_SEND", FALSE, "CRC") /\ UNCHANGED response

RspCrcFail ==
  /\ kind # "none" /\ "RSP_TIMEOUT" \notin flags
  /\ Ends("RSP_CRC_FAIL", FALSE, "CRC") /\ UNCHANGED response

RspOk ==
  /\ kind # "none" /\ flags \cap {"RSP_TIMEOUT", "RSP_CRC_FAIL"} = {}
  /\ Ends("RSP_CRC_OK", TRUE, "NO_ERROR")
  /\ response' = IF kind = "long" THEN regs ELSE [response EXCEPT ![0] = regs[0]]

Awaited == IF kind = "none" THEN {"CMD_SEND"} ELSE Bits \ {"CMD_SEND"}

(* None of the bits is set. *)
PollAgain ==
  /\ spc = "poll" /\ flags \cap Awaited = {} /\ retry < Tries
  /\ retry + 1 < Tries \/ flight = "hung"
  /\ retry' = retry + 1
  /\ UNCHANGED <<spc, callVars, hwVars>>

(* RETRY COUNT OVERFLOW *)
Overflow ==
  /\ spc = "poll" /\ retry = Tries
  /\ spc' = "idle" /\ result' = FALSE /\ error' = "SEND_TIMEOUT"
  /\ UNCHANGED <<retry, no, kind, response, hwVars>>

SendCommand ==
  Clear \/ Send \/ Sent \/ RspTimeout \/ RspCrcFail \/ RspOk \/ PollAgain \/ Overflow
Controller == Transmitted \/ Answered
Finished   == spc = "idle" /\ no = MaxCalls /\ UNCHANGED commandVars

Next == Call \/ SendCommand \/ Controller \/ Hangs \/ Finished
Spec == Init /\ [][Next]_commandVars

-----------------------------------------------------------------------------
(* sdc_cntr.c:87-135: a command returns TRUE only after the card has got   *)
(* it to its end, and with all words of the answer to this very command,   *)
(* whatever bits and responses earlier commands, or an earlier boot, have  *)
(* left in the controller.                                                 *)
OwnAnswer ==
  spc = "idle" /\ result =>
    /\ heard = no
    /\ kind # "none" => response[0] = no
    /\ kind = "long" => response = [w \in 0 .. 3 |-> no]

(* A command is not written to a controller that still has one under way,  *)
(* unless it hangs: the poll loop ends only with the bit that comes last   *)
(* for this kind of command.                                               *)
OneInFlight == spc = "send" => flight \in {"idle", "hung"}
=============================================================================
