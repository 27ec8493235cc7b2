--------------------------- MODULE SdCommandProofs ---------------------------
(***************************************************************************)
(* SDC_SendCommand, for every number of polls and commands: types, one     *)
(* command at a time, and every answer to the command that asked for it.   *)
(***************************************************************************)
EXTENDS SdCommand, TLAPS

(* What the bits say while the command is polled for: nothing before it has*)
(* been sent or once the controller hangs, and then only of this command.  *)
Polled ==
  spc = "poll" =>
    /\ flight = "sending" => flags = {}
    /\ flight = "awaiting" => flags = {"CMD_SEND"} /\ kind # "none" /\ heard = no
    /\ flight = "idle" => heard = no
    /\ flight = "hung" => flags \cap Awaited = {}
    /\ kind = "none" => flags \subseteq {"CMD_SEND"}
    /\ kind # "none" /\ "RSP_CRC_OK" \in flags =>
         regs[0] = no /\ (kind = "long" => regs = [w \in 0 .. 3 |-> no])

Unpolled ==
  /\ spc # "poll" => flight \in {"idle", "hung"}
  /\ spc = "send" => flags = {}

(* The polls run out only over a controller that hangs. *)
Overflows == retry = Tries => flight = "hung"

IInv == CommandTypeOK /\ Polled /\ Unpolled /\ Overflows /\ OwnAnswer

LEMMA NoAnswerType == NoAnswer \in Responses
  BY CommandAssumption DEF NoAnswer, Responses

LEMMA CommandInit == Init => IInv
<1> SUFFICES ASSUME Init PROVE IInv
  OBVIOUS
<1>1. CommandTypeOK
  <2>1. 0 \in 0 .. MaxCalls /\ 0 \in 0 .. Tries
    BY CommandAssumption
  <2>2. flags \subseteq Bits
    BY DEF Init
  <2> QED
    BY <2>1, <2>2, NoAnswerType DEF Init, CommandTypeOK
<1>2. Polled /\ Unpolled
  BY DEF Init, Polled, Unpolled
<1>3. Overflows
  BY CommandAssumption DEF Init, Overflows
<1>4. OwnAnswer
  BY DEF Init, OwnAnswer
<1> QED
  BY <1>1, <1>2, <1>3, <1>4 DEF IInv

(* The types are kept by every step. *)
LEMMA CommandTypeStep == CommandTypeOK /\ [Next]_commandVars => CommandTypeOK'
<1> SUFFICES ASSUME CommandTypeOK, [Next]_commandVars PROVE CommandTypeOK'
  OBVIOUS
<1> USE CommandAssumption DEF CommandTypeOK
<1>1. CASE Transmitted
  BY <1>1 DEF Transmitted, callVars, Bits
<1>2. CASE Answered
  <2>1. [w \in 0 .. 3 |-> IF w = 0 \/ kind = "long" THEN no ELSE regs[w]] \in Responses
    BY DEF Responses
  <2>2. regs' \in Responses
    BY <1>2, <2>1, NoAnswerType DEF Answered
  <2>3. flags' \subseteq Bits
    BY <1>2 DEF Answered, Bits
  <2> QED
    BY <1>2, <2>2, <2>3 DEF Answered, callVars
<1>3. CASE Hangs
  BY <1>3 DEF Hangs, callVars
<1>4. CASE Call
  BY <1>4 DEF Call, hwVars
<1>5. CASE Clear
  BY <1>5 DEF Clear, callVars
<1>6. CASE Send
  BY <1>6 DEF Send, callVars
<1>7. CASE Sent
  BY <1>7 DEF Sent, Ends
<1>8. CASE RspTimeout
  BY <1>8 DEF RspTimeout, Ends
<1>9. CASE RspCrcFail
  BY <1>9 DEF RspCrcFail, Ends
<1>10. CASE RspOk
  BY <1>10 DEF RspOk, Ends, Responses
<1>11. CASE PollAgain
  BY <1>11 DEF PollAgain, callVars, hwVars
<1>12. CASE Overflow
  BY <1>12 DEF Overflow, hwVars
<1>13. CASE Finished \/ UNCHANGED commandVars
  BY <1>13 DEF Finished, commandVars, callVars, hwVars
<1> QED
  BY <1>1, <1>2, <1>3, <1>4, <1>5, <1>6, <1>7, <1>8, <1>9, <1>10, <1>11, <1>12, <1>13
  DEF Next, SendCommand, Controller

(* The controller's steps keep what the bits say. *)
LEMMA HardwareStep ==
  ASSUME IInv, Transmitted \/ Answered \/ Hangs
  PROVE  Polled' /\ Unpolled' /\ Overflows' /\ OwnAnswer'
<1> USE CommandAssumption
    DEF IInv, CommandTypeOK, Responses, Bits, Polled, Unpolled, Overflows, OwnAnswer, Awaited
<1>1. CASE Transmitted
  BY <1>1 DEF Transmitted, callVars
<1>2. CASE Answered
  BY <1>2 DEF Answered, callVars
<1>3. CASE Hangs
  BY <1>3 DEF Hangs, callVars
<1> QED
  BY <1>1, <1>2, <1>3

(* So do the driver's. *)
LEMMA DriverStep ==
  ASSUME IInv, Call \/ SendCommand
  PROVE  Polled' /\ Unpolled' /\ Overflows' /\ OwnAnswer'
<1> USE CommandAssumption
    DEF IInv, CommandTypeOK, Responses, Bits, Polled, Unpolled, Overflows, OwnAnswer, Awaited
<1>1. CASE Call
  BY <1>1 DEF Call, hwVars
<1>2. CASE Clear
  BY <1>2 DEF Clear, callVars
<1>3. CASE Send
  BY <1>3 DEF Send, callVars
<1>4. CASE Sent
  BY <1>4 DEF Sent, Ends
<1>5. CASE RspTimeout
  BY <1>5 DEF RspTimeout, Ends
<1>6. CASE RspCrcFail
  BY <1>6 DEF RspCrcFail, Ends
<1>7. CASE RspOk
  BY <1>7 DEF RspOk, Ends
<1>8. CASE PollAgain
  BY <1>8 DEF PollAgain, callVars, hwVars
<1>9. CASE Overflow
  BY <1>9 DEF Overflow, hwVars
<1> QED
  BY <1>1, <1>2, <1>3, <1>4, <1>5, <1>6, <1>7, <1>8, <1>9 DEF SendCommand

LEMMA CommandStep == IInv /\ [Next]_commandVars => IInv'
<1> SUFFICES ASSUME IInv, [Next]_commandVars PROVE IInv'
  OBVIOUS
<1>1. CommandTypeOK'
  BY CommandTypeStep DEF IInv
<1>2. CASE Finished \/ UNCHANGED commandVars
  BY <1>1, <1>2
  DEF Finished, commandVars, callVars, hwVars, IInv, Polled, Unpolled, Overflows, OwnAnswer, Awaited
<1>3. CASE Controller \/ Hangs
  BY <1>1, <1>3, HardwareStep DEF Controller, IInv
<1>4. CASE Call \/ SendCommand
  BY <1>1, <1>4, DriverStep DEF IInv
<1> QED
  BY <1>2, <1>3, <1>4 DEF Next

THEOREM CommandInvariant == Spec => []IInv
  BY CommandInit, CommandStep, PTL DEF Spec

(* The driver and the command registers keep their types. *)
THEOREM CommandTypeCorrect == Spec => []CommandTypeOK
<1>1. IInv => CommandTypeOK
  BY DEF IInv
<1> QED
  BY <1>1, CommandInvariant, PTL

(* SDC_SendCommand returns TRUE only with the answer to its own command,   *)
(* whatever is left in the controller (sdc_cntr.c:87-135).                 *)
THEOREM AnswersOwn == Spec => []OwnAnswer
<1>1. IInv => OwnAnswer
  BY DEF IInv
<1> QED
  BY <1>1, CommandInvariant, PTL

(* No command is written over one that is under way (sdc_cntr.c:94).       *)
THEOREM NeverTwoInFlight == Spec => []OneInFlight
<1>1. IInv => OneInFlight
  BY DEF IInv, Unpolled, OneInFlight
<1> QED
  BY <1>1, CommandInvariant, PTL
=============================================================================
