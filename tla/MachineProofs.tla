---------------------------- MODULE MachineProofs -----------------------------
(***************************************************************************)
(* Proofs about the way from reset to main, of one boot first; then that   *)
(* what holds in one boot holds in every boot, after any number of resets  *)
(* at any step, and that main takes no stage but this boot's upload.       *)
(***************************************************************************)
EXTENDS Machine, TLAPS


Early   == {"reset", "strap", "bsp_strap", "ddr2"}
OverUart == {"uart_wait", "uart_bsp", "uart_lt", "uart_isp"}
OverSd   == {"sd_bsp", "sd_isp"}
Late    == {"ahbc", "copy", "verify", "main"}

(* Which header is being applied where, and what the flag in the SRAM says.*)
Flow ==
  /\ pc \in Early => src = "none" /\ asked = {}
  /\ pc \in OverUart => src = "uart"
  /\ pc \in OverSd => src = "sd"
  /\ pc \in {"words"} \cup Late => src # "none"
  /\ pc = "nand_wait" => src = "nand"
  /\ pc \in {"uart_bsp", "uart_lt", "uart_isp"} \cup OverSd => sram2
  /\ pc = "words" /\ src = "sd" => sram2
  /\ pc = "tst" => IF sram2 THEN src \in {"uart", "sd"} ELSE src = "none" /\ asked = {}

(* The controllers that are known to be up. *)
Ready(ds) == \A d \in ds : ddr[d] = "ready"
Controllers ==
  /\ pc = "nand_wait" =>
       /\ i - 1 \in 1 .. HdrWords /\ hdr[i - 1] \in asked
       /\ Ready(asked \ {hdr[i - 1]})
  /\ pc = "words" /\ src = "nand" => Ready(asked)
  /\ pc \in Late /\ src = "nand" => Ready(asked)
  /\ pc \in {"uart_bsp", "uart_lt", "uart_isp", "tst"} \cup OverSd \cup Late => Ready(Waited)
  /\ remap => code /\ (Backing \in asked \/ ddr[Backing] = "ready")
  /\ pc = "main" => remap
  /\ Backing \notin asked => ddr[Backing] # "starting"
  /\ pc = "main" /\ Backing \notin asked => ddr[Backing] = "ready"

(* Nothing is lost once the FIFO is drained, and what is read arrives: the *)
(* DDR was waited for, or nobody has touched it and it is up.              *)
Upload ==
  /\ pc \notin {"uart_wait", "uart_bsp", "uart_lt", "dead"} => slip = 0
  /\ Backing \in Waited \/ (Backing \notin asked /\ ddr[Backing] = "ready") =>
       /\ pc = "uart_lt" => bsp = Received
       /\ pc \in {"uart_isp", "sd_isp"} => bsp = "sent"
       /\ pc \in {"tst"} \cup Late /\ src \in {"uart", "sd"} => bsp = "sent" /\ rest = "sent"

(* A NAND boot: DDR2_C, once it is up, has had the magic behind it cleared.*)
Cleared ==
  src = "nand" /\ Backing = "C" /\ "C" \in asked =>
    \/ pc \notin {"words", "nand_wait"} \cup Late
    \/ pc = "nand_wait" /\ hdr[i - 1] = "C"
    \/ bsp = "none"

BootInv == TypeOK /\ Flow /\ Controllers /\ Upload /\ Cleared

USE BootAssumption

-----------------------------------------------------------------------------
(* Every step keeps the types. *)
LEMMA TypeStep == BootInv /\ [Next]_vars => TypeOK'
<1> SUFFICES ASSUME BootInv, [Next]_vars PROVE TypeOK'
  OBVIOUS
<1> USE DEF BootInv, TypeOK, PCs, Words, Staged, Landed, Received, IsAddress, Goto,
            Begin, Flow, Controllers, Early, Late, OverUart, OverSd, vars, streamVars,
            memVars
<1>1. CASE InitNandc
  BY <1>1 DEF InitNandc
<1>2. CASE Strap
  BY <1>2 DEF Strap
<1>3. CASE SdFormat
  BY <1>3 DEF SdFormat
<1>4. CASE SdNoFormat
  BY <1>4 DEF SdNoFormat
<1>5. CASE UartFormat
  BY <1>5 DEF UartFormat
<1>6. CASE UpgradeFailed
  BY <1>6 DEF UpgradeFailed
<1>7. CASE Word
  BY <1>7 DEF Word
<1>8. CASE UartParsed
  BY <1>8 DEF UartParsed, Upload
<1>9. CASE UartOverrun
  BY <1>9 DEF UartOverrun
<1>10. CASE UartReady
  BY <1>10 DEF UartReady
<1>11. CASE ReadUartBsp
  BY <1>11 DEF ReadUartBsp
<1>12. CASE ReadUartLookuptable
  BY <1>12 DEF ReadUartLookuptable
<1>13. CASE ReadUartIsp
  BY <1>13 DEF ReadUartIsp
<1>14. CASE SdParsed
  BY <1>14 DEF SdParsed
<1>15. CASE ReadSdBsp
  BY <1>15 DEF ReadSdBsp
<1>16. CASE ReadSdIsp
  BY <1>16 DEF ReadSdIsp
<1>28. CASE SdReadFailed
  BY <1>28 DEF SdReadFailed, Cut
<1>17. CASE TestSram2
  BY <1>17 DEF TestSram2
<1>18. CASE InitDdr2
  BY <1>18 DEF InitDdr2
<1>19. CASE NoBsp
  BY <1>19 DEF NoBsp
<1>20. CASE NandReady
  BY <1>20 DEF NandReady
<1>21. CASE NandParsed
  BY <1>21 DEF NandParsed
<1>22. CASE InitAhbc
  BY <1>22 DEF InitAhbc
<1>23. CASE CopyCode
  BY <1>23 DEF CopyCode
<1>24. CASE VerifyCode
  BY <1>24 DEF VerifyCode
<1>25. CASE DdrUp
  BY <1>25 DEF DdrUp
<1>26. CASE UNCHANGED vars
  BY <1>26
<1>27. QED
  BY <1>1, <1>2, <1>3, <1>4, <1>5, <1>6, <1>7, <1>8, <1>9, <1>10, <1>11, <1>12,
     <1>13, <1>14, <1>15, <1>16, <1>17, <1>18, <1>19, <1>20, <1>21, <1>22, <1>23,
     <1>24, <1>25, <1>26, <1>28 DEF Next, Rom, Stopped

(* Every step keeps the header's source and the flag in step. *)
LEMMA FlowStep == BootInv /\ [Next]_vars => Flow'
<1> SUFFICES ASSUME BootInv, [Next]_vars PROVE Flow'
  OBVIOUS
<1> USE DEF BootInv, Flow, TypeOK, PCs, Early, OverUart, OverSd, Late, Goto, Begin,
            vars, streamVars, memVars
<1>1. CASE InitNandc
  BY <1>1 DEF InitNandc
<1>2. CASE Strap
  BY <1>2 DEF Strap
<1>3. CASE SdFormat
  BY <1>3 DEF SdFormat
<1>4. CASE SdNoFormat
  BY <1>4 DEF SdNoFormat
<1>5. CASE UartFormat
  BY <1>5 DEF UartFormat
<1>6. CASE UpgradeFailed
  BY <1>6 DEF UpgradeFailed
<1>7. CASE Word
  BY <1>7 DEF Word
<1>8. CASE UartParsed
  BY <1>8 DEF UartParsed
<1>9. CASE UartOverrun
  BY <1>9 DEF UartOverrun
<1>10. CASE UartReady
  BY <1>10 DEF UartReady
<1>11. CASE ReadUartBsp
  BY <1>11 DEF ReadUartBsp
<1>12. CASE ReadUartLookuptable
  BY <1>12 DEF ReadUartLookuptable
<1>13. CASE ReadUartIsp
  BY <1>13 DEF ReadUartIsp
<1>14. CASE SdParsed
  BY <1>14 DEF SdParsed
<1>15. CASE ReadSdBsp
  BY <1>15 DEF ReadSdBsp
<1>16. CASE ReadSdIsp
  BY <1>16 DEF ReadSdIsp
<1>28. CASE SdReadFailed
  BY <1>28 DEF SdReadFailed, Cut
<1>17. CASE TestSram2
  BY <1>17 DEF TestSram2
<1>18. CASE InitDdr2
  BY <1>18 DEF InitDdr2
<1>19. CASE NoBsp
  BY <1>19 DEF NoBsp
<1>20. CASE NandReady
  BY <1>20 DEF NandReady
<1>21. CASE NandParsed
  BY <1>21 DEF NandParsed
<1>22. CASE InitAhbc
  BY <1>22 DEF InitAhbc
<1>23. CASE CopyCode
  BY <1>23 DEF CopyCode
<1>24. CASE VerifyCode
  BY <1>24 DEF VerifyCode
<1>25. CASE DdrUp
  BY <1>25 DEF DdrUp
<1>26. CASE UNCHANGED vars
  BY <1>26
<1>27. QED
  BY <1>1, <1>2, <1>3, <1>4, <1>5, <1>6, <1>7, <1>8, <1>9, <1>10, <1>11, <1>12,
     <1>13, <1>14, <1>15, <1>16, <1>17, <1>18, <1>19, <1>20, <1>21, <1>22, <1>23,
     <1>24, <1>25, <1>26, <1>28 DEF Next, Rom, Stopped

(* Every step keeps what is known of the DDR controllers. *)
LEMMA ControllersStep == BootInv /\ [Next]_vars => Controllers'
<1> SUFFICES ASSUME BootInv, [Next]_vars PROVE Controllers'
  OBVIOUS
<1> USE DEF BootInv, Controllers, Flow, Ready, Waited, Up, Landed, IsAddress, TypeOK,
            Words, PCs, Early, OverUart, OverSd, Late, Goto, Begin, vars, streamVars,
            memVars
<1>1. CASE InitNandc
  BY <1>1 DEF InitNandc
<1>2. CASE Strap
  BY <1>2 DEF Strap
<1>3. CASE SdFormat
  BY <1>3 DEF SdFormat
<1>4. CASE SdNoFormat
  BY <1>4 DEF SdNoFormat
<1>5. CASE UartFormat
  BY <1>5 DEF UartFormat
<1>6. CASE UpgradeFailed
  BY <1>6 DEF UpgradeFailed
<1>7. CASE Word
  <2>1. i \in 0 .. HdrWords - 1 /\ i + 1 \in 1 .. HdrWords /\ pc = "words"
    BY <1>7 DEF Word
  <2>2. pc' \in {"words", "nand_wait"} /\ src' = src /\ hdr' = hdr /\ remap' = remap /\ code' = code
    BY <1>7 DEF Word
  <2>3. CASE hdr[i + 1] \in Ddr
    <3>0. hdr[i + 1] # "plain" /\ asked' = asked \cup {hdr[i + 1]}
      BY <1>7, <2>3 DEF Word, Ddr
    <3>1. /\ asked' = asked \cup {hdr[i + 1]} /\ i' = i + 2 /\ i' - 1 = i + 1
          /\ \A d \in Ddr : d # hdr[i + 1] => ddr'[d] = ddr[d]
          /\ pc' = IF src = "nand" THEN "nand_wait" ELSE "words"
      <4>1. i' = i + 2
        BY <1>7, <3>0 DEF Word
      <4>2. \A d \in Ddr : d # hdr[i + 1] => ddr'[d] = ddr[d]
        BY <1>7 DEF Word
      <4>3. pc' = IF src = "nand" THEN "nand_wait" ELSE "words"
        BY <1>7, <2>3 DEF Word
      <4>4. QED
        BY <2>1, <3>0, <4>1, <4>2, <4>3
    <3>2. hdr'[i' - 1] = hdr[i + 1] /\ i' - 1 \in 1 .. HdrWords
      BY <2>1, <2>2, <3>1
    <3>3. pc' = "nand_wait" => \A d \in asked' \ {hdr'[i' - 1]} : ddr'[d] = "ready"
      BY <2>1, <3>1, <3>2
    <3>4. remap' => code' /\ (Backing \in asked' \/ ddr'[Backing] = "ready")
      BY <2>2, <3>1
    <3>5. pc' = "words" /\ src' = "nand" => FALSE
      BY <2>2, <3>1
    <3>6. QED
      BY <2>2, <3>1, <3>2, <3>3, <3>4, <3>5
  <2>4. CASE hdr[i + 1] \notin Ddr
    <3>1. asked' = asked /\ pc' = "words" /\ \A d \in Ddr : ddr'[d] = ddr[d]
      BY <1>7, <2>4 DEF Word
    <3>2. QED
      BY <2>1, <2>2, <3>1
  <2>5. QED
    BY <2>3, <2>4
<1>8. CASE UartParsed
  BY <1>8 DEF UartParsed
<1>9. CASE UartOverrun
  BY <1>9 DEF UartOverrun
<1>10. CASE UartReady
  BY <1>10 DEF UartReady
<1>11. CASE ReadUartBsp
  BY <1>11 DEF ReadUartBsp
<1>12. CASE ReadUartLookuptable
  BY <1>12 DEF ReadUartLookuptable
<1>13. CASE ReadUartIsp
  BY <1>13 DEF ReadUartIsp
<1>14. CASE SdParsed
  BY <1>14 DEF SdParsed
<1>15. CASE ReadSdBsp
  BY <1>15 DEF ReadSdBsp
<1>16. CASE ReadSdIsp
  BY <1>16 DEF ReadSdIsp
<1>28. CASE SdReadFailed
  BY <1>28 DEF SdReadFailed, Cut
<1>17. CASE TestSram2
  BY <1>17 DEF TestSram2
<1>18. CASE InitDdr2
  BY <1>18 DEF InitDdr2
<1>19. CASE NoBsp
  BY <1>19 DEF NoBsp
<1>20. CASE NandReady
  BY <1>20 DEF NandReady
<1>21. CASE NandParsed
  BY <1>21 DEF NandParsed
<1>22. CASE InitAhbc
  BY <1>22 DEF InitAhbc
<1>23. CASE CopyCode
  BY <1>23 DEF CopyCode
<1>24. CASE VerifyCode
  BY <1>24 DEF VerifyCode
<1>25. CASE DdrUp
  BY <1>25 DEF DdrUp
<1>26. CASE UNCHANGED vars
  BY <1>26
<1>27. QED
  BY <1>1, <1>2, <1>3, <1>4, <1>5, <1>6, <1>7, <1>8, <1>9, <1>10, <1>11, <1>12,
     <1>13, <1>14, <1>15, <1>16, <1>17, <1>18, <1>19, <1>20, <1>21, <1>22, <1>23,
     <1>24, <1>25, <1>26, <1>28 DEF Next, Rom, Stopped

(* Every step keeps the upload whole, from the first wait on. *)
LEMMA UploadStep == BootInv /\ [Next]_vars => Upload'
<1> SUFFICES ASSUME BootInv, [Next]_vars PROVE Upload'
  OBVIOUS
<1> USE DEF BootInv, Upload, Flow, Controllers, Ready, Waited, Up, Landed, Received,
            TypeOK, PCs, Staged, Early, OverUart, OverSd, Late, Goto, Begin, vars,
            streamVars, memVars
<1>1. CASE InitNandc
  BY <1>1 DEF InitNandc
<1>2. CASE Strap
  BY <1>2 DEF Strap
<1>3. CASE SdFormat
  BY <1>3 DEF SdFormat
<1>4. CASE SdNoFormat
  BY <1>4 DEF SdNoFormat
<1>5. CASE UartFormat
  BY <1>5 DEF UartFormat
<1>6. CASE UpgradeFailed
  BY <1>6 DEF UpgradeFailed
<1>7. CASE Word
  BY <1>7 DEF Word
<1>8. CASE UartParsed
  BY <1>8 DEF UartParsed
<1>9. CASE UartOverrun
  BY <1>9 DEF UartOverrun
<1>10. CASE UartReady
  BY <1>10 DEF UartReady
<1>11. CASE ReadUartBsp
  BY <1>11 DEF ReadUartBsp
<1>12. CASE ReadUartLookuptable
  BY <1>12 DEF ReadUartLookuptable
<1>13. CASE ReadUartIsp
  BY <1>13 DEF ReadUartIsp
<1>14. CASE SdParsed
  BY <1>14 DEF SdParsed
<1>15. CASE ReadSdBsp
  BY <1>15 DEF ReadSdBsp
<1>16. CASE ReadSdIsp
  BY <1>16 DEF ReadSdIsp
<1>28. CASE SdReadFailed
  BY <1>28 DEF SdReadFailed, Cut
<1>17. CASE TestSram2
  BY <1>17 DEF TestSram2
<1>18. CASE InitDdr2
  BY <1>18 DEF InitDdr2
<1>19. CASE NoBsp
  BY <1>19 DEF NoBsp
<1>20. CASE NandReady
  BY <1>20 DEF NandReady
<1>21. CASE NandParsed
  BY <1>21 DEF NandParsed
<1>22. CASE InitAhbc
  BY <1>22 DEF InitAhbc
<1>23. CASE CopyCode
  BY <1>23 DEF CopyCode
<1>24. CASE VerifyCode
  BY <1>24 DEF VerifyCode
<1>25. CASE DdrUp
  BY <1>25 DEF DdrUp
<1>26. CASE UNCHANGED vars
  BY <1>26
<1>27. QED
  BY <1>1, <1>2, <1>3, <1>4, <1>5, <1>6, <1>7, <1>8, <1>9, <1>10, <1>11, <1>12,
     <1>13, <1>14, <1>15, <1>16, <1>17, <1>18, <1>19, <1>20, <1>21, <1>22, <1>23,
     <1>24, <1>25, <1>26, <1>28 DEF Next, Rom, Stopped

(* Every step but NandReady keeps the magic cleared; NandReady clears it.  *)
LEMMA ClearedStep == BootInv /\ [Next]_vars => Cleared'
<1> SUFFICES ASSUME BootInv, [Next]_vars PROVE Cleared'
  OBVIOUS
<1> USE DEF BootInv, Cleared, Flow, Landed, IsAddress, TypeOK, Words, PCs, Early,
            OverUart, OverSd, Late, Goto, Begin, vars, streamVars, memVars
<1>1. CASE InitNandc
  BY <1>1 DEF InitNandc
<1>2. CASE Strap
  BY <1>2 DEF Strap
<1>3. CASE SdFormat
  BY <1>3 DEF SdFormat
<1>4. CASE SdNoFormat
  BY <1>4 DEF SdNoFormat
<1>5. CASE UartFormat
  BY <1>5 DEF UartFormat
<1>6. CASE UpgradeFailed
  BY <1>6 DEF UpgradeFailed
<1>7. CASE Word
  <2>1. SUFFICES ASSUME src' = "nand", Backing = "C", "C" \in asked',
                        pc' \in {"words", "nand_wait"},
                        ~(pc' = "nand_wait" /\ hdr'[i' - 1] = "C")
                 PROVE  bsp' = "none"
    BY <1>7 DEF Word
  <2>2. pc = "words" /\ src = "nand" /\ bsp' = bsp /\ hdr' = hdr /\ i \in 0 .. HdrWords - 1
    BY <1>7, <2>1 DEF Word
  <2>3. CASE hdr[i + 1] = "C"
    <3>1. pc' = "nand_wait" /\ i' - 1 = i + 1
      BY <1>7, <2>2, <2>3 DEF Word, Ddr
    <3>2. QED
      BY <2>1, <2>2, <2>3, <3>1
  <2>4. CASE hdr[i + 1] # "C"
    BY <1>7, <2>1, <2>2, <2>4 DEF Word
  <2>5. QED
    BY <2>3, <2>4
<1>8. CASE UartParsed
  BY <1>8 DEF UartParsed
<1>9. CASE UartOverrun
  BY <1>9 DEF UartOverrun
<1>10. CASE UartReady
  BY <1>10 DEF UartReady
<1>11. CASE ReadUartBsp
  BY <1>11 DEF ReadUartBsp
<1>12. CASE ReadUartLookuptable
  BY <1>12 DEF ReadUartLookuptable
<1>13. CASE ReadUartIsp
  BY <1>13 DEF ReadUartIsp
<1>14. CASE SdParsed
  BY <1>14 DEF SdParsed
<1>15. CASE ReadSdBsp
  BY <1>15 DEF ReadSdBsp
<1>16. CASE ReadSdIsp
  BY <1>16 DEF ReadSdIsp
<1>17. CASE TestSram2
  BY <1>17 DEF TestSram2
<1>18. CASE InitDdr2
  BY <1>18 DEF InitDdr2
<1>19. CASE NoBsp
  BY <1>19 DEF NoBsp
<1>20. CASE NandReady
  BY <1>20 DEF NandReady
<1>21. CASE NandParsed
  BY <1>21 DEF NandParsed
<1>22. CASE InitAhbc
  BY <1>22 DEF InitAhbc
<1>23. CASE CopyCode
  BY <1>23 DEF CopyCode
<1>24. CASE VerifyCode
  <2>1. pc = "verify" /\ UNCHANGED <<src, asked, bsp>>
    BY <1>24 DEF VerifyCode
  <2>3. pc' \in {"main", "dead"}
    BY <1>24 DEF VerifyCode
  <2>2. QED
    BY <2>1, <2>3
<1>25. CASE DdrUp
  BY <1>25 DEF DdrUp
<1>26. CASE UNCHANGED vars
  BY <1>26
<1>28. CASE SdReadFailed
  BY <1>28 DEF SdReadFailed, Cut
<1>27. QED
  BY <1>1, <1>2, <1>3, <1>4, <1>5, <1>6, <1>7, <1>8, <1>9, <1>10, <1>11, <1>12,
     <1>13, <1>14, <1>15, <1>16, <1>17, <1>18, <1>19, <1>20, <1>21, <1>22, <1>23,
     <1>24, <1>25, <1>26, <1>28 DEF Next, Rom, Stopped

(* The invariant holds after any reset. *)
LEMMA InvInit == Init => BootInv
<1> SUFFICES ASSUME Init PROVE BootInv
  OBVIOUS
<1>1. hdr \in [1 .. HdrWords -> Words]
  BY DEF Init, Words
<1>2. TypeOK
  <2>1. /\ ddr \in [Ddr -> {"off", "starting", "ready"}]
        /\ i \in 0 .. HdrWords + 1 /\ slip \in 0 .. MaxLost + 1
    BY DEF Init
  <2>2. QED
    BY <1>1, <2>1 DEF Init, TypeOK, PCs, Staged
<1>3. Flow /\ Controllers /\ Upload /\ Cleared
  BY DEF Init, Flow, Controllers, Upload, Cleared, Early, OverUart, OverSd, Late, Ready,
         Waited
<1>4. QED
  BY <1>2, <1>3 DEF BootInv

(* And from then on. *)
LEMMA InvInductive == Spec => []BootInv
<1>1. BootInv /\ [Next]_vars => BootInv'
  BY TypeStep, FlowStep, ControllersStep, UploadStep, ClearedStep DEF BootInv
<1>2. QED
  BY InvInit, <1>1, PTL DEF Spec

-----------------------------------------------------------------------------
(* The variables keep their types for every length of the header: the loop *)
(* index passes the end by one word at most.                               *)
THEOREM BootTypeCorrect == Spec => []TypeOK
<1>1. BootInv => TypeOK
  BY DEF BootInv
<1>2. QED
  BY InvInductive, <1>1, PTL

(* start.S:282-293, 109-119: main runs out of a DDR that holds the code    *)
(* and, unless a header started its controller unwaited for, is up.        *)
THEOREM MainInVerifiedCode == Spec => []CodeVerified
<1>1. BootInv => CodeVerified
  BY DEF BootInv, CodeVerified, Flow, Controllers, Ready, Late, TypeOK
<1>2. QED
  BY InvInductive, <1>1, PTL

(* start.S:97-107: no copy to the DDR before a header was applied.         *)
THEOREM HeaderBeforeCopy == Spec => []SomeHeader
<1>1. BootInv => SomeHeader
  BY DEF BootInv, SomeHeader, Flow, Late
<1>2. QED
  BY InvInductive, <1>1, PTL

(* board.c:307-328: what the UART or the card sent is what main finds.     *)
THEOREM UploadKept == Spec => []UploadWhole
<1>1. BootInv => UploadWhole
  BY DEF BootInv, UploadWhole, Upload, Controllers, Late
<1>2. QED
  BY InvInductive, <1>1, PTL

(* board.c:381-383: a NAND boot that starts DDR2_C leaves no old magic.    *)
THEOREM StaleMagic == Spec => []StaleMagicCleared
<1>1. BootInv => StaleMagicCleared
  BY DEF BootInv, StaleMagicCleared, Cleared, Late
<1>2. QED
  BY InvInductive, <1>1, PTL

(* start.S:97-107: at most one header is applied in a boot.                *)
THEOREM HeaderOnce == Spec => OneHeader
<1>1. BootInv /\ [Next]_vars => [src # "none" => src' = src]_src
  <2> SUFFICES ASSUME BootInv, [Next]_vars, src # "none" PROVE src' = src
    OBVIOUS
  <2>1. pc \notin {"bsp_strap", "ddr2"}
    BY DEF BootInv, Flow, Early
  <2>2. CASE Rom
    BY <2>1, <2>2 DEF Rom, InitNandc, Strap, SdFormat, SdNoFormat, UartFormat,
       UpgradeFailed, Word, UartParsed, UartReady, ReadUartBsp, ReadUartLookuptable,
       ReadUartIsp, SdParsed, ReadSdBsp, ReadSdIsp, SdReadFailed, TestSram2, InitDdr2, NoBsp,
       NandReady, NandParsed, InitAhbc, CopyCode, VerifyCode, Begin, Goto, streamVars
  <2>3. CASE ~Rom
    BY <2>3 DEF Next, UartOverrun, DdrUp, Stopped, vars, streamVars
  <2>4. QED
    BY <2>2, <2>3
<1>2. QED
  BY InvInductive, <1>1, PTL DEF Spec, OneHeader

-----------------------------------------------------------------------------
(* Whose words are in the DDR is known, and main runs only behind Boot.    *)
Owned ==
  /\ bsp = "sent" \/ rest = "sent" \/ src \in {"uart", "sd"} => upload \in Uploads
  /\ phase # "boot" => pc = "main"
  /\ phase = "update" => Stage # "none"

MInv == BootInv /\ MTypeOK /\ Owned

USE MachineAssumption

LEMMA BootInvStep == BootInv /\ [Next]_vars => BootInv'
BY TypeStep, FlowStep, ControllersStep, UploadStep, ClearedStep DEF BootInv

-----------------------------------------------------------------------------
(* A step of Boot is a step of the machine's Next, and never one of main's.*)
LEMMA BootingStep == ASSUME MInv, Booting PROVE MInv'
<1>1. BootInv'
  BY BootInvStep DEF MInv, Booting, Next
<1>2. upload' \in Uploads \/ upload' = upload
  BY DEF Booting, HeaderRead
<1>3. vectors' \in BOOLEAN
  BY DEF MInv, MTypeOK, Booting
<1>4. MTypeOK'
  BY <1>1, <1>2, <1>3 DEF MInv, MTypeOK, Booting, BootInv, mainVars
<1>5. bsp' = "sent" \/ rest' = "sent" \/ src' \in {"uart", "sd"} => upload' \in Uploads
  <2>1. SUFFICES ASSUME upload' = upload, upload \notin Uploads,
                        bsp' = "sent" \/ rest' = "sent" \/ src' \in {"uart", "sd"}
                 PROVE  FALSE
    BY <1>2
  <2>2. bsp # "sent" /\ rest # "sent" /\ src \notin {"uart", "sd"}
    BY <2>1 DEF MInv, Owned
  <2>3. src' \notin {"uart", "sd"}
    BY <2>1, <2>2 DEF Booting, HeaderRead
  <2>4. pc \notin OverUart \cup OverSd
    BY <2>2 DEF MInv, BootInv, Flow
  <2>5. bsp' \in {bsp, "none"} /\ rest' = rest
    <3>1. CASE Rom
      BY <2>3, <2>4, <3>1 DEF Rom, InitNandc, Strap, SdFormat, SdNoFormat, UartFormat,
         UpgradeFailed, Word, UartParsed, UartReady, ReadUartBsp, ReadUartLookuptable,
         ReadUartIsp, SdParsed, ReadSdBsp, ReadSdIsp, SdReadFailed, TestSram2, InitDdr2,
         NoBsp, NandReady, NandParsed, InitAhbc, CopyCode, VerifyCode, Begin, Goto,
         Landed, memVars, OverUart, OverSd
    <3>2. CASE UartOverrun \/ DdrUp
      BY <3>2 DEF UartOverrun, DdrUp, memVars
    <3>3. QED
      BY <3>1, <3>2 DEF Booting
  <2>6. QED
    BY <2>1, <2>2, <2>3, <2>5
<1>6. phase' # "boot" => pc' = "main"
  <2>1. SUFFICES ASSUME pc = "main" PROVE pc' = "main"
    BY DEF MInv, Owned, Booting, mainVars
  <2>2. ~Rom
    BY <2>1 DEF Rom, InitNandc, Strap, SdFormat, SdNoFormat, UartFormat, UpgradeFailed,
       Word, UartParsed, UartReady, ReadUartBsp, ReadUartLookuptable, ReadUartIsp,
       SdParsed, ReadSdBsp, ReadSdIsp, SdReadFailed, TestSram2, InitDdr2, NoBsp,
       NandReady, NandParsed, InitAhbc, CopyCode, VerifyCode, Begin, Goto
  <2>3. QED
    BY <2>1, <2>2 DEF Booting, UartOverrun, DdrUp
<1>7. phase' = "update" => Stage' # "none"
  <2>1. SUFFICES ASSUME phase = "update" PROVE Stage' = Stage
    BY DEF MInv, Owned, Booting, mainVars
  <2>2. ~Rom /\ ~UartOverrun
    BY <2>1 DEF MInv, Owned, Rom, InitNandc, Strap, SdFormat, SdNoFormat, UartFormat,
       UpgradeFailed, Word, UartParsed, UartReady, ReadUartBsp, ReadUartLookuptable,
       ReadUartIsp, SdParsed, ReadSdBsp, ReadSdIsp, SdReadFailed, TestSram2, InitDdr2, NoBsp,
       NandReady, NandParsed, InitAhbc, CopyCode, VerifyCode, Begin, Goto, UartOverrun
  <2>3. UNCHANGED <<bsp, rest, upload, oldBsp, oldRest>>
    BY <2>2 DEF Booting, DdrUp, HeaderRead, streamVars, memVars
  <2>4. QED
    BY <2>3 DEF Stage, Value
<1>8. QED
  BY <1>1, <1>4, <1>5, <1>6, <1>7 DEF MInv, Owned

(* main leaves everything of Boot alone, but for the vectors.              *)
LEMMA MainSteps == ASSUME MInv, EnterMain \/ Main PROVE MInv'
<1>1. UNCHANGED vars
  BY DEF EnterMain, Main
<1>2. BootInv'
  BY <1>1, BootInvStep DEF MInv
<1>3. Stage \in Stages \cup {"none"}
  BY DEF Stage, Stages
<1>4. phase' # "boot" => pc = "main"
  BY DEF MInv, Owned, EnterMain, Main, Store!Goto, Store!Update, Store!Updated, Store!GoSd,
         Store!GoNand, Store!GiveUp
<1>5. MTypeOK'
  <2>1. CASE EnterMain
    BY <2>1, <1>2 DEF EnterMain, MInv, MTypeOK, BootInv, Store!Goto
  <2>2. CASE Main
    <3>1. /\ flash' \in Stages \cup {"none"} /\ run' \in Stages \cup {"none"}
          /\ phase' \in {"boot", "main", "update", "load", "run", "stuck"}
      BY <2>2, <1>3 DEF Main, MInv, MTypeOK, Store!Goto, Store!Update, Store!Updated,
         Store!GoSd, Store!GoNand, Store!GiveUp, Store!Any
    <3>2. page0' \in Stages \cup {"blank"}
      <4>1. phase = "update" => Stage # "none"
        BY DEF MInv, Owned
      <4>2. QED
        BY <2>2, <1>3, <4>1 DEF Main, PageZeroWritten, MInv, MTypeOK, Stages
    <3>3. QED
      BY <2>2, <1>2, <3>1, <3>2 DEF Main, machVars, MInv, MTypeOK, BootInv
  <2>3. QED
    BY <2>1, <2>2
<1>6. UNCHANGED <<upload, Stage>>
  BY <1>1 DEF EnterMain, Main, machVars, vars, streamVars, memVars, Stage, Value
<1>7. phase' = "update" => Stage # "none"
  BY DEF MInv, Owned, EnterMain, Main, Store!Goto, Store!Update, Store!Updated, Store!GoSd,
         Store!GoNand, Store!GiveUp
<1>8. QED
  BY <1>1, <1>2, <1>4, <1>5, <1>6, <1>7 DEF MInv, Owned, vars, streamVars, memVars

-----------------------------------------------------------------------------
(* What a reset leaves of the words in the DDR has an owner.               *)
LEMMA LeftInArea ==
  ASSUME MInv, NEW l \in Left PROVE l[1] \in Area /\ l[2] \in Area
<1>1. ASSUME NEW part \in Staged, NEW old \in Area, part = "sent" => upload \in Uploads
      PROVE  Value(part, old) \in Area
  BY <1>1 DEF Value, Staged, Area, Stages
<1>2. \A c \in Cut : /\ c[1] \in Staged /\ (c[1] = "sent" => upload \in Uploads)
                     /\ c[2] \in Staged /\ (c[2] = "sent" => upload \in Uploads)
  BY DEF Cut, Landed, Staged, MInv, MTypeOK, TypeOK, Owned, BootInv, Flow, OverSd
<1>3. oldBsp \in Area /\ oldRest \in Area
  BY DEF MInv, MTypeOK
<1>4. QED
  BY <1>1, <1>2, <1>3 DEF Left, Area, Stages

(* What a reset makes of the program holds BootInv as power-on does.       *)
LEMMA RebootStep ==
  ASSUME MInv, Reboot, pc' \in {"reset", "dead"},
         ddr' \in [Ddr -> {"off", "ready"}],
         sram2' \in BOOLEAN, code' \in BOOLEAN, remap' \in BOOLEAN,
         bsp' \in {"old", "none"}, rest' = "old",
         remap' => code' /\ ddr'[Backing] = "ready",
         oldBsp' \in Area, oldRest' \in Area, vectors' \in BOOLEAN
  PROVE  MInv'
<1>1. TypeOK'
  <2>1. hdr' \in [1 .. HdrWords -> Words]
    BY DEF Reboot, Words
  <2>2. ddr' \in [Ddr -> {"off", "starting", "ready"}]
    OBVIOUS
  <2>3. i' \in 0 .. HdrWords + 1 /\ slip' \in 0 .. MaxLost + 1 /\ asked' \in SUBSET Ddr
    BY DEF Reboot
  <2>4. src' = "none"
    BY DEF Reboot
  <2>5. QED
    BY <2>1, <2>2, <2>3, <2>4 DEF TypeOK, PCs, Staged
<1>2. (Flow /\ Controllers /\ Upload /\ Cleared)'
  BY DEF Reboot, Flow, Controllers, Upload, Cleared, Early, OverUart, OverSd, Late, Ready,
         Waited
<1>3. page0' \in Stages \cup {"blank"}
  <2>1. phase = "update" => Stage \in Stages
    BY DEF MInv, Owned, Stage, Stages
  <2>2. QED
    BY <2>1 DEF Reboot, PageZeroWritten, MInv, MTypeOK, Stages
<1>4. MTypeOK'
  BY <1>1, <1>3 DEF Reboot, MInv, MTypeOK
<1>5. Owned'
  BY DEF Reboot, Owned
<1>6. QED
  BY <1>1, <1>2, <1>4, <1>5 DEF MInv, BootInv

LEMMA WarmResetStep == ASSUME MInv, WarmReset PROVE MInv'
<1>1. PICK l \in Left : /\ bsp' = (IF l[1] = "none" THEN "none" ELSE "old")
                        /\ oldBsp' = (IF l[1] = "none" THEN oldBsp ELSE l[1])
                        /\ oldRest' = l[2]
  BY DEF WarmReset
<1>2. oldBsp' \in Area /\ oldRest' \in Area /\ bsp' \in {"old", "none"}
  BY <1>1, LeftInArea DEF MInv, MTypeOK
<1>3. ddr' \in [Ddr -> {"off", "ready"}] /\ sram2' \in BOOLEAN /\ code' \in BOOLEAN
  BY DEF WarmReset, MInv, MTypeOK, TypeOK
<1>4. remap' \in BOOLEAN /\ (remap' => code' /\ ddr'[Backing] = "ready")
  BY DEF WarmReset, MInv, BootInv, Controllers, MTypeOK, TypeOK
<1>5. Reboot /\ pc' \in {"reset", "dead"} /\ rest' = "old" /\ vectors' \in BOOLEAN
  BY DEF WarmReset, MInv, MTypeOK
<1>6. QED
  BY <1>2, <1>3, <1>4, <1>5, RebootStep

LEMMA ColdResetStep == ASSUME MInv, ColdReset PROVE MInv'
<1>1. /\ ddr' \in [Ddr -> {"off", "ready"}] /\ sram2' \in BOOLEAN /\ code' \in BOOLEAN
      /\ remap' = FALSE /\ vectors' \in BOOLEAN /\ bsp' = "none" /\ rest' = "old"
      /\ Reboot /\ pc' = "reset"
  BY DEF ColdReset
<1>2. oldBsp' \in Area /\ oldRest' \in Area
  BY DEF ColdReset, Area, MInv, MTypeOK
<1>3. QED
  BY <1>1, <1>2, RebootStep

LEMMA MachineInit == MInit => MInv
<1> SUFFICES ASSUME MInit PROVE MInv
  OBVIOUS
<1>1. BootInv
  BY InvInit DEF MInit
<1>2. MTypeOK
  BY <1>1 DEF MInit, MTypeOK, BootInv, Area, Stages
<1>3. Owned
  BY DEF MInit, Owned, Init
<1>4. QED
  BY <1>1, <1>2, <1>3 DEF MInv

(* The invariant of the machine over any number of resets.                 *)
LEMMA MachineInductive == MSpec => []MInv
<1>1. MInv /\ [MNext]_mvars => MInv'
  <2> SUFFICES ASSUME MInv, [MNext]_mvars PROVE MInv'
    OBVIOUS
  <2>1. CASE UNCHANGED mvars
    <3>1. UNCHANGED vars
      BY <2>1 DEF mvars
    <3>2. BootInv'
      BY <3>1, BootInvStep DEF MInv
    <3>3. MTypeOK'
      BY <2>1, <3>2 DEF mvars, mainVars, machVars, MInv, MTypeOK, BootInv
    <3>4. Owned'
      BY <2>1 DEF mvars, mainVars, machVars, vars, streamVars, memVars, MInv, Owned, Stage,
         Value
    <3>5. QED
      BY <3>2, <3>3, <3>4 DEF MInv
  <2>2. QED
    BY <2>1, BootingStep, MainSteps, WarmResetStep, ColdResetStep DEF MNext, Halted
<1>2. QED
  BY MachineInit, <1>1, PTL DEF MSpec

-----------------------------------------------------------------------------
(* The variables of the board keep their types over every number of        *)
(* resets; page 0 holds the words of an upload or is as it was.            *)
THEOREM MachineTypeCorrect == MSpec => []MTypeOK
<1>1. MInv => MTypeOK
  BY DEF MInv
<1>2. QED
  BY MachineInductive, <1>1, PTL

(* main.c:31-57: for every set of uploads, wherever resets have cut earlier*)
(* boots short, main finds the upload of this boot, whole, or no magic.    *)
THEOREM MainTakesThisUpload == MSpec => []TakesThisUpload
<1>1. MInv => TakesThisUpload
  <2> SUFFICES ASSUME MInv, phase # "boot" PROVE TakesThisUpload
    BY DEF TakesThisUpload
  <2>1. pc = "main"
    BY DEF MInv, Owned
  <2>2. ASSUME src \in {"uart", "sd"}, Backing \notin asked \ Waited
        PROVE  Stage = upload
    <3>1. bsp = "sent" /\ rest = "sent"
      BY <2>1, <2>2 DEF MInv, BootInv, Upload, Controllers, Late
    <3>2. upload \in Uploads
      BY <2>2 DEF MInv, Owned
    <3>3. QED
      BY <3>1, <3>2 DEF Stage, Value, Stages
  <2>3. ASSUME src = "nand", Backing = "C", "C" \in asked
        PROVE  Stage = "none"
    <3>1. bsp = "none"
      BY <2>1, <2>3 DEF MInv, BootInv, Cleared, Late
    <3>2. QED
      BY <3>1 DEF Stage, Value, Stages
  <2>4. QED
    BY <2>2, <2>3 DEF TakesThisUpload
<1>2. QED
  BY MachineInductive, <1>1, PTL

(* start.S:282-293: in every boot of a board that is reset at any step.    *)
THEOREM EveryBootInVerifiedCode == MSpec => []CodeVerified
<1>1. MInv => CodeVerified
  BY DEF MInv, BootInv, CodeVerified, Flow, Controllers, Ready, Late, TypeOK
<1>2. QED
  BY MachineInductive, <1>1, PTL
=============================================================================
