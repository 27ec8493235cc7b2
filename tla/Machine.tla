------------------------------- MODULE Machine --------------------------------
(***************************************************************************)
(* The board over any number of resets: Boot brings it to main, and main   *)
(* keeps the promises of ImageStore, as Upgrade shows.  What joins them is *)
(* memory: an upload in the DDR, a header in page 0 of the flash, and what *)
(* of either a reset leaves, in the middle of an upload or an update.      *)
(***************************************************************************)
EXTENDS Boot

CONSTANTS
  Uploads,    \* what a UART or a card may send
  HeaderOf,   \* the header it begins with
  MaxResets   \* bound: resets

(* "none": no magic; "torn": a magic, and words that are not of one upload.*)
Stages == Uploads \cup {"torn"}
Area   == Stages \cup {"none", "slipped"}

ASSUME MachineAssumption ==
  /\ HeaderOf \in [Uploads -> Headers] /\ Headers # {}
  /\ Uploads \cap {"none", "torn", "slipped", "sent", "old", "blank"} = {}
  /\ MaxResets \in Nat

VARIABLES
  phase,    \* where main is: "boot" before it
  flash,    \* the image the flash is promised to boot, or "none"
  run,      \* the image that runs
  page0,    \* whose header is in page 0 of the flash, "torn" or "blank"
  upload,   \* what the UART or the card of this boot sends
  oldBsp,   \* what "old" stands for in bsp
  oldRest,  \* and in rest
  vectors,  \* are the exception vectors in the ROM's copy those of the ROM?
  resets    \* resets so far

mainVars == <<phase, flash, run, page0>>
machVars == <<upload, oldBsp, oldRest, vectors, resets>>
mvars == <<vars, mainVars, machVars>>

MTypeOK ==
  /\ TypeOK
  /\ phase \in {"boot", "main", "update", "load", "run", "stuck"}
  /\ flash \in Stages \cup {"none"} /\ run \in Stages \cup {"none"}
  /\ page0 \in Stages \cup {"blank"}
  /\ upload \in Uploads \cup {"none"}
  /\ oldBsp \in Area /\ oldRest \in Area
  /\ vectors \in BOOLEAN
  /\ resets \in 0 .. MaxResets

MInit ==
  /\ Init
  /\ phase = "boot" /\ flash = "none" /\ run = "none"
  /\ page0 \in Uploads \cup {"blank"}
  /\ upload = "none" /\ resets = 0
  /\ oldBsp \in Area \ {"none"} /\ oldRest \in Area
  /\ vectors \in BOOLEAN

-----------------------------------------------------------------------------
(* What is at ISP_UPDATE_BASE as main sees it: an image is there if there  *)
(* is a magic; it is whole if both parts are of one upload.                *)
Value(part, old) ==
  IF part = "sent" THEN upload ELSE IF part = "old" THEN old ELSE part
Stage ==
  LET b == Value(bsp, oldBsp)
      r == Value(rest, oldRest) IN
  IF b \notin Stages THEN "none" ELSE IF b \in Uploads /\ r = b THEN b ELSE "torn"

Store == INSTANCE ImageStore WITH Images <- Stages, None <- "none", stage <- Stage

(* The header that is read begins an upload, or is in page 0 of the flash. *)
HeaderRead ==
  IF src' = src THEN upload' = upload
  ELSE IF src' = "nand"
       THEN /\ page0 # "blank" /\ upload' = upload
            /\ page0 \in Uploads => hdr' = HeaderOf[page0]
       ELSE upload' \in Uploads /\ hdr' = HeaderOf[upload']

(* "No BSP" is for a page 0 without the magic. *)
Booting ==
  /\ Rom \/ UartOverrun \/ DdrUp
  /\ HeaderRead
  /\ pc = "ddr2" /\ pc' = "dead" => page0 \notin Uploads
  /\ vectors' = (vectors \/ pc = "copy")
  /\ UNCHANGED <<mainVars, oldBsp, oldRest, resets>>

(* main calls nand_init, which writes the geometry through flashdev, that  *)
(* is NULL: over the vectors.                                              *)
EnterMain ==
  /\ pc = "main" /\ Store!Goto("boot", "main")
  /\ vectors' = FALSE
  /\ UNCHANGED <<vars, flash, run, page0, upload, oldBsp, oldRest, resets>>

(* What an update may leave in page 0, at its end or where it stops. *)
PageZeroWritten == IF phase = "update" THEN {page0, Stage, "torn"} ELSE {page0}

(* main may also end in an error loop of the flash driver, or look for a   *)
(* good block on a chip that has none left: GiveUp.                        *)
Main ==
  /\ UNCHANGED <<vars, machVars>>
  /\ Store!Update \/ Store!Updated \/ Store!GoSd \/ Store!GoNand \/ Store!GiveUp
  /\ page0' \in PageZeroWritten

-----------------------------------------------------------------------------
(* What is in the DDR when the reset comes; an image that runs may have    *)
(* used the memory for itself.                                             *)
Left == {<<Value(c[1], oldBsp), Value(c[2], oldRest)>> : c \in Cut}
        \cup (IF phase = "run" THEN {<<"none", "torn">>, <<"torn", "torn">>} ELSE {})

(* Every variable of the program is as at power-on, but for what memory,   *)
(* SRAM and the DDR controllers keep.                                      *)
Reboot ==
  /\ pc # "reset" /\ resets < MaxResets /\ resets' = resets + 1
  /\ src' = "none" /\ i' = 0 /\ asked' = {} /\ slip' = 0
  /\ hdr' = [k \in 1 .. HdrWords |-> "plain"]
  /\ phase' = "boot" /\ run' = "none" /\ flash' = flash /\ upload' = "none"
  /\ page0' \in PageZeroWritten

(* A warm reset: the DDR and its controllers go on as they are.            *)
WarmReset ==
  /\ Reboot
  /\ \E l \in Left : /\ bsp' = (IF l[1] = "none" THEN "none" ELSE "old")
                     /\ oldBsp' = (IF l[1] = "none" THEN oldBsp ELSE l[1])
                     /\ oldRest' = l[2]
  /\ rest' = "old"
  /\ ddr' = [d \in Ddr |-> IF ddr[d] = "ready" THEN "ready" ELSE "off"]
  /\ remap' \in IF ddr[Backing] = "ready" THEN {remap, FALSE} ELSE {FALSE}
  /\ UNCHANGED <<code, vectors, sram2>>
  /\ pc' = IF remap' /\ ~vectors THEN "dead" ELSE "reset"

(* A cold one: nothing is kept.                                            *)
ColdReset ==
  /\ Reboot
  /\ bsp' = "none" /\ rest' = "old" /\ oldRest' = "none" /\ UNCHANGED oldBsp
  /\ ddr' = [d \in Ddr |-> "off"] /\ remap' = FALSE /\ code' = FALSE
  /\ vectors' = FALSE /\ sram2' \in BOOLEAN
  /\ pc' = "reset"

Halted == (pc = "dead" \/ phase \in {"run", "stuck"}) /\ UNCHANGED mvars

MNext == Booting \/ EnterMain \/ Main \/ WarmReset \/ ColdReset \/ Halted

MSpec == MInit /\ [][MNext]_mvars
MFairness == WF_mvars(Booting) /\ WF_mvars(EnterMain \/ Main)

-----------------------------------------------------------------------------
(* main.c:31-57: what main takes for an upload, to write it or to run it,   *)
(* is the one this boot has read, all of it, whatever earlier boots left   *)
(* there and wherever they were interrupted; in a boot from the flash it   *)
(* takes nothing, if the header there starts the DDR2_C behind ISP_Base.   *)
TakesThisUpload ==
  phase # "boot" =>
    /\ src \in {"uart", "sd"} /\ Backing \notin asked \ Waited => Stage = upload
    /\ src = "nand" /\ Backing = "C" /\ "C" \in asked => Stage = "none"

(* "use DDR2 header to detemine UART/SD data is right" (main.c:31-32): main *)
(* updates the flash only with one whole upload.                           *)
UpdatesWhole == phase = "update" => Stage \in Uploads

(* No boot goes on for ever before main, nor does main between its calls   *)
(* of the flash driver: an image runs, or the boot is in an error loop or  *)
(* in the driver for good.  (When the driver comes back BootEnds says.)    *)
EveryBootDecides == pc = "reset" ~> pc = "dead" \/ phase \in {"run", "stuck"}
=============================================================================
