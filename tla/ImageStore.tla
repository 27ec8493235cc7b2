------------------------------ MODULE ImageStore ------------------------------
(***************************************************************************)
(* What main promises about images: main.c as its user sees it, without    *)
(* blocks, pages and commands.  One image is staged in the DDR or none, an *)
(* image being whatever main takes for one behind a magic;                 *)
(* the flash holds a complete image or none that is promised to boot; what *)
(* runs is the staged image or the one in the flash.                       *)
(***************************************************************************)
CONSTANTS Images, None

VARIABLES phase, stage, flash, run
vars == <<phase, stage, flash, run>>

Any == Images \cup {None}

Init == phase = "boot" /\ stage \in Any /\ flash = None /\ run = None

Goto(from, to) == phase = from /\ phase' = to

(* Start-up has left an image at ISP_UPDATE_BASE, or none; or it failed,   *)
(* perhaps in the middle of an upload.                                     *)
Enter ==
  /\ Goto("boot", "main") /\ stage' \in Any
  /\ UNCHANGED <<flash, run>>
Fail ==
  /\ Goto("boot", "dead") /\ stage' \in Any
  /\ UNCHANGED <<flash, run>>

(* An update gives up what the flash held, and ends with all of the staged *)
(* image stored or with nothing promised.                                  *)
Update ==
  /\ Goto("main", "update") /\ stage # None /\ flash' = None
  /\ UNCHANGED <<stage, run>>
Updated ==
  /\ Goto("update", "load") /\ flash' \in {stage, None}
  /\ UNCHANGED <<stage, run>>

(* The staged image runs in place of the one in the flash.                 *)
GoSd ==
  /\ Goto("main", "run") /\ stage # None /\ run' = stage
  /\ UNCHANGED <<stage, flash>>

(* What the flash holds runs: without a stage, or after an update.         *)
GoNand ==
  /\ Goto("load", "run") \/ (stage = None /\ Goto("main", "run"))
  /\ run' \in Any /\ (flash # None => run' = flash)
  /\ UNCHANGED <<stage, flash>>

(* The flash driver gives up, or looks for a good block for ever: main     *)
(* stays where it is until the next reset.                                 *)
GiveUp ==
  /\ phase \in {"main", "update", "load"} /\ phase' = "stuck"
  /\ UNCHANGED <<stage, flash, run>>

(* Nothing that a reset interrupts takes an image out of the flash.  The   *)
(* image that ran may have used the staging area for itself.               *)
Reset ==
  /\ phase # "boot" /\ phase' = "boot"
  /\ stage' \in IF phase = "run" THEN Any ELSE {stage, None}
  /\ run' = None
  /\ UNCHANGED flash

Next == Enter \/ Fail \/ Update \/ Updated \/ GoSd \/ GoNand \/ GiveUp \/ Reset
Spec == Init /\ [][Next]_vars
=============================================================================
