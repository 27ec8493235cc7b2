------------------------------ MODULE MCMachine -------------------------------
(* Three uploads: the header of up1 starts DDR2_C, that of up2 leaves the  *)
(* controllers to what they are, that of up3 ends in an address.           *)
EXTENDS Machine

CONSTANTS up1, up2, up3

MCUploads  == {up1, up2, up3}
MCHeaderOf ==
  [x \in MCUploads |-> CASE x = up1 -> <<"C", "plain">>
                          [] x = up2 -> <<"plain", "plain">>
                          [] x = up3 -> <<"plain", "C">>]
MCHeaders  == {MCHeaderOf[x] : x \in MCUploads}

(* Power-on, with or without a header in the flash.                        *)
MCInit ==
  /\ MInit
  /\ bsp = "none" /\ oldBsp = "torn" /\ oldRest = "none" /\ ~vectors
  /\ ~remap /\ ~code /\ \A d \in Ddr : ddr[d] = "off"
MCSpec == MCInit /\ [][MNext]_mvars /\ MFairness
MCSafetySpec == MCInit /\ [][MNext]_mvars
=============================================================================
