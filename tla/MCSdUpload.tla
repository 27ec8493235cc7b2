------------------------------ MODULE MCSdUpload ------------------------------
(* SdUpload with its fairness, and cards of both kinds. *)
EXTENDS SdUpload
CONSTANTS c1, c2
MCCards   == {c1, c2}
MCHighCap == {c2}
FairSpec == Spec /\ Fairness
=============================================================================
