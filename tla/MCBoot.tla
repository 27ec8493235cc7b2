-------------------------------- MODULE MCBoot --------------------------------
(* Boot with every header there is, and its fairness for liveness. *)
EXTENDS Boot
AllHeaders == [1 .. HdrWords -> Words]
FairSpec == Spec /\ Fairness
=============================================================================
