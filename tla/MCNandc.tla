------------------------------- MODULE MCNandc -------------------------------
(***************************************************************************)
(* The driver on small chips.  Initially at most one page is dirty and no  *)
(* cell fails: the transfers themselves dirty the rest, and as the driver  *)
(* never reads the status of a program, a failing block changes nothing of *)
(* what it does.                                                           *)
(***************************************************************************)
EXTENDS Nandc

MCInit ==
  /\ NandInit
  /\ defect = {}
  /\ Cardinality({a \in Addr : page[a] # Blank}) <= 1
MCSpec == MCInit /\ [][NandNext]_nandVars
=============================================================================
