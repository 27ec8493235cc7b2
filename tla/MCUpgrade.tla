------------------------------ MODULE MCUpgrade ------------------------------
(***************************************************************************)
(* The whole NAND path on a chip of NumBlocks blocks.  Initially the marked*)
(* blocks hold anything and of the others at most MaxDirty pages are dirty.*)
(* i1 and i2 are uploads, cut is what is left of one that was cut; two of  *)
(* the names may be given one value.                                       *)
(***************************************************************************)
EXTENDS Upgrade

CONSTANTS i1, i2, cut, Pages1, Pages2, PagesCut, MaxDirty

MCImages   == {i1, i2, cut}
MCCuts     == {cut} \ {i1, i2}
MCImgPages == [im \in MCImages |-> IF im = i1 THEN Pages1 ELSE IF im = i2 THEN Pages2 ELSE PagesCut]
MCData     == {[img |-> im, idx |-> k] : im \in MCImages, k \in 0 .. MaxPages}

MCInit ==
  /\ Init
  /\ defect \subseteq {1}
  /\ \A b \in bad, p \in Pages : page[<<b, p>>] = Garbled
  /\ Cardinality({a \in Addr : a[1] \notin bad /\ page[a] # Blank}) <= MaxDirty
MCSpec == MCInit /\ [][Next]_vars
MCSoundSpec == MCInit /\ bad = {} /\ defect = {} /\ [][Next]_vars
MCLiveSpec == MCSpec /\ Fairness
=============================================================================
