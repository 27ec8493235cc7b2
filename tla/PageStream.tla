----------------------------- MODULE PageStream -----------------------------
(***************************************************************************)
(* What nand_read promises: a transfer moves pages one after the other, in *)
(* address order around the chip, and passes over a page only if the block *)
(* it is in is marked bad.  Nothing is said of commands, DMA or polling.   *)
(***************************************************************************)
EXTENDS Naturals

CONSTANTS NumBlocks, PagesPerBlock, MaxPages   \* positive numbers

Blocks == 0 .. NumBlocks - 1
Addr   == Blocks \X (0 .. PagesPerBlock - 1)

VARIABLES
  bad,     \* the blocks marked bad
  busy,    \* is a transfer under way?
  want,    \* number of pages it was asked to move
  first,   \* where it was asked to start
  moved,   \* number of pages it has moved
  place    \* place[i]: where page i was moved

vars == <<bad, busy, want, first, moved, place>>

(* Block b + k around the chip, for k up to NumBlocks. *)
Around(b, k) == IF b + k < NumBlocks THEN b + k ELSE b + k - NumBlocks

Succ(a) == IF a[2] + 1 < PagesPerBlock THEN <<a[1], a[2] + 1>> ELSE <<Around(a[1], 1), 0>>

(* The first page the transfer has not moved yet, bad block or not. *)
Cursor == IF moved = 0 THEN first ELSE Succ(place[moved - 1])

(* Page a is the first one from c on that is not in a bad block. *)
NextGood(c, a) ==
  /\ a[1] \notin bad
  /\ \/ a = c
     \/ \E k \in 1 .. NumBlocks - 1 :
          /\ a = <<Around(c[1], k), 0>>
          /\ \A j \in 0 .. k - 1 : Around(c[1], j) \in bad

Init ==
  /\ bad \in SUBSET Blocks
  /\ busy = FALSE
  /\ want = 0 /\ moved = 0
  /\ first = <<0, 0>>
  /\ place = [i \in 0 .. MaxPages - 1 |-> <<0, 0>>]

(* A transfer of up to MaxPages pages is asked for. *)
Begin ==
  /\ ~busy /\ busy' = TRUE
  /\ want' \in 0 .. MaxPages /\ first' \in Addr /\ moved' = 0
  /\ place' = [i \in 0 .. MaxPages - 1 |-> <<0, 0>>]
  /\ bad' = bad

Move ==
  /\ busy /\ moved < want
  /\ \E a \in Addr : NextGood(Cursor, a) /\ place' = [place EXCEPT ![moved] = a]
  /\ moved' = moved + 1
  /\ UNCHANGED <<bad, busy, want, first>>

(* It is over only when it has moved every page it was asked to move. *)
End ==
  /\ busy /\ moved = want
  /\ busy' = FALSE
  /\ UNCHANGED <<bad, want, first, moved, place>>

(* Blocks are marked only while no transfer is under way. *)
Mark ==
  /\ ~busy
  /\ bad' \in SUBSET Blocks /\ bad \subseteq bad'
  /\ UNCHANGED <<busy, want, first, moved, place>>

Next == Begin \/ Move \/ End \/ Mark
Spec == Init /\ [][Next]_vars
=============================================================================
