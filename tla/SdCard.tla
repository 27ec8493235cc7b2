-------------------------------- MODULE SdCard --------------------------------
(***************************************************************************)
(* The SD slot with its card, and the SD host controller, as sdc.c and     *)
(* sdc_cntr.c use them.  External to the repository's code.                *)
(*                                                                         *)
(* A card answers CMD13 and CMD7 only if it has been given the relative    *)
(* address in the argument, and an illegal command not at all.  It may be  *)
(* pulled out, and another one put in, at any time.                        *)
(***************************************************************************)
EXTENDS Integers

CONSTANTS
  Cards, NoCard,
  HighCap,      \* the high-capacity cards, addressed by sector
  Rcas,         \* relative addresses a card may choose, never 0
  Batches,      \* FIFO fills of a block: 8 in the code
  MaxChanges    \* bound: removals and insertions

ASSUME CardAssumption ==
  /\ NoCard \notin Cards /\ HighCap \subseteq Cards
  /\ Rcas \subseteq Nat \ {0} /\ Batches \in Nat \ {0} /\ MaxChanges \in Nat

VARIABLES
  slot,      \* the card in the slot
  cst,       \* its state
  rca,       \* its relative address
  busy,      \* is it still powering up?
  reading,   \* card and sector of the block being read
  sent,      \* batches of it that are in the FIFO or were taken from it
  right,     \* have they come over the bus without an error?
  fifo,      \* FIFO_OVERRUN: a batch is in the FIFO
  crcFail,   \* DATA_CRC_FAIL, which stays set until it is cleared
  changes

cardVars == <<slot, cst, rca, busy>>
dataVars == <<reading, sent, right, fifo, crcFail>>
sdVars   == <<cardVars, dataVars, changes>>

CardStates == {"idle", "ready", "ident", "stby", "tran", "data"}
Nowhere == [card |-> NoCard, sector |-> 0]

SdCardTypeOK ==
  /\ slot \in Cards \cup {NoCard}
  /\ cst \in CardStates
  /\ rca \in Rcas \cup {0}
  /\ busy \in BOOLEAN
  /\ reading.card \in Cards \cup {NoCard} /\ reading.sector \in Nat
  /\ sent \in 0 .. Batches
  /\ right \in BOOLEAN /\ fifo \in BOOLEAN /\ crcFail \in BOOLEAN
  /\ changes \in 0 .. MaxChanges

(* A reset of the board leaves the card where it was. *)
SdCardInit ==
  /\ slot \in Cards
  /\ \/ cst = "idle" /\ rca = 0
     \/ cst \in {"stby", "tran", "data"} /\ rca \in Rcas
  /\ busy = TRUE
  /\ reading = Nowhere /\ sent = Batches /\ right = TRUE
  /\ fifo = FALSE /\ crcFail = FALSE /\ changes = 0

In(states)    == slot # NoCard /\ cst \in states
Addressed(r)  == In({"stby", "tran", "data"}) /\ rca = r

-----------------------------------------------------------------------------
PowerUp ==
  /\ busy /\ slot # NoCard
  /\ busy' = FALSE
  /\ UNCHANGED <<slot, cst, rca, dataVars, changes>>

(* A batch comes in; the CRC is behind the last one. *)
SendBatch ==
  /\ In({"data"}) /\ sent < Batches /\ ~fifo
  /\ fifo' = TRUE /\ sent' = sent + 1
  /\ right' \in {right, FALSE}
  /\ crcFail' = (crcFail \/ (sent' = Batches /\ ~right'))
  /\ UNCHANGED <<cardVars, reading, changes>>

BlockSent ==
  /\ In({"data"}) /\ sent = Batches
  /\ cst' = "tran"
  /\ UNCHANGED <<slot, rca, busy, dataVars, changes>>

ChangeCard ==
  /\ changes < MaxChanges
  /\ slot' \in (IF slot = NoCard THEN Cards ELSE {NoCard})
  /\ cst' = "idle" /\ rca' = 0 /\ busy' = TRUE
  /\ changes' = changes + 1
  /\ UNCHANGED dataVars

Slot == PowerUp \/ SendBatch \/ BlockSent
=============================================================================
