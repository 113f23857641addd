------------------------------ MODULE Pcnet32 ------------------------------
(***************************************************************************)
(* pcnet32.c: the rings of descriptors that the driver shares with the     *)
(* PCNET32 chip (external).  The OWN bit of a descriptor says whose it is. *)
(* Each side goes round the ring on its own and never looks where the      *)
(* other is; both run at the same time.                                    *)
(***************************************************************************)
EXTENDS Naturals, Sequences

CONSTANTS
  RX_RING_SIZE, TX_RING_SIZE,
  WRAP,          \* range of cur_rx and cur_tx: 2^32 in the code
  MaxFrames      \* bound: frames that come, and frames to send

DescriptorConstantsOK ==
  /\ RX_RING_SIZE \in Nat \ {0} /\ TX_RING_SIZE \in Nat \ {0}
  /\ WRAP \in Nat \ {0} /\ WRAP % RX_RING_SIZE = 0 /\ WRAP % TX_RING_SIZE = 0
  /\ MaxFrames \in Nat

VARIABLES
  running,            \* external: STRT given, no STOP since
  sync_tx,            \* eth_transmit waits for the chip; 0 unless edited
  rx_ring, tx_ring,
  cur_rx, cur_tx,
  chipRx, chipTx,     \* external: the chip's next descriptors
  pc, result,         \* the driver; what eth_transmit returned last
  got,                \* the frame eth_receive returned last
  arrived,            \* history: good frames in the ring, oldest first
  passed, wire,       \* history: frames given to the chip, and sent by it
  rxFrames, txFrames  \* frames so far

rxVars == <<rx_ring, cur_rx, chipRx, got, arrived, rxFrames>>
txVars == <<sync_tx, tx_ring, cur_tx, chipTx, result, passed, wire, txFrames>>
vars == <<running, rxVars, txVars, pc>>

RxSlot == 0 .. RX_RING_SIZE - 1
TxSlot == 0 .. TX_RING_SIZE - 1
Frame == 0 .. MaxFrames    \* 0: none
Kind == {"good", "runt", "error"}
Result == {"none", "sent", "long", "full", "timeout", "error"}

TypeOK ==
  /\ running \in BOOLEAN /\ sync_tx \in BOOLEAN
  /\ rx_ring \in [RxSlot -> [own : BOOLEAN, frame : Frame, kind : Kind]]
  /\ tx_ring \in [TxSlot -> [own : BOOLEAN, frame : Frame, err : BOOLEAN]]
  /\ cur_rx \in 0 .. WRAP - 1 /\ cur_tx \in 0 .. WRAP - 1
  /\ chipRx \in RxSlot /\ chipTx \in TxSlot
  /\ pc \in {"idle", "receive", "wait"} /\ result \in Result
  /\ got \in Frame /\ arrived \in Seq(Frame) /\ passed \in Seq(Frame) /\ wire \in Seq(Frame)
  /\ rxFrames \in Frame /\ txFrames \in Frame

RxEntry == cur_rx % RX_RING_SIZE
TxEntry == cur_tx % TX_RING_SIZE
LastTx == (cur_tx + WRAP - 1) % TX_RING_SIZE    \* the descriptor passed last

Advance(c) == (c + 1) % WRAP

----------------------------------------------------------------------------
(* The chip *)

\* A frame goes to the next descriptor, if the chip has it.
ChipReceives ==
  /\ running /\ rx_ring[chipRx].own /\ rxFrames < MaxFrames
  /\ rxFrames' = rxFrames + 1
  /\ \E k \in Kind :
       /\ rx_ring' = [rx_ring EXCEPT ![chipRx] = [own |-> FALSE, frame |-> rxFrames', kind |-> k]]
       /\ arrived' = IF k = "good" THEN Append(arrived, rxFrames') ELSE arrived
  /\ chipRx' = (chipRx + 1) % RX_RING_SIZE
  /\ UNCHANGED <<running, cur_rx, got, txVars, pc>>

\* It gives a descriptor back, with an error or without.
ChipSends ==
  /\ running /\ tx_ring[chipTx].own
  /\ \E e \in BOOLEAN : tx_ring' = [tx_ring EXCEPT ![chipTx].own = FALSE, ![chipTx].err = e]
  /\ wire' = Append(wire, tx_ring[chipTx].frame)
  /\ chipTx' = (chipTx + 1) % TX_RING_SIZE
  /\ UNCHANGED <<running, sync_tx, rxVars, cur_tx, result, passed, txFrames, pc>>

----------------------------------------------------------------------------
(* eth_reset *)

\* Start: the chip is reset, the rings are set up; it may not initialise.
Startup ==
  /\ pc = "idle" /\ running' \in BOOLEAN
  /\ rx_ring' = [i \in RxSlot |-> [own |-> TRUE, frame |-> 0, kind |-> "good"]]
  /\ tx_ring' = [i \in TxSlot |-> [own |-> FALSE, frame |-> 0, err |-> FALSE]]
  /\ cur_rx' = 0 /\ cur_tx' = 0 /\ chipRx' = 0 /\ chipTx' = 0
  /\ arrived' = <<>> /\ passed' = <<>> /\ wire' = <<>> /\ result' = "none"
  /\ UNCHANGED <<sync_tx, pc, got, rxFrames, txFrames>>

\* eth_reset to stop; a start that does not identify the chip leaves the same: the chip
\* has been reset, and the rings are as they were.
Stop == pc = "idle" /\ running' = FALSE /\ UNCHANGED <<rxVars, txVars, pc>>

----------------------------------------------------------------------------
(* eth_transmit *)

Pass ==
  /\ tx_ring' = [tx_ring EXCEPT ![TxEntry] = [own |-> TRUE, frame |-> txFrames + 1, err |-> FALSE]]
  /\ passed' = Append(passed, txFrames + 1) /\ txFrames' = txFrames + 1
  /\ cur_tx' = Advance(cur_tx)
  /\ IF sync_tx THEN pc' = "wait" /\ UNCHANGED result ELSE result' = "sent" /\ UNCHANGED pc

\* A mutant that does not look whose the descriptor is.
TransmitBlindly ==
  /\ pc = "idle" /\ txFrames < MaxFrames
  /\ Pass
  /\ UNCHANGED <<running, sync_tx, rxVars, chipTx, wire>>

Transmit ==
  /\ pc = "idle" /\ txFrames < MaxFrames
  /\ IF tx_ring[TxEntry].own
       THEN result' = "full" /\ UNCHANGED <<tx_ring, cur_tx, passed, txFrames, pc>>
       ELSE Pass
  /\ UNCHANGED <<running, sync_tx, rxVars, chipTx, wire>>

\* A frame that is longer than a buffer is refused before anything else.
TransmitLong ==
  /\ pc = "idle" /\ result' = "long"
  /\ UNCHANGED <<running, rxVars, sync_tx, tx_ring, cur_tx, chipTx, passed, wire, txFrames, pc>>

\* The wait for completion may end without it.
WaitEnds ==
  /\ pc = "wait" /\ pc' = "idle"
  /\ IF tx_ring[LastTx].own THEN result' = "timeout" /\ UNCHANGED tx_ring
     ELSE IF tx_ring[LastTx].err
       THEN result' = "error" /\ tx_ring' = [tx_ring EXCEPT ![LastTx].err = FALSE]
     ELSE result' = "sent" /\ UNCHANGED tx_ring
  /\ UNCHANGED <<running, sync_tx, rxVars, cur_tx, chipTx, passed, wire, txFrames>>

----------------------------------------------------------------------------
(* eth_receive *)

Receive == pc = "idle" /\ pc' = "receive" /\ UNCHANGED <<running, rxVars, txVars>>

\* Once round the loop: it ends at a good frame or at a descriptor of the chip's;
\* what it has looked at goes back to the chip.  A mutant keeps a runt.
Recycled(i) == [rx_ring EXCEPT ![i].own = TRUE]
GiveBackGood(i) == IF rx_ring[i].kind = "runt" THEN rx_ring ELSE Recycled(i)

GiveBack(i) == Recycled(i)

ReceiveLoop ==
  LET d == rx_ring[RxEntry]
  IN /\ pc = "receive"
     /\ IF d.own THEN pc' = "idle" /\ UNCHANGED <<rx_ring, cur_rx, got, arrived>>
        ELSE /\ rx_ring' = GiveBack(RxEntry)
             /\ cur_rx' = Advance(cur_rx)
             /\ IF d.kind = "good" THEN pc' = "idle" /\ got' = d.frame /\ arrived' = Tail(arrived)
                ELSE UNCHANGED <<pc, got, arrived>>
     /\ UNCHANGED <<running, chipRx, rxFrames, txVars>>

Driver == WaitEnds \/ Receive \/ ReceiveLoop

Next == ChipReceives \/ ChipSends \/ Startup \/ Stop \/ Transmit \/ TransmitLong \/ Driver

Init ==
  /\ running = TRUE /\ sync_tx \in BOOLEAN
  /\ rx_ring = [i \in RxSlot |-> [own |-> TRUE, frame |-> 0, kind |-> "good"]]
  /\ tx_ring = [i \in TxSlot |-> [own |-> FALSE, frame |-> 0, err |-> FALSE]]
  /\ cur_rx = 0 /\ cur_tx = 0 /\ chipRx = 0 /\ chipTx = 0
  /\ pc = "idle" /\ result = "none"
  /\ got = 0 /\ arrived = <<>> /\ passed = <<>> /\ wire = <<>>
  /\ rxFrames = 0 /\ txFrames = 0

Spec == Init /\ [][Next]_vars

----------------------------------------------------------------------------
(* Properties *)

\* How many good frames are in the first k descriptors of a ring, from one on.
GoodFrom(ring, first) ==
  LET good[k \in 0 .. RX_RING_SIZE] ==
        IF k = 0 THEN 0
        ELSE good[k - 1] + (IF ring[(first + k - 1) % RX_RING_SIZE].kind = "good" THEN 1 ELSE 0)
  IN good

\* From the driver's descriptor on, the ring holds what has come and not been
\* taken, in the order it came, and then descriptors that are the chip's: the
\* two sides are in step whatever was bad, and no frame is lost or taken twice.
RxInStep ==
  LET n == (chipRx + RX_RING_SIZE - RxEntry) % RX_RING_SIZE
      full == n = 0 /\ ~rx_ring[RxEntry].own
      m == IF full THEN RX_RING_SIZE ELSE n
      at(k) == rx_ring[(RxEntry + k) % RX_RING_SIZE]
      good == GoodFrom(rx_ring, RxEntry)
  IN /\ \A k \in 0 .. RX_RING_SIZE - 1 : at(k).own = (k >= m)
     /\ Len(arrived) = good[m]
     /\ \A k \in 0 .. m - 1 : at(k).kind = "good" => arrived[good[k] + 1] = at(k).frame

\* What the chip sends is what it was given, each frame once and in order, and
\* nothing is lost in the ring.  With sync_tx, eth_transmit reports success only for
\* a frame that has gone out.
SentInOrder ==
  LET waiting == Len(passed) - Len(wire)
  IN /\ waiting \in 0 .. TX_RING_SIZE
     /\ wire = SubSeq(passed, 1, Len(wire))
     /\ \A k \in 0 .. waiting - 1 :
          tx_ring[(chipTx + k) % TX_RING_SIZE].frame = passed[Len(wire) + k + 1]
     /\ sync_tx /\ pc = "idle" /\ result = "sent" => waiting = 0
=============================================================================
