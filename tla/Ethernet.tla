------------------------------- MODULE Ethernet -------------------------------
(***************************************************************************)
(* A board has one Ethernet adapter, and the configuration links the       *)
(* driver for it: ns8390.c, pcnet32.c, smc9000.c or cs89x0.c (Makefile).   *)
(* All four export eth_reset, eth_node_addr, eth_transmit and eth_receive, *)
(* which handle_bios_call passes on to the boot loader.  Whichever it is,  *)
(* eth_receive keeps the promise of FrameQueue.                            *)
(***************************************************************************)
EXTENDS Integers, Sequences

CONSTANTS
  Lens, Sizes,                              \* of the frames that come and go
  RX_START, STOP_PG,                        \* ns8390.c
  RX_RING_SIZE, TX_RING_SIZE, WRAP,         \* pcnet32.c
  PAGES, TRIES,                             \* smc9000.c
  Ports, NoPort, Scans, Boards, NoChip,     \* cs89x0.c
  NsFrames, PcnetFrames, SmcFrames, CsFrames    \* bounds: frames that come

VARIABLES
  driver,                                        \* the driver linked
  pc, frames, incoming, got, node_addr,          \* of more than one driver
  page, CURR, BOUND, PRX, OVW, mode, clearing, next, pkthdr, buf, stray, queue,
  running, sync_tx, rx_ring, tx_ring, cur_rx, cur_tx, chipRx, chipTx, result,
  arrived, passed, wire, rxFrames, txFrames,
  rx, tx,
  found, bank, rcr, tcr, ia, free, done, poll, i, want, excused,
  scan, board, cable, elsewhere, on, accept, eth_nic_base, eth_adapter_cnf,
  eth_auto_neg_cnf, ioidx, caller, size, probed

nsVars == <<page, CURR, BOUND, PRX, OVW, mode, clearing, next, pkthdr, buf, stray, queue>>
pcnetVars == <<running, sync_tx, rx_ring, tx_ring, cur_rx, cur_tx, chipRx, chipTx, result,
               arrived, passed, wire, rxFrames, txFrames>>
smcVars == <<found, bank, rcr, tcr, ia, free, done, poll, i, want, excused>>
csVars == <<scan, board, cable, elsewhere, on, accept, eth_nic_base, eth_adapter_cnf,
            eth_auto_neg_cnf, ioidx, caller, size, probed>>
vars == <<driver, pc, frames, incoming, got, node_addr, rx, tx, nsVars, pcnetVars, smcVars, csVars>>

Ns == INSTANCE Ns8390 WITH MaxFrames <- NsFrames
Pcnet == INSTANCE Pcnet32 WITH MaxFrames <- PcnetFrames
Smc == INSTANCE Smc9000 WITH MaxFrames <- SmcFrames
Cs == INSTANCE Cs89x0 WITH MaxFrames <- CsFrames

ASSUME EthernetConstantsOK ==
  Ns!RingConstantsOK /\ Pcnet!DescriptorConstantsOK /\ Smc!SmcConstantsOK /\ Cs!Cs89x0ConstantsOK

Drivers == {"ns8390", "pcnet32", "smc9000", "cs89x0"}

\* What belongs to the other drivers is not there.
Absent == "none"

NoNs ==
  /\ page = Absent /\ CURR = Absent /\ BOUND = Absent /\ PRX = Absent /\ OVW = Absent
  /\ mode = Absent /\ clearing = Absent /\ next = Absent /\ pkthdr = Absent /\ buf = Absent
  /\ stray = Absent /\ queue = Absent

NoPcnet ==
  /\ running = Absent /\ sync_tx = Absent /\ rx_ring = Absent /\ tx_ring = Absent
  /\ cur_rx = Absent /\ cur_tx = Absent /\ chipRx = Absent /\ chipTx = Absent
  /\ result = Absent /\ arrived = Absent /\ passed = Absent /\ wire = Absent
  /\ rxFrames = Absent /\ txFrames = Absent

NoSmc ==
  /\ found = Absent /\ bank = Absent /\ rcr = Absent /\ tcr = Absent /\ ia = Absent
  /\ free = Absent /\ done = Absent /\ poll = Absent /\ i = Absent /\ want = Absent
  /\ excused = Absent

NoCs ==
  /\ scan = Absent /\ board = Absent /\ cable = Absent /\ elsewhere = Absent /\ on = Absent
  /\ accept = Absent /\ eth_nic_base = Absent /\ eth_adapter_cnf = Absent
  /\ eth_auto_neg_cnf = Absent /\ ioidx = Absent /\ caller = Absent /\ size = Absent
  /\ probed = Absent

Init ==
  \/ /\ driver = "ns8390" /\ Ns!Init /\ NoPcnet /\ NoSmc /\ NoCs
     /\ node_addr = Absent /\ rx = Absent /\ tx = Absent
  \/ /\ driver = "pcnet32" /\ Pcnet!Init /\ NoNs /\ NoSmc /\ NoCs
     /\ node_addr = Absent /\ rx = Absent /\ tx = Absent
     /\ frames = Absent /\ incoming = Absent
  \/ /\ driver = "smc9000" /\ Smc!Init /\ NoNs /\ NoPcnet /\ NoCs
  \/ /\ driver = "cs89x0" /\ Cs!Init /\ NoNs /\ NoPcnet /\ NoSmc
     /\ incoming = Absent

\* Only the driver that is linked takes steps, and its adapter.
Only(d, notItsOwn) == driver = d /\ UNCHANGED <<driver, notItsOwn>>
OnlyNs == Only("ns8390", <<pcnetVars, smcVars, csVars, node_addr, rx, tx>>)
OnlyPcnet == Only("pcnet32", <<nsVars, smcVars, csVars, node_addr, rx, tx, frames, incoming>>)
OnlySmc == Only("smc9000", <<nsVars, pcnetVars, csVars>>)
OnlyCs == Only("cs89x0", <<nsVars, pcnetVars, smcVars, incoming>>)

Next ==
  \/ OnlyNs /\ Ns!Next
  \/ OnlyPcnet /\ Pcnet!Next
  \/ OnlySmc /\ Smc!Next
  \/ OnlyCs /\ Cs!Next

\* Each is called again and again and goes on in what it is called for; an adapter
\* finishes the frame it is storing, and sends what it has been given.
Driver ==
  \/ OnlyNs /\ Ns!Driver
  \/ OnlyPcnet /\ Pcnet!Driver
  \/ OnlySmc /\ Smc!Driver
  \/ OnlyCs /\ Cs!Driver

Adapter ==
  \/ OnlyNs /\ (Ns!PageStored \/ Ns!FrameEnds)
  \/ OnlyCs /\ Cs!FrameGoes

Spec == Init /\ [][Next]_vars
FairSpec == Spec /\ WF_vars(Driver) /\ WF_vars(Adapter)

----------------------------------------------------------------------------
(* Properties *)

TypeOK ==
  /\ driver \in Drivers
  /\ driver = "ns8390" => Ns!TypeOK
  /\ driver = "pcnet32" => Pcnet!TypeOK
  /\ driver = "smc9000" => Smc!TypeOK
  /\ driver = "cs89x0" => Cs!TypeOK

\* The two ends of the 8390's ring agree on what is between them.
RingAgrees == driver = "ns8390" => Ns!RingAgrees

\* The PCNET32 and its driver are in step in the receive ring, and in the other.
RxInStep == driver = "pcnet32" => Pcnet!RxInStep
SentInOrder == driver = "pcnet32" => Pcnet!SentInOrder

\* The SMC91xx has all of its packet memory again between calls.
MemoryKept == driver = "smc9000" => Smc!MemoryKept

\* Which calls turn the receiver off: that of an SMC91xx marked as initialized is off
\* only after one of the two calls its `excused` records, neither of which should turn it
\* off, and that of a CS89x0 that a probe has found never is.
Listening ==
  /\ driver = "smc9000" => Smc!Listening
  /\ driver = "cs89x0" => Cs!Ready

\* A probe for the CS89x0 finds it wherever earlier ones have left the address port.
NoneHidden == driver = "cs89x0" => Cs!NoneHidden

\* A transmission ends: with an SMC91xx always, whatever it does; with a CS89x0 if it is
\* on, sends what it is given, and is not asked to send a frame longer than 1514 bytes,
\* for which it is asked for ever.
Sending == (driver = "smc9000" /\ Smc!Sending) \/ (driver = "cs89x0" /\ Cs!Bidding)

SendEnds == Sending ~> ~Sending

\* What has come is passed on, of the 8390's ring all that nothing is in the way of,
\* unless the adapter is set up afresh.
Waits ==
  \/ driver = "pcnet32" /\ arrived # <<>>
  \/ driver = "ns8390" /\ queue # <<>> /\ ~Ns!Hidden

FramesReceived == Waits ~> ~Waits

\* Every driver passes frames on as FrameQueue promises.
Most == CHOOSE m \in {NsFrames, PcnetFrames, SmcFrames, CsFrames} :
          \A n \in {NsFrames, PcnetFrames, SmcFrames, CsFrames} : n <= m

One(n) == IF n = 0 THEN <<>> ELSE Ns!Whole(n, 1)
Each(q) == [k \in 1 .. Len(q) |-> One(q[k])]

WaitingNow ==
  CASE driver = "ns8390" -> Ns!Waiting
    [] driver = "pcnet32" -> Each(arrived)
    [] driver = "smc9000" -> Each(Smc!Waiting)
    [] driver = "cs89x0" -> Each(Cs!Waiting)
GotNow == IF driver = "ns8390" THEN got ELSE One(got)
OverrunNow == driver = "ns8390" /\ clearing

Queue == INSTANCE FrameQueue WITH
  Frame <- {Ns!Whole(k, n) : k \in 1 .. Most, n \in Lens \cup {1}},
  NoFrame <- <<>>,
  waiting <- WaitingNow, got <- GotNow, overrun <- OverrunNow

KeepsFrameQueue == Queue!QueueSpec
=============================================================================
