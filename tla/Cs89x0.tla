-------------------------------- MODULE Cs89x0 --------------------------------
(***************************************************************************)
(* cs89x0.c: the driver of a CS89x0 adapter.  It looks for the adapter at  *)
(* a list of addresses, configures it from its EEPROM, and then polls it;  *)
(* the chips (external) work on their own.  A chip shows its signature     *)
(* only while its address port points there, and keeps its registers when  *)
(* the processor starts again.  Time-outs may run out at any point.        *)
(***************************************************************************)
EXTENDS Integers, Sequences

CONSTANTS
  Ports,        \* I/O addresses
  NoPort,       \* eth_nic_base is 0
  Scans,        \* lists to look through, netcard_portlist or CS_SCAN: records of a
                \* port and whether the address given is odd
  Boards,       \* what is at the ports: functions to Chip and NoChip
  NoChip,
  Sizes,        \* sizes of what is sent, in bytes
  MaxFrames     \* bound: frames that come

\* The bits of eth_adapter_cnf, those that have nothing to do with the medium as one, and
\* of eth_auto_neg_cnf, IMM_BIT and the rest.  The two bits of A_CNF_MEDIA_TYPE together
\* are A_CNF_MEDIA_10B_2, and neither is A_CNF_MEDIA_AUTO.
A_CNF == {"10B_T", "AUI", "10B_2", "MEDIA_10B_T", "MEDIA_AUI", "rest"}
AUTO_NEG == {"IMM_BIT", "rest"}

\* A chip: what is in its extended EEPROM, which may be wrong, silent or absent; whether it
\* has configured itself (EEPROM_OK), and how its LineCTL then is; the EEPROM's words for
\* eth_adapter_cnf and eth_auto_neg_cnf.
Chip == [eeprom : {"none", "silent", "wrong", "good"}, self : BOOLEAN,
         line : {"10B_T", "AUI", "auto"}, cnf : SUBSET A_CNF, auto : SUBSET AUTO_NEG]

Cs89x0ConstantsOK ==
  /\ NoPort \notin Ports /\ NoChip \notin Chip
  /\ Scans \subseteq Seq([port : Ports, odd : BOOLEAN])
  /\ \A b \in Boards : \A p \in Ports :
       b[p] \in Chip \cup {NoChip} /\ (b[p] # NoChip /\ b[p].self => b[p].eeprom # "none")
  /\ Sizes \subseteq Nat /\ MaxFrames \in Nat

VARIABLES
  scan, board,        \* the list, and what there is
  cable,              \* external: ports with a link
  elsewhere,          \* external: chips whose address port is not at the signature
  on, accept,         \* external: SERIAL_RX_ON and SERIAL_TX_ON; RxCTL and IA are set
  rx, frames,         \* external: frames received, by port; frames so far
  tx,                 \* external: the frame to send
  eth_nic_base, eth_adapter_cnf, eth_auto_neg_cnf, node_addr,
  pc, ioidx,          \* the driver: where it is, the candidate
  caller, size,       \* what called the probe, what is sent
  got,                \* the frame eth_receive has returned last
  probed              \* history: how the last probe since the start ended

chips == <<elsewhere, on, accept, rx, tx>>
config == <<eth_nic_base, eth_adapter_cnf, eth_auto_neg_cnf, node_addr>>
place == <<pc, ioidx, caller, size>>
vars == <<scan, board, cable, chips, frames, config, place, got, probed>>

TypeOK ==
  /\ scan \in Scans /\ board \in Boards
  /\ cable \subseteq Ports /\ elsewhere \subseteq Ports /\ on \subseteq Ports /\ accept \subseteq Ports
  /\ rx \in [Ports -> Seq(1 .. MaxFrames)] /\ frames \in 0 .. MaxFrames /\ got \in 0 .. MaxFrames
  /\ tx \in {"none", "part", "whole"}
  /\ eth_nic_base \in Ports \cup {NoPort} /\ node_addr \in Ports \cup {NoPort}
  /\ eth_adapter_cnf \subseteq A_CNF /\ eth_auto_neg_cnf \subseteq AUTO_NEG
  /\ pc \in {"idle", "probe", "set", "bid", "sending", "wild"}
  /\ ioidx \in 1 .. Len(scan) + 1 /\ caller \in {"reset", "addr"} /\ size \in Sizes \cup {0}
  /\ probed \in {"no", "found", "not found"}

Goto(l) == pc' = l /\ UNCHANGED <<ioidx, caller, size>>

----------------------------------------------------------------------------
(* The chips *)

FrameComes ==
  /\ frames < MaxFrames /\ frames' = frames + 1
  /\ \E p \in on \cap accept : rx' = [rx EXCEPT ![p] = Append(@, frames')]
  /\ UNCHANGED <<scan, board, cable, elsewhere, on, accept, tx, config, place, got, probed>>

\* A frame goes out once all of it is written, with link or without.
FrameGoes ==
  /\ tx = "whole" /\ eth_nic_base \in on /\ tx' = "none"
  /\ UNCHANGED <<scan, board, cable, elsewhere, on, accept, rx, frames, config, place, got, probed>>

CablePlugged ==
  /\ \E p \in Ports : cable' = IF p \in cable THEN cable \ {p} ELSE cable \cup {p}
  /\ UNCHANGED <<scan, board, chips, frames, config, place, got, probed>>

\* The processor starts again, on a reset or through the monitor's shutdown.
Restart ==
  /\ eth_nic_base' = NoPort /\ node_addr' = NoPort
  /\ eth_adapter_cnf' = {} /\ eth_auto_neg_cnf' = {}
  /\ pc' = "idle" /\ ioidx' = 1 /\ caller' = "reset" /\ size' = 0 /\ probed' = "no"
  /\ UNCHANGED <<scan, board, cable, chips, frames, got>>

----------------------------------------------------------------------------
(* cs89x0_probe *)

\* What the chip's LineCTL stands for: in auto mode both media bits are set.
FromLineCTL(l) ==
  CASE l = "10B_T" -> {"10B_T", "MEDIA_10B_T"}
    [] l = "AUI"   -> {"AUI", "MEDIA_AUI"}
    [] l = "auto"  -> {"10B_T", "AUI", "MEDIA_10B_T", "MEDIA_AUI"}

Media(cnf) == cnf \cap {"MEDIA_10B_T", "MEDIA_AUI"}

\* The "right" hardware for the media type is available.
Available(cnf) ==
  LET right == CASE Media(cnf) = {"MEDIA_10B_T"} -> {"10B_T"}
                 [] Media(cnf) = {"MEDIA_AUI"}   -> {"AUI"}
                 [] Media(cnf) = {"MEDIA_10B_T", "MEDIA_AUI"} -> {"10B_2"}
                 [] Media(cnf) = {} -> {"10B_T", "AUI", "10B_2"}
  IN cnf \cap right # {}

\* The configured choice is connected, or need not be.
Connected(cnf, imm, linked) ==
  CASE Media(cnf) = {"MEDIA_10B_T"} -> linked \/ imm
    [] Media(cnf) = {} -> "10B_T" \in cnf /\ linked
    [] OTHER -> TRUE

\* A mutant that does not look at odd addresses again.
IdentifiedOnce(c) == board[c.port] # NoChip /\ c.port \notin elsewhere

\* For an odd address one write first puts the address port to the signature.
Identified(c) == board[c.port] # NoChip /\ (c.odd \/ c.port \notin elsewhere)

Candidate == scan[ioidx]
Trying(p) == pc = "probe" /\ ioidx <= Len(scan) /\ Identified(Candidate) /\ p = Candidate.port
NextCandidate == ioidx' = ioidx + 1 /\ UNCHANGED <<pc, caller, size>>

NotThere ==
  /\ pc = "probe" /\ ioidx <= Len(scan) /\ ~Identified(Candidate)
  /\ NextCandidate
  /\ UNCHANGED <<scan, board, cable, chips, frames, config, got, probed>>

\* eth_nic_base is set as soon as the signature is read; reset_chip turns all off.
Identify(p) ==
  /\ eth_nic_base' = p
  /\ accept' = accept \ {p} /\ rx' = [rx EXCEPT ![p] = <<>>] /\ tx' = "none"

\* What a chip that has configured itself says replaces what there was; a word of an
\* EEPROM is only taken where there was nothing.
FromChip(k) == IF k.self THEN FromLineCTL(k.line) ELSE eth_adapter_cnf
FromEEPROM(k) == IF k.eeprom = "good" /\ FromChip(k) = {} THEN k.cnf ELSE FromChip(k)
AutoNeg(k) == IF k.eeprom = "good" /\ eth_auto_neg_cnf = {} THEN k.auto ELSE eth_auto_neg_cnf
Imm(k) == "IMM_BIT" \in AutoNeg(k)

\* No EEPROM, or one that cannot be read, or is wrong and of no use to the chip either.
NoConfiguration(p) ==
  LET k == board[p]
  IN /\ Trying(p) /\ Identify(p)
     /\ k.eeprom \in {"none", "silent"} \/ (k.eeprom = "wrong" /\ ~k.self)
     /\ on' = on \ {p} /\ elsewhere' = elsewhere \cup {p}
     /\ eth_adapter_cnf' = FromChip(k) /\ UNCHANGED eth_auto_neg_cnf
     /\ node_addr' = IF k.self THEN p ELSE node_addr
     /\ NextCandidate
     /\ UNCHANGED <<scan, board, cable, frames, got, probed>>

Configure(p) ==
  LET k == board[p]
  IN /\ Trying(p) /\ Identify(p)
     /\ k.eeprom = "good" \/ (k.eeprom = "wrong" /\ k.self)
     /\ eth_adapter_cnf' = FromEEPROM(k) /\ eth_auto_neg_cnf' = AutoNeg(k) /\ node_addr' = p
     /\ UNCHANGED <<scan, board, cable, frames, got>>

Usable(p) ==
  LET k == board[p]
  IN Available(FromEEPROM(k)) /\ Connected(FromEEPROM(k), Imm(k), p \in cable)

\* The label error: what is on goes off, and the address port back.
Reject(p) ==
  /\ Configure(p) /\ ~Usable(p)
  /\ on' = on \ {p} /\ elsewhere' = elsewhere \ {p}
  /\ NextCandidate /\ UNCHANGED probed

Found(p) ==
  /\ Configure(p) /\ Usable(p)
  /\ on' = on \cup {p} /\ elsewhere' = elsewhere \cup {p}
  /\ Goto(IF caller = "reset" THEN "set" ELSE "idle") /\ probed' = "found"

NotFound ==
  /\ pc = "probe" /\ ioidx = Len(scan) + 1
  /\ Goto("idle") /\ probed' = "not found"
  /\ UNCHANGED <<scan, board, cable, chips, frames, config, got>>

Probe == NotThere \/ (\E p \in Ports : NoConfiguration(p) \/ Reject(p) \/ Found(p)) \/ NotFound

----------------------------------------------------------------------------
(* eth_reset, eth_node_addr, eth_transmit and eth_receive *)

\* Without a base they look for an adapter; a probe that failed may have left one.
Call(who) ==
  /\ pc = "idle" /\ caller' = who /\ UNCHANGED size
  /\ IF eth_nic_base = NoPort THEN pc' = "probe" /\ ioidx' = 1
     ELSE pc' = (IF who = "reset" THEN "set" ELSE "idle") /\ UNCHANGED ioidx
  /\ UNCHANGED <<scan, board, cable, chips, frames, config, got, probed>>

SetRegisters ==
  /\ pc = "set" /\ Goto("idle")
  /\ accept' = accept \cup {eth_nic_base} /\ elsewhere' = elsewhere \ {eth_nic_base}
  /\ UNCHANGED <<scan, board, cable, on, rx, tx, frames, config, got, probed>>

\* In words: as many as the chip is told, in the header, the data and the padding.
Told(s) == LET even == ((s + 15) \div 2) * 2 IN (IF even < 64 THEN 64 ELSE even) \div 2

\* A mutant that forgets the type in the header when it pads.
PaddingShort(s) == Told(s) - (s + 1) \div 2 - 6 - 2

Padding(s) == Told(s) - (s + 1) \div 2 - 6 - 1
Written(s) == 7 + (s + 1) \div 2 + Padding(s)

\* With no adapter it writes to what is at address 0.
Transmit(s) ==
  /\ pc = "idle" /\ size' = s /\ UNCHANGED <<ioidx, caller>>
  /\ pc' = IF eth_nic_base = NoPort THEN "wild" ELSE "bid"
  /\ UNCHANGED <<scan, board, cable, chips, frames, config, got, probed>>

\* The chip refuses a bid for more than 1514 bytes (TX_BID_ERROR) and never gets READY.
TooLong(s) == 2 * Told(s) > 1514

\* The chip has memory for one frame; until that is gone the driver asks again.  It asks
\* again as well, for ever, when the chip has refused.
Bid ==
  /\ pc = "bid" /\ tx = "none" /\ ~TooLong(size)
  /\ tx' = IF Written(size) = Told(size) THEN "whole" ELSE "part"
  /\ pc' = "sending" /\ size' = 0 /\ UNCHANGED <<ioidx, caller>>
  /\ elsewhere' = elsewhere \cup {eth_nic_base}
  /\ UNCHANGED <<scan, board, cable, on, accept, rx, frames, config, got, probed>>

\* The frame is gone, or a second is; eth_transmit returns 0 either way.
SendingEnds ==
  /\ pc = "sending" /\ Goto("idle")
  /\ UNCHANGED <<scan, board, cable, chips, frames, config, got, probed>>

Receive ==
  /\ pc = "idle" /\ eth_nic_base # NoPort
  /\ elsewhere' = elsewhere \cup {eth_nic_base}
  /\ IF rx[eth_nic_base] = <<>> THEN UNCHANGED <<rx, got>>
     ELSE rx' = [rx EXCEPT ![eth_nic_base] = Tail(@)] /\ got' = Head(rx[eth_nic_base])
  /\ UNCHANGED <<scan, board, cable, on, accept, tx, frames, config, place, probed>>

Driver == Probe \/ SetRegisters \/ Bid \/ SendingEnds

Next ==
  \/ FrameComes \/ FrameGoes \/ CablePlugged \/ Restart
  \/ Call("reset") \/ Call("addr") \/ (\E s \in Sizes : Transmit(s)) \/ Receive
  \/ Driver

Init ==
  /\ scan \in Scans /\ board \in Boards /\ cable \in SUBSET Ports
  /\ elsewhere = {} /\ on = {} /\ accept = {}
  /\ rx = [p \in Ports |-> <<>>] /\ frames = 0 /\ tx = "none"
  /\ eth_nic_base = NoPort /\ node_addr = NoPort
  /\ eth_adapter_cnf = {} /\ eth_auto_neg_cnf = {}
  /\ pc = "idle" /\ ioidx = 1 /\ caller = "reset" /\ size = 0
  /\ got = 0 /\ probed = "no"

Spec == Init /\ [][Next]_vars

----------------------------------------------------------------------------
(* Properties *)

\* The adapter used is the one whose address frames are sent with, whatever was tried
\* before it; it is on, and after an eth_reset it receives.
Ready ==
  probed = "found" =>
    /\ node_addr = eth_nic_base /\ eth_nic_base \in on
    /\ caller = "reset" /\ pc \in {"idle", "bid", "sending"} => eth_nic_base \in accept

\* If a probe found nothing, no adapter on the list was in order: the address port, which
\* earlier probes, polls and restarts leave anywhere, has hidden none, and nothing that
\* was left of a candidate before it.  In order: configured by itself, for a medium that
\* needs no cable.  Even addresses are not promised.
InOrder(k) == k.self /\ k.eeprom # "silent" /\ k.line = "AUI"
NoneHidden ==
  probed = "not found" =>
    \A i \in 1 .. Len(scan) :
      scan[i].odd /\ board[scan[i].port] # NoChip => ~InOrder(board[scan[i].port])

\* The driver asks a chip that is on for memory, and for no more than it gives.
Bidding == pc = "bid" /\ eth_nic_base \in on /\ ~TooLong(size)

\* What the chip in use has received.
Waiting == IF eth_nic_base = NoPort THEN <<>> ELSE rx[eth_nic_base]
=============================================================================
