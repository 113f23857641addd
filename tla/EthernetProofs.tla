--------------------------- MODULE EthernetProofs ---------------------------
(***************************************************************************)
(* Proofs about Ethernet, for rings, memories and lists of any size.       *)
(***************************************************************************)
EXTENDS Ethernet, TLAPS, SequenceTheorems, WellFoundedInduction

----------------------------------------------------------------------------
(* An adapter that is marked as initialized receives *)

\* Without an adapter nic's functions are never set, so that the mark alone, which
\* a probe that fails leaves, is not enough to be asked to receive.
SmcListens == (~found => ~poll) /\ Smc!Listening

LEMMA SmcGoesOnListening ==
  ASSUME SmcListens, Smc!Next
  PROVE  SmcListens'
<1> USE DEF SmcListens, Smc!Listening, Smc!registers, Smc!nic, Smc!memory, Smc!loop
<1>1. CASE Smc!Chip
  BY <1>1 DEF Smc!Chip, Smc!FrameComes, Smc!PageStored, Smc!FrameEnds, Smc!Allocated, Smc!Sent
<1>2. CASE Smc!NodeAddr
  BY <1>2 DEF Smc!NodeAddr, Smc!ProbeFails, Smc!Probed
<1>3. CASE Smc!SetNodeAddr
  BY <1>3 DEF Smc!SetNodeAddr
<1>4. CASE Smc!Start \/ Smc!StartFails
  BY <1>4 DEF Smc!Start, Smc!StartFails, Smc!ProbeFails, Smc!Probed
<1>5. CASE Smc!Stop
  BY <1>5 DEF Smc!Stop, Smc!NullCall
<1>6. CASE (\E s \in Sizes : Smc!Transmit(s)) \/ Smc!Poll
  BY <1>6 DEF Smc!Transmit, Smc!Poll, Smc!NullCall
<1>7. CASE Smc!Driver
  BY <1>7 DEF Smc!Driver, Smc!Allocate, Smc!AllocationTimesOut, Smc!Enqueue, Smc!Finished,
     Smc!SendTimesOut
<1> QED
  BY <1>1, <1>2, <1>3, <1>4, <1>5, <1>6, <1>7 DEF Smc!Next, Smc!Call

\* While a probe looks, none has found an adapter since the start: a base, once it is
\* found, is kept.
CsReady ==
  /\ Cs!Ready
  /\ probed = "found" => pc # "probe" /\ eth_nic_base \in Ports

LEMMA CsStaysReady ==
  ASSUME CsReady, Cs!Next
  PROVE  CsReady'
<1> USE DEF CsReady, Cs!Ready, Cs!chips, Cs!config, Cs!place
<1>0. NoPort \notin Ports
  BY EthernetConstantsOK DEF Cs!Cs89x0ConstantsOK
<1>1. CASE Cs!FrameComes \/ Cs!FrameGoes \/ Cs!CablePlugged
  BY <1>1 DEF Cs!FrameComes, Cs!FrameGoes, Cs!CablePlugged
<1>2. CASE Cs!Restart
  BY <1>2 DEF Cs!Restart
<1>3. CASE Cs!Call("reset") \/ Cs!Call("addr")
  BY <1>0, <1>3 DEF Cs!Call
<1>4. CASE (\E s \in Sizes : Cs!Transmit(s)) \/ Cs!Receive
  BY <1>4 DEF Cs!Transmit, Cs!Receive
<1>5. CASE Cs!NotThere \/ Cs!NotFound
  BY <1>5 DEF Cs!NotThere, Cs!NotFound, Cs!NextCandidate, Cs!Goto
<1>6. CASE \E p \in Ports : Cs!NoConfiguration(p) \/ Cs!Reject(p)
  BY <1>6 DEF Cs!NoConfiguration, Cs!Reject, Cs!Configure, Cs!Trying, Cs!NextCandidate
<1>7. CASE \E p \in Ports : Cs!Found(p)
  BY <1>7 DEF Cs!Found, Cs!Configure, Cs!Identify, Cs!Goto
<1>8. CASE Cs!SetRegisters \/ Cs!Bid \/ Cs!SendingEnds
  BY <1>8 DEF Cs!SetRegisters, Cs!Bid, Cs!SendingEnds, Cs!Goto
<1> QED
  BY <1>1, <1>2, <1>3, <1>4, <1>5, <1>6, <1>7, <1>8 DEF Cs!Next, Cs!Driver, Cs!Probe

\* The receiver of an SMC91xx that its driver takes for initialized is off only after a
\* transmission that timed out or an eth_reset that found bank 0 selected; a CS89x0 that a
\* probe found is on, with the address that frames are sent with, and accepts frames after
\* an eth_reset.  What is called after a probe that found nothing is not promised anything.
THEOREM AdaptersListen == Spec => []Listening
<1> DEFINE Inv == /\ driver = "smc9000" => SmcListens
                  /\ driver = "cs89x0" => CsReady
<1>1. Init => Inv
  BY DEF Init, Smc!Init, Cs!Init, SmcListens, CsReady, Smc!Listening, Cs!Ready
<1>2. Inv /\ [Next]_vars => Inv'
  <2>1. CASE UNCHANGED vars
    BY <2>1 DEF vars, smcVars, csVars, SmcListens, CsReady, Smc!Listening, Cs!Ready
  <2>2. CASE Next
    BY <2>2, SmcGoesOnListening, CsStaysReady DEF Next, OnlySmc, OnlyCs, OnlyNs, OnlyPcnet, Only
  <2> QED
    BY <2>1, <2>2
<1>3. Inv => Listening
  BY DEF Listening, SmcListens, CsReady
<1> QED
  BY <1>1, <1>2, <1>3, PTL DEF Spec

----------------------------------------------------------------------------
(* A probe finds what is in order *)

\* None of the first n candidates is an adapter in order at an odd address.
NoneAmong(n) ==
  \A k \in 1 .. n :
    scan[k].odd /\ board[scan[k].port] # NoChip => ~Cs!InOrder(board[scan[k].port])

\* Before the candidate at hand there is none; nor on the list, after a probe that failed.
CsPassed ==
  /\ scan \in Scans /\ board \in Boards
  /\ ioidx \in Nat
  /\ pc = "probe" => NoneAmong(ioidx - 1)
  /\ Cs!NoneHidden

\* A chip in order, with the registers of any probe before it, is used.
LEMMA InOrderIsUsable ==
  ASSUME NEW p, board[p] # NoChip, Cs!InOrder(board[p])
  PROVE  Cs!Usable(p)
<1> DEFINE k == board[p]
           aui == {"AUI", "MEDIA_AUI"}
<1>1. Cs!FromEEPROM(k) = aui
  BY DEF Cs!InOrder, Cs!FromEEPROM, Cs!FromChip, Cs!FromLineCTL
<1>2. Cs!Media(aui) = {"MEDIA_AUI"}
  BY DEF Cs!Media
<1>3. {"MEDIA_AUI"} # {"MEDIA_10B_T"} /\ {"MEDIA_AUI"} # {}
  OBVIOUS
<1>4. Cs!Available(aui)
  BY <1>2, <1>3 DEF Cs!Available
<1>5. Cs!Connected(aui, Cs!Imm(k), p \in cable)
  BY <1>2, <1>3 DEF Cs!Connected
<1> QED
  BY <1>1, <1>4, <1>5 DEF Cs!Usable

\* The probe passes over a candidate only if it is not in order.
LEMMA PassedOver ==
  ASSUME scan \in Scans, board \in Boards, ioidx \in Nat, pc = "probe",
         \/ Cs!NotThere
         \/ \E p \in Ports : Cs!NoConfiguration(p) \/ Cs!Reject(p)
  PROVE  /\ ioidx <= Len(scan)
         /\ Cs!Candidate.odd /\ board[Cs!Candidate.port] # NoChip =>
              ~Cs!InOrder(board[Cs!Candidate.port])
<1>1. CASE Cs!NotThere
  BY <1>1 DEF Cs!NotThere, Cs!Identified
<1>2. CASE \E p \in Ports : Cs!NoConfiguration(p)
  <2> PICK p \in Ports : Cs!NoConfiguration(p)
    BY <1>2
  <2>1. p = Cs!Candidate.port /\ ioidx <= Len(scan) /\ board[p] # NoChip
    BY DEF Cs!NoConfiguration, Cs!Trying, Cs!Identified
  <2>2. board[p].self => board[p].eeprom # "none"
    BY <2>1, EthernetConstantsOK DEF Cs!Cs89x0ConstantsOK
  <2>3. board[p].eeprom \in {"none", "silent"} \/ (board[p].eeprom = "wrong" /\ ~board[p].self)
    BY DEF Cs!NoConfiguration
  <2> QED
    BY <2>1, <2>2, <2>3 DEF Cs!InOrder
<1>3. CASE \E p \in Ports : Cs!Reject(p)
  BY <1>3, InOrderIsUsable DEF Cs!Reject, Cs!Configure, Cs!Trying
<1> QED
  BY <1>1, <1>2, <1>3

LEMMA CsStaysPassed ==
  ASSUME CsPassed, Cs!Next
  PROVE  CsPassed'
<1> USE DEF Cs!chips, Cs!config, Cs!place
<1>1. scan' = scan /\ board' = board
  BY DEF Cs!Next, Cs!Driver, Cs!Probe, Cs!FrameComes, Cs!FrameGoes, Cs!CablePlugged, Cs!Restart,
     Cs!Call, Cs!Transmit, Cs!Receive, Cs!NotThere, Cs!NotFound, Cs!NoConfiguration, Cs!Reject,
     Cs!Found, Cs!Configure, Cs!SetRegisters, Cs!Bid, Cs!SendingEnds
<1>2. scan \in Scans /\ board \in Boards /\ ioidx \in Nat /\ Len(scan) \in Nat
  <2>1. scan \in Scans /\ board \in Boards /\ ioidx \in Nat
    BY DEF CsPassed
  <2>2. scan \in Seq([port : Ports, odd : BOOLEAN])
    BY <2>1, EthernetConstantsOK DEF Cs!Cs89x0ConstantsOK
  <2> QED
    BY <2>1, <2>2, LenProperties
<1>3. ioidx' \in Nat
  <2>1. ioidx' = ioidx \/ ioidx' = 1 \/ ioidx' = ioidx + 1
    BY DEF Cs!Next, Cs!Driver, Cs!Probe, Cs!FrameComes, Cs!FrameGoes, Cs!CablePlugged, Cs!Restart,
       Cs!Call, Cs!Transmit, Cs!Receive, Cs!NotThere, Cs!NotFound, Cs!NoConfiguration, Cs!Reject,
       Cs!Found, Cs!SetRegisters, Cs!Bid, Cs!SendingEnds, Cs!NextCandidate, Cs!Goto
  <2> QED
    BY <1>2, <2>1
<1>4. pc' = "probe" => NoneAmong(ioidx' - 1)
  <2>1. CASE Cs!NotThere \/ \E p \in Ports : Cs!NoConfiguration(p) \/ Cs!Reject(p)
    <3>1. pc = "probe" /\ ioidx' - 1 = ioidx
      BY <1>2, <2>1 DEF Cs!NotThere, Cs!NoConfiguration, Cs!Reject, Cs!Configure, Cs!Trying,
         Cs!NextCandidate
    <3>2. NoneAmong(ioidx - 1)
      BY <3>1 DEF CsPassed
    <3>3. Cs!Candidate.odd /\ board[Cs!Candidate.port] # NoChip => ~Cs!InOrder(board[Cs!Candidate.port])
      BY <1>2, <2>1, <3>1, PassedOver
    <3>4. \A k \in 1 .. ioidx : k \in 1 .. ioidx - 1 \/ k = ioidx
      BY <1>2
    <3> QED
      BY <3>1, <3>2, <3>3, <3>4 DEF Cs!Candidate, NoneAmong
  <2>2. CASE \E who \in {"reset", "addr"} : Cs!Call(who)
    <3>1. CASE eth_nic_base = NoPort
      <4>1. ioidx' - 1 = 0
        BY <2>2, <3>1 DEF Cs!Call
      <4> QED
        BY <4>1 DEF NoneAmong
    <3>2. CASE eth_nic_base # NoPort
      BY <2>2, <3>2 DEF Cs!Call
    <3> QED
      BY <3>1, <3>2
  <2>3. CASE ~(Cs!NotThere \/ \E p \in Ports : Cs!NoConfiguration(p) \/ Cs!Reject(p))
             /\ ~(\E who \in {"reset", "addr"} : Cs!Call(who))
    <3>1. pc' = "probe" => pc = "probe" /\ ioidx' = ioidx
      BY <2>3 DEF Cs!Next, Cs!Driver, Cs!Probe, Cs!FrameComes, Cs!FrameGoes, Cs!CablePlugged,
         Cs!Restart, Cs!Transmit, Cs!Receive, Cs!NotFound, Cs!Found, Cs!SetRegisters, Cs!Bid,
         Cs!SendingEnds, Cs!Goto
    <3> QED
      BY <3>1 DEF CsPassed
  <2> QED
    BY <2>1, <2>2, <2>3
<1>5. probed' = "not found" => NoneAmong(Len(scan))
  <2>1. CASE Cs!NotFound
    <3>1. pc = "probe" /\ ioidx = Len(scan) + 1
      BY <2>1 DEF Cs!NotFound
    <3>2. ioidx - 1 = Len(scan)
      BY <1>2, <3>1
    <3> QED
      BY <3>1, <3>2 DEF CsPassed
  <2>2. CASE ~Cs!NotFound
    <3>1. probed' = "not found" => probed = "not found"
      BY <2>2 DEF Cs!Next, Cs!Driver, Cs!Probe, Cs!FrameComes, Cs!FrameGoes, Cs!CablePlugged,
         Cs!Restart, Cs!Call, Cs!Transmit, Cs!Receive, Cs!NotThere, Cs!NoConfiguration, Cs!Reject,
         Cs!Found, Cs!SetRegisters, Cs!Bid, Cs!SendingEnds
    <3> QED
      BY <3>1 DEF CsPassed, Cs!NoneHidden, NoneAmong
  <2> QED
    BY <2>1, <2>2
<1> QED
  BY <1>1, <1>2, <1>3, <1>4, <1>5 DEF CsPassed, Cs!NoneHidden, NoneAmong

\* Whatever earlier probes, polls, restarts and the candidates tried before have left,
\* an adapter in order at an odd address of the list is not passed over.
THEOREM ProbeFinds == Spec => []NoneHidden
<1> DEFINE Inv == driver = "cs89x0" => CsPassed
<1>1. Init => Inv
  BY DEF Init, Cs!Init, CsPassed, Cs!NoneHidden
<1>2. Inv /\ [Next]_vars => Inv'
  <2>1. CASE UNCHANGED vars
    BY <2>1 DEF vars, csVars, CsPassed, NoneAmong, Cs!InOrder, Cs!NoneHidden
  <2>2. CASE Next
    BY <2>2, CsStaysPassed DEF Next, OnlySmc, OnlyCs, OnlyNs, OnlyPcnet, Only
  <2> QED
    BY <2>1, <2>2
<1>3. Inv => NoneHidden
  BY DEF NoneHidden, CsPassed
<1> QED
  BY <1>1, <1>2, <1>3, PTL DEF Spec

----------------------------------------------------------------------------
(* Sums *)

\* Induction, for a set of numbers: a set of numbers that is not empty has a least one.
LEMMA Induct ==
  ASSUME NEW S, 0 \in S, \A n \in Nat : n \in S => n + 1 \in S
  PROVE  Nat \subseteq S
<1> DEFINE T == Nat \ S
<1>1. SUFFICES ASSUME T # {} PROVE FALSE
  OBVIOUS
<1>2. PICK x \in T : \A y \in T : ~ (<<y, x>> \in OpToRel(<, Nat))
  <2>1. T \subseteq Nat
    OBVIOUS
  <2> QED BY <1>1, <2>1, NatLessThanWellFounded, WFMin, Zenon
<1>3. \A y \in T : ~ (y < x)
  BY <1>2 DEF OpToRel
<1>4. x # 0 /\ x - 1 \in Nat /\ x-1 < x
  OBVIOUS
<1>5. x - 1 \in S
  BY <1>3, <1>4
<1> QED BY <1>4, <1>5

\* f[k] is the sum of the first k weights, for the first n of them.
IsSum(f, n, w) == f = [k \in 0 .. n |-> IF k = 0 THEN 0 ELSE f[k - 1] + w[k]]

LEMMA SumExists ==
  ASSUME NEW m \in Nat, NEW w
  PROVE  \E f : IsSum(f, m, w)
<1> DEFINE S == {n \in Nat : \E f : IsSum(f, n, w)}
<1>1. 0 \in S
  <2> DEFINE f == [k \in 0 .. 0 |-> 0]
  <2>1. IsSum(f, 0, w)
    BY DEF IsSum
  <2> QED BY <2>1
<1>2. ASSUME NEW n \in Nat, n \in S PROVE n + 1 \in S
  <2>1. PICK f : IsSum(f, n, w)
    BY <1>2
  <2> DEFINE g == [k \in 0 .. n + 1 |-> IF k = n + 1 THEN f[n] + w[n + 1] ELSE f[k]]
  <2>2. ASSUME NEW k \in 0 .. n + 1
        PROVE  g[k] = IF k = 0 THEN 0 ELSE g[k - 1] + w[k]
    BY <2>1 DEF IsSum
  <2>3. g = [k \in 0 .. n + 1 |-> IF k = 0 THEN 0 ELSE g[k - 1] + w[k]]
    BY <2>2
  <2>4. IsSum(g, n + 1, w)
    BY <2>3 DEF IsSum
  <2> HIDE DEF g
  <2> QED BY <2>4
<1> HIDE DEF S
<1>3. Nat \subseteq S
  BY <1>1, <1>2, Induct
<1> QED BY <1>3 DEF S

\* The sums of a part of the weights are what the sums of all of them grow by.
LEMMA SumFrom ==
  ASSUME NEW n \in Nat, NEW m \in Nat, NEW d \in Nat, n + d <= m, NEW f, NEW g, NEW v, NEW w,
         IsSum(f, n, v), IsSum(g, m, w), \A k \in 1 .. m : w[k] \in Nat,
         \A k \in 1 .. n : v[k] = w[k + d]
  PROVE  \A k \in 0 .. n : g[k + d] = g[d] + f[k] /\ f[k] \in Nat /\ g[d] \in Nat
<1>0. \A k \in 0 .. m : g[k] \in Nat
  <2> DEFINE S == {k \in Nat : k <= m => g[k] \in Nat}
  <2>1. 0 \in S
    BY DEF IsSum
  <2>2. ASSUME NEW k \in Nat, k \in S PROVE k + 1 \in S
    <3>1. CASE k + 1 <= m
      <4>1. g[k + 1] = g[k] + w[k + 1]
        BY <3>1 DEF IsSum
      <4>2. g[k] \in Nat /\ w[k + 1] \in Nat
        BY <3>1, <2>2
      <4> QED
        BY <4>1, <4>2
    <3> QED
      BY <3>1
  <2> HIDE DEF S
  <2>3. Nat \subseteq S
    BY <2>1, <2>2, Induct
  <2> QED BY <2>3 DEF S
<1> DEFINE S == {k \in Nat : k <= n => g[k + d] = g[d] + f[k] /\ f[k] \in Nat}
<1>1. 0 \in S
  BY <1>0 DEF IsSum
<1>2. ASSUME NEW k \in Nat, k \in S PROVE k + 1 \in S
  <2>1. CASE k + 1 <= n
    <3>1. f[k + 1] = f[k] + v[k + 1]
      BY <2>1 DEF IsSum
    <3>2. g[k + 1 + d] = g[k + d] + w[k + 1 + d]
      BY <2>1 DEF IsSum
    <3>3. v[k + 1] = w[k + 1 + d] /\ w[k + 1 + d] \in Nat /\ g[d] \in Nat
      BY <2>1, <1>0
    <3>4. g[k + d] = g[d] + f[k] /\ f[k] \in Nat
      BY <2>1, <1>2
    <3> QED
      BY <3>1, <3>2, <3>3, <3>4
  <2> QED
    BY <2>1
<1> HIDE DEF S
<1>3. Nat \subseteq S
  BY <1>1, <1>2, Induct
<1> QED BY <1>0, <1>3 DEF S


LEMMA SumSame ==
  ASSUME NEW n \in Nat, NEW m \in Nat, n <= m, NEW f, NEW g, NEW v, NEW w,
         IsSum(f, n, v), IsSum(g, m, w), \A k \in 1 .. m : w[k] \in Nat,
         \A k \in 1 .. n : v[k] = w[k]
  PROVE  \A k \in 0 .. n : g[k] = f[k] /\ f[k] \in Nat
<1> DEFINE d == 0
<1>1. d \in Nat /\ n + d <= m /\ \A k \in 1 .. n : v[k] = w[k + d]
  OBVIOUS
<1>2. \A k \in 0 .. n : k + d = k
  OBVIOUS
<1>3. g[d] = 0
  BY DEF IsSum
<1> HIDE DEF d
<1>4. \A k \in 0 .. n : g[k + d] = g[d] + f[k] /\ f[k] \in Nat /\ g[d] \in Nat
  BY <1>1, SumFrom
<1> QED
  BY <1>2, <1>3, <1>4

----------------------------------------------------------------------------
(* The packet memory of the SMC91xx *)

\* Frames with their pages.
Paged == Seq([id : 1 .. SmcFrames, pages : Lens, good : BOOLEAN])

LEMMA PagesAre ==
  ASSUME NEW q \in Paged
  PROVE  \E f : /\ IsSum(f, Len(q), [k \in 1 .. Len(q) |-> q[k].pages])
                /\ Smc!PagesOf(q) = f[Len(q)]
<1> DEFINE w == [k \in 1 .. Len(q) |-> q[k].pages]
           sum == CHOOSE f : f = [k \in 0 .. Len(q) |-> IF k = 0 THEN 0 ELSE f[k - 1] + q[k].pages]
<1>1. Len(q) \in Nat
  BY LenProperties DEF Paged
<1>2. \A m \in 0 .. Len(q) : m # 0 => w[m] = q[m].pages
  OBVIOUS
<1>3. PICK f : IsSum(f, Len(q), w)
  BY <1>1, SumExists
<1> HIDE DEF w
<1>4. f = [m \in 0 .. Len(q) |-> IF m = 0 THEN 0 ELSE f[m - 1] + w[m]]
  BY <1>3 DEF IsSum
<1>5. f = [m \in 0 .. Len(q) |-> IF m = 0 THEN 0 ELSE f[m - 1] + q[m].pages]
  BY <1>2, <1>4
<1>6. sum = [m \in 0 .. Len(q) |-> IF m = 0 THEN 0 ELSE sum[m - 1] + q[m].pages]
  BY <1>5
<1>7. Smc!PagesOf(q) = sum[Len(q)]
  BY DEF Smc!PagesOf
<1> HIDE DEF sum
<1>8. IsSum(sum, Len(q), w)
  BY <1>2, <1>6 DEF IsSum
<1> QED
  BY <1>7, <1>8 DEF w

LEMMA PagedPages ==
  ASSUME NEW q \in Paged, NEW k \in 1 .. Len(q)
  PROVE  q[k].pages \in Nat
<1>1. Lens \subseteq Nat
  BY EthernetConstantsOK DEF Smc!SmcConstantsOK
<1>2. q[k] \in [id : 1 .. SmcFrames, pages : Lens, good : BOOLEAN]
  BY ElementOfSeq DEF Paged
<1> QED
  BY <1>1, <1>2

LEMMA PagesOfNone == Smc!PagesOf(<<>>) = 0
<1> DEFINE q == <<>>
           w == [k \in 1 .. Len(q) |-> q[k].pages]
<1>1. q \in Paged
  BY DEF Paged
<1>2. Len(q) = 0
  OBVIOUS
<1> HIDE DEF q
<1>3. PICK f : IsSum(f, 0, w) /\ Smc!PagesOf(q) = f[0]
  BY <1>1, <1>2, PagesAre
<1> HIDE DEF w
<1> QED
  BY <1>3 DEF IsSum, q

LEMMA PagesAreNat ==
  ASSUME NEW q \in Paged
  PROVE  Smc!PagesOf(q) \in Nat
<1> DEFINE n == Len(q)
           w == [k \in 1 .. n |-> q[k].pages]
<1>1. n \in Nat /\ \A k \in 1 .. n : w[k] \in Nat
  BY LenProperties, PagedPages DEF Paged
<1>2. PICK f : IsSum(f, n, w) /\ Smc!PagesOf(q) = f[n]
  BY PagesAre
<1> HIDE DEF n, w
<1>3. \A k \in 0 .. n : f[k] \in Nat
  BY <1>1, <1>2, SumSame
<1> QED
  BY <1>1, <1>2, <1>3

\* The pages of the frames that are left, when the first is taken.
LEMMA PagesOfTail ==
  ASSUME NEW q \in Paged, q # <<>>
  PROVE  /\ Smc!PagesOf(q) = Head(q).pages + Smc!PagesOf(Tail(q))
         /\ Smc!PagesOf(Tail(q)) \in Nat
<1> DEFINE t == Tail(q)
           n == Len(t)
           w == [k \in 1 .. Len(q) |-> q[k].pages]
           v == [k \in 1 .. n |-> t[k].pages]
<1>1. /\ t \in Paged /\ n \in Nat /\ Len(q) = n + 1 /\ Head(q) = q[1]
      /\ \A k \in 1 .. n : t[k] = q[k + 1]
  BY HeadTailProperties, LenProperties DEF Paged
<1>2. \A k \in 1 .. Len(q) : q[k].pages \in Nat
  BY PagedPages
<1> HIDE DEF t, n
<1>3. PICK f : IsSum(f, n, v) /\ Smc!PagesOf(t) = f[n]
  BY <1>1, PagesAre DEF n
<1>4. PICK g : IsSum(g, n + 1, w) /\ Smc!PagesOf(q) = g[n + 1]
  BY <1>1, PagesAre
<1>5. /\ \A k \in 1 .. n + 1 : w[k] \in Nat
      /\ \A k \in 1 .. n : v[k] = w[k + 1]
  BY <1>1, <1>2
<1>6. w[1] = Head(q).pages
  BY <1>1
<1> HIDE DEF v, w
<1>7. g[1] = w[1]
  <2>1. 1 \in 0 .. n + 1 /\ 0 \in 0 .. n + 1 /\ 1 - 1 = 0
    BY <1>1
  <2>2. g[1] = g[0] + w[1] /\ g[0] = 0
    BY <1>4, <2>1 DEF IsSum
  <2> QED
    BY <2>2, <1>1, <1>5
<1>8. g[n + 1] = g[1] + f[n] /\ f[n] \in Nat
  BY <1>1, <1>3, <1>4, <1>5, SumFrom, n + 1 <= n + 1, n \in 0 .. n
<1> QED
  BY <1>3, <1>4, <1>6, <1>7, <1>8 DEF t

\* And with one more.
LEMMA PagesOfMore ==
  ASSUME NEW q \in Paged, NEW x \in [id : 1 .. SmcFrames, pages : Lens, good : BOOLEAN]
  PROVE  /\ Smc!PagesOf(Append(q, x)) = Smc!PagesOf(q) + x.pages
         /\ Smc!PagesOf(q) \in Nat
<1> DEFINE t == Append(q, x)
           n == Len(q)
           w == [k \in 1 .. Len(t) |-> t[k].pages]
           v == [k \in 1 .. n |-> q[k].pages]
<1>1. /\ t \in Paged /\ n \in Nat /\ Len(t) = n + 1 /\ t[n + 1] = x
      /\ \A k \in 1 .. n : t[k] = q[k]
  BY AppendProperties, LenProperties DEF Paged
<1>2. \A k \in 1 .. n + 1 : t[k].pages \in Nat
  BY <1>1, PagedPages
<1> HIDE DEF t, n
<1>3. PICK f : IsSum(f, n, v) /\ Smc!PagesOf(q) = f[n]
  BY <1>1, PagesAre DEF n
<1>4. PICK g : IsSum(g, n + 1, w) /\ Smc!PagesOf(t) = g[n + 1]
  BY <1>1, PagesAre
<1>5. /\ \A k \in 1 .. n + 1 : w[k] \in Nat
      /\ \A k \in 1 .. n : v[k] = w[k + 0]
  BY <1>1, <1>2
<1>6. w[n + 1] = x.pages
  BY <1>1
<1> HIDE DEF v, w
<1>7. g[n + 1] = g[n] + w[n + 1] /\ g[0] = 0
  BY <1>1, <1>4 DEF IsSum
<1>8. g[n] = f[n] /\ f[n] \in Nat
  <2>1. n <= n + 1 /\ n \in 0 .. n /\ n + 1 \in Nat /\ \A k \in 1 .. n : v[k] = w[k]
    BY <1>1, <1>5
  <2>2. \A k \in 0 .. n : g[k] = f[k] /\ f[k] \in Nat
    BY <1>1, <1>3, <1>4, <1>5, <2>1, SumSame
  <2> QED
    BY <2>1, <2>2
<1> QED
  BY <1>1, <1>3, <1>4, <1>6, <1>7, <1>8 DEF t

\* Who has which pages: a packet has its own from when they are allocated.
Held == IF tx.state \in {"none", "wanted"} THEN 0 ELSE tx.pages

SmcTypes ==
  /\ free \in Nat /\ want \in Nat /\ frames \in 0 .. SmcFrames
  /\ rx \in Paged
  /\ incoming \in [id : 0 .. SmcFrames, len : Lens \cup {0}, stored : Nat]
  /\ tx \in [pages : Nat, state : {"none", "wanted", "held", "queued", "sent", "failed"}]
  /\ incoming # Smc!NoFrame => incoming.id # 0 /\ incoming.len \in Lens

\* eth_transmit and the chip agree on the packet.
SmcPacket ==
  /\ pc \in {"idle", "allocate", "wait", "send", "wild"}
  /\ pc \in {"idle", "allocate", "wild"} => tx = Smc!NoPacket
  /\ pc = "wait" => tx.state \in {"wanted", "held"}
  /\ pc = "send" => tx.state \in {"queued", "sent", "failed"} /\ (done => tx.state # "queued")
  /\ pc # "send" => ~done

SmcPages == free + incoming.stored + Smc!PagesOf(rx) + Held = PAGES

SmcMemory == SmcTypes /\ SmcPacket /\ SmcPages

LEMMA SmcConstants ==
  /\ Lens \subseteq Nat \ {0} /\ PAGES \in Nat /\ SmcFrames \in Nat
  /\ \A s \in Sizes : Smc!NumPages(s) \in Nat
<1>1. Lens \subseteq Nat \ {0} /\ PAGES \in Nat /\ SmcFrames \in Nat /\ Sizes \subseteq Nat
  BY EthernetConstantsOK DEF Smc!SmcConstantsOK
<1>2. \A s \in Nat : (s + 15) \div 2 \in Nat
  OBVIOUS
<1>3. \A n \in Nat : (n * 2) \div 256 \in Nat
  OBVIOUS
<1> QED
  BY <1>1, <1>2, <1>3 DEF Smc!NumPages, Smc!Length

\* MC_RESET gives all of it back.
LEMMA SmcReset ==
  ASSUME Smc!MmuReset, frames' \in 0 .. SmcFrames, want' \in Nat
  PROVE  SmcTypes' /\ SmcPages' /\ tx' = Smc!NoPacket
<1>1. Smc!PagesOf(rx') = 0
  BY PagesOfNone DEF Smc!MmuReset
<1>2. rx' \in Paged
  BY DEF Smc!MmuReset, Paged
<1> QED
  BY <1>1, <1>2, SmcConstants DEF Smc!MmuReset, SmcTypes, SmcPages, Held, Smc!NoPacket, Smc!NoFrame

LEMMA SmcChipKeeps ==
  ASSUME SmcMemory, Smc!Chip
  PROVE  SmcMemory'
<1> USE SmcConstants DEF Smc!registers, Smc!nic, Smc!memory, Smc!loop, SmcMemory, Smc!NoFrame, Smc!NoPacket
<1>1. CASE Smc!FrameComes
  BY <1>1 DEF Smc!FrameComes, SmcTypes, SmcPacket, SmcPages, Held
<1>2. CASE Smc!PageStored
  <2>1. CASE free > 0
    BY <1>2, <2>1 DEF Smc!PageStored, SmcTypes, SmcPacket, SmcPages, Held
  <2>2. CASE ~(free > 0)
    BY <1>2, <2>2 DEF Smc!PageStored, SmcTypes, SmcPacket, SmcPages, Held
  <2> QED
    BY <2>1, <2>2
<1>3. CASE Smc!FrameEnds
  <2>1. PICK good \in BOOLEAN : rx' = Append(rx, [id |-> incoming.id, pages |-> incoming.len, good |-> good])
    BY <1>3 DEF Smc!FrameEnds
  <2> DEFINE x == [id |-> incoming.id, pages |-> incoming.len, good |-> good]
  <2>2. x \in [id : 1 .. SmcFrames, pages : Lens, good : BOOLEAN] /\ x.pages = incoming.len
    BY <1>3 DEF Smc!FrameEnds, SmcTypes
  <2>3. rx' = Append(rx, x)
    BY <2>1
  <2> HIDE DEF x
  <2>4. rx' \in Paged
    BY <2>2, <2>3, AppendProperties DEF SmcTypes, Paged
  <2>5. Smc!PagesOf(rx') = Smc!PagesOf(rx) + incoming.stored /\ Smc!PagesOf(rx) \in Nat
    BY <1>3, <2>2, <2>3, PagesOfMore DEF SmcTypes, Smc!FrameEnds
  <2> QED
    BY <1>3, <2>4, <2>5 DEF Smc!FrameEnds, SmcTypes, SmcPacket, SmcPages, Held
<1>4. CASE Smc!Allocated
  <2>1. /\ tx.state = "wanted" /\ free' = free - tx.pages /\ free >= tx.pages
        /\ tx'.pages = tx.pages /\ tx'.state = "held"
        /\ tx' \in [pages : Nat, state : {"held"}]
    BY <1>4 DEF Smc!Allocated, SmcTypes
  <2>2. SmcTypes'
    BY <1>4, <2>1 DEF Smc!Allocated, SmcTypes
  <2>3. SmcPacket'
    BY <1>4, <2>1 DEF Smc!Allocated, SmcPacket, SmcTypes
  <2>4. Smc!PagesOf(rx') = Smc!PagesOf(rx) /\ incoming' = incoming
    BY <1>4 DEF Smc!Allocated
  <2>5. Smc!PagesOf(rx) \in Nat
    BY PagesAreNat DEF SmcTypes
  <2>6. SmcPages'
    BY <2>1, <2>4, <2>5 DEF SmcTypes, SmcPages, Held
  <2> QED
    BY <2>2, <2>3, <2>6
<1>5. CASE Smc!Sent
  <2>1. PICK ok \in BOOLEAN : tx' = [tx EXCEPT !.state = IF ok THEN "sent" ELSE "failed"]
    BY <1>5 DEF Smc!Sent
  <2>2. /\ tx' \in [pages : Nat, state : {"sent", "failed"}]
        /\ tx'.pages = tx.pages
    BY <2>1 DEF SmcTypes
  <2>3. SmcTypes'
    BY <1>5, <2>2 DEF Smc!Sent, SmcTypes
  <2>4. SmcPacket'
    BY <1>5, <2>2 DEF Smc!Sent, SmcPacket
  <2>5. SmcPages'
    BY <1>5, <2>2 DEF Smc!Sent, SmcPages, Held
  <2> QED
    BY <2>3, <2>4, <2>5
<1> QED
  BY <1>1, <1>2, <1>3, <1>4, <1>5 DEF Smc!Chip

LEMMA SmcCallKeeps ==
  ASSUME SmcMemory, Smc!Call
  PROVE  SmcMemory'
<1> USE SmcConstants DEF Smc!registers, Smc!nic, Smc!memory, Smc!loop, SmcMemory
<1>1. CASE UNCHANGED <<free, rx, incoming, tx, done, want, frames>> /\ (pc' = pc \/ (pc = "idle" /\ pc' = "wild"))
  BY <1>1 DEF SmcTypes, SmcPacket, SmcPages, Held
<1>2. CASE pc = "idle" /\ pc' = pc /\ Smc!MmuReset /\ done' = FALSE /\ UNCHANGED <<want, frames>>
  BY <1>2, SmcReset DEF SmcPacket, SmcTypes
<1>3. CASE Smc!NodeAddr
  BY <1>1, <1>2, <1>3 DEF Smc!NodeAddr, Smc!ProbeFails, Smc!Probed
<1>4. CASE Smc!SetNodeAddr
  BY <1>1, <1>4 DEF Smc!SetNodeAddr
<1>5. CASE Smc!Start
  BY <1>1, <1>2, <1>5 DEF Smc!Start, Smc!Probed, Smc!smc_reset
<1>6. CASE Smc!StartFails
  BY <1>1, <1>6 DEF Smc!StartFails, Smc!ProbeFails
<1>7. CASE Smc!Stop
  BY <1>1, <1>2, <1>7 DEF Smc!Stop, Smc!NullCall, Smc!smc_reset
<1>8. ASSUME NEW s \in Sizes, Smc!Transmit(s) PROVE SmcMemory'
  BY <1>1, <1>8 DEF Smc!Transmit, Smc!NullCall, SmcTypes, SmcPacket, SmcPages, Held, Smc!NoPacket
<1>9. CASE Smc!Poll
  <2>1. CASE Smc!NullCall \/ rx = <<>>
    BY <1>1, <1>9, <2>1 DEF Smc!Poll, Smc!NullCall
  <2>2. CASE ~Smc!NullCall /\ rx # <<>>
    <3>1. rx \in Paged /\ rx' = Tail(rx) /\ free' = free + Head(rx).pages
      BY <1>9, <2>2 DEF Smc!Poll, SmcTypes
    <3>2. Smc!PagesOf(rx) = Head(rx).pages + Smc!PagesOf(rx') /\ Smc!PagesOf(rx') \in Nat
      BY <3>1, <2>2, PagesOfTail
    <3>3. Head(rx).pages \in Nat /\ rx' \in Paged
      <4>1. Head(rx) = rx[1] /\ Len(rx) \in Nat /\ Len(rx) > 0 /\ Tail(rx) \in Paged
        BY <3>1, <2>2, HeadTailProperties, LenProperties, EmptySeq DEF Paged
      <4> QED
        BY <3>1, <4>1, PagedPages
    <3>4. UNCHANGED <<incoming, tx, done, pc, want, frames>>
      BY <1>9, <2>2 DEF Smc!Poll
    <3>5. SmcTypes'
      BY <3>1, <3>3, <3>4 DEF SmcTypes
    <3>6. SmcPacket'
      BY <3>4 DEF SmcPacket
    <3>7. SmcPages'
      <4>1. PICK a, b : a = Smc!PagesOf(rx') /\ b = Head(rx).pages
        OBVIOUS
      <4>2. /\ a \in Nat /\ b \in Nat /\ Smc!PagesOf(rx) = b + a /\ free' = free + b
            /\ free \in Nat /\ incoming.stored \in Nat /\ Held \in Nat /\ PAGES \in Nat
        BY <3>1, <3>2, <3>3, <4>1 DEF SmcTypes, Held
      <4>3. free + incoming.stored + Smc!PagesOf(rx) + Held = PAGES /\ Held' = Held
        BY <3>4 DEF SmcPages, Held
      <4> QED
        BY <3>4, <4>1, <4>2, <4>3 DEF SmcPages
    <3> QED
      BY <3>5, <3>6, <3>7
  <2> QED
    BY <2>1, <2>2
<1> QED
  BY <1>3, <1>4, <1>5, <1>6, <1>7, <1>8, <1>9 DEF Smc!Call

LEMMA SmcDriverKeeps ==
  ASSUME SmcMemory, Smc!Driver
  PROVE  SmcMemory'
<1> USE SmcConstants DEF Smc!registers, Smc!nic, Smc!memory, Smc!loop, SmcMemory
<1>1. CASE Smc!Allocate
  BY <1>1 DEF Smc!Allocate, SmcTypes, SmcPacket, SmcPages, Held, Smc!NoPacket
<1>2. CASE Smc!AllocationTimesOut
  <2>1. /\ Smc!MmuReset /\ frames' \in 0 .. SmcFrames /\ want' \in Nat
        /\ pc' \in {"allocate", "idle"} /\ ~done /\ done' = done
    BY <1>2 DEF Smc!AllocationTimesOut, SmcTypes, SmcPacket
  <2> QED
    BY <2>1, SmcReset DEF SmcPacket
<1>3. CASE Smc!Enqueue
  <2>1. /\ pc = "wait" /\ pc' = "send" /\ done' = done
        /\ tx.state = "held" /\ tx'.state = "queued" /\ tx'.pages = tx.pages
        /\ tx' \in [pages : Nat, state : {"queued"}]
    BY <1>3 DEF Smc!Enqueue, SmcTypes
  <2>2. SmcTypes'
    BY <1>3, <2>1 DEF Smc!Enqueue, SmcTypes
  <2>3. SmcPacket'
    BY <2>1 DEF SmcPacket
  <2>4. SmcPages'
    BY <1>3, <2>1 DEF Smc!Enqueue, SmcPages, Held
  <2> QED
    BY <2>2, <2>3, <2>4
<1>4. CASE Smc!Finished
  <2>1. /\ pc' = "idle" /\ done' = FALSE /\ tx' = Smc!NoPacket
        /\ tx.state \in {"sent", "failed"} /\ free' = free + tx.pages
        /\ UNCHANGED <<rx, incoming, want, frames>>
    BY <1>4 DEF Smc!Finished, SmcPacket
  <2>2. Smc!PagesOf(rx) \in Nat
    BY PagesAreNat DEF SmcTypes
  <2>3. SmcTypes'
    BY <2>1 DEF SmcTypes, Smc!NoPacket
  <2>4. SmcPages'
    BY <2>1, <2>2 DEF SmcTypes, SmcPages, Held, Smc!NoPacket
  <2> QED
    BY <2>1, <2>3, <2>4 DEF SmcPacket
<1>5. CASE Smc!SendTimesOut
  BY <1>5, SmcReset DEF Smc!SendTimesOut, Smc!smc_reset, SmcPacket, SmcTypes
<1> QED
  BY <1>1, <1>2, <1>3, <1>4, <1>5 DEF Smc!Driver

LEMMA SmcBegins ==
  ASSUME Smc!Init
  PROVE  SmcMemory
<1>1. rx \in Paged /\ Smc!PagesOf(rx) = 0
  BY PagesOfNone DEF Smc!Init, Paged
<1> QED
  BY <1>1, SmcConstants DEF Smc!Init, SmcMemory, SmcTypes, SmcPacket, SmcPages, Held, Smc!NoPacket, Smc!NoFrame

\* Between calls the SMC91xx has all of its packet memory for what it receives.
THEOREM MemoryIsKept == Spec => []MemoryKept
<1> DEFINE Inv == driver = "smc9000" => SmcMemory
<1>1. Init => Inv
  BY SmcBegins DEF Init
<1>2. Inv /\ [Next]_vars => Inv'
  <2>1. CASE UNCHANGED vars
    BY <2>1 DEF vars, smcVars, SmcMemory, SmcTypes, SmcPacket, SmcPages, Held
  <2>2. CASE Next
    BY <2>2, SmcChipKeeps, SmcCallKeeps, SmcDriverKeeps
       DEF Next, OnlySmc, OnlyCs, OnlyNs, OnlyPcnet, Only, Smc!Next
  <2> QED
    BY <2>1, <2>2
<1>3. Inv => MemoryKept
  <2> SUFFICES ASSUME SmcMemory, pc = "idle"
               PROVE  tx = Smc!NoPacket /\ free + incoming.stored + Smc!PagesOf(rx) = PAGES
    BY DEF MemoryKept, Smc!MemoryKept
  <2>1. Smc!PagesOf(rx) \in Nat
    BY PagesAreNat DEF SmcMemory, SmcTypes
  <2> QED
    BY <2>1 DEF SmcMemory, SmcTypes, SmcPacket, SmcPages, Held, Smc!NoPacket
<1> QED
  BY <1>1, <1>2, <1>3, PTL DEF Spec

LEMMA SumGrows ==
  ASSUME NEW m \in Nat, NEW g, NEW w, IsSum(g, m, w), \A k \in 1 .. m : w[k] \in Nat,
         NEW d \in 0 .. m
  PROVE  g[d] \in Nat /\ g[m] \in Nat /\ g[d] <= g[m]
<1> DEFINE n == m - d
           v == [k \in 1 .. n |-> w[k + d]]
<1>1. n \in Nat /\ n + d = m /\ n + d <= m /\ n \in 0 .. n /\ d \in Nat
  OBVIOUS
<1>2. \A k \in 1 .. n : v[k] = w[k + d]
  OBVIOUS
<1> HIDE DEF n, v
<1>3. PICK f : IsSum(f, n, v)
  BY <1>1, SumExists
<1>4. \A k \in 0 .. n : g[k + d] = g[d] + f[k] /\ f[k] \in Nat /\ g[d] \in Nat
  BY <1>1, <1>2, <1>3, SumFrom
<1>5. g[m] = g[d] + f[n] /\ f[n] \in Nat /\ g[d] \in Nat
  BY <1>1, <1>4
<1> QED
  BY <1>5

----------------------------------------------------------------------------
(* The ring of the 8390 *)

LEMMA NsConstants ==
  /\ RX_START \in Nat /\ STOP_PG \in Nat /\ NsFrames \in Nat
  /\ Ns!Size \in Nat /\ 1 < Ns!Size /\ STOP_PG = RX_START + Ns!Size
  /\ Lens \subseteq Nat \ {0}
  BY EthernetConstantsOK DEF Ns!RingConstantsOK, Ns!Size

LEMMA AfterIs ==
  ASSUME NEW p \in Ns!Ring, NEW n \in 0 .. Ns!Size
  PROVE  /\ Ns!After(p, n) = IF p + n < STOP_PG THEN p + n ELSE p + n - Ns!Size
         /\ Ns!After(p, n) \in Ns!Ring
<1> DEFINE S == Ns!Size
           x == p - RX_START + n
<1>1. S \in Nat \ {0} /\ x \in 0 .. 2 * S - 1
  BY NsConstants DEF Ns!Ring
<1>2. Ns!After(p, n) = RX_START + (x % S)
  BY DEF Ns!After
<1> HIDE DEF S
<1>3. x % S = IF x < S THEN x ELSE x - S
  BY <1>1
<1> QED
  BY <1>2, <1>3, NsConstants DEF S, Ns!Ring

\* So many pages on, and so many more.
LEMMA AfterAfter ==
  ASSUME NEW p \in Ns!Ring, NEW a \in Nat, NEW b \in Nat, a + b <= Ns!Size
  PROVE  Ns!After(Ns!After(p, a), b) = Ns!After(p, a + b)
<1>1. a \in 0 .. Ns!Size /\ b \in 0 .. Ns!Size /\ a + b \in 0 .. Ns!Size
  BY NsConstants
<1>2. Ns!After(p, a) \in Ns!Ring
  BY <1>1, AfterIs
<1> DEFINE q == Ns!After(p, a)
<1>3. Ns!After(q, b) = IF q + b < STOP_PG THEN q + b ELSE q + b - Ns!Size
  BY <1>1, <1>2, AfterIs
<1>4. q = IF p + a < STOP_PG THEN p + a ELSE p + a - Ns!Size
  BY <1>1, AfterIs
<1>5. Ns!After(p, a + b) = IF p + (a + b) < STOP_PG THEN p + (a + b) ELSE p + (a + b) - Ns!Size
  BY <1>1, AfterIs
<1> HIDE DEF q
<1> QED
  BY <1>3, <1>4, <1>5, NsConstants DEF q, Ns!Ring

\* Pages at different distances are different pages; once round the ring is none.
LEMMA AfterDiffers ==
  ASSUME NEW p \in Ns!Ring, NEW a \in 1 .. Ns!Size, NEW b \in 1 .. Ns!Size, a # b
  PROVE  Ns!After(p, a) # Ns!After(p, b)
<1>1. a \in 0 .. Ns!Size /\ b \in 0 .. Ns!Size
  OBVIOUS
<1>2. /\ Ns!After(p, a) = IF p + a < STOP_PG THEN p + a ELSE p + a - Ns!Size
      /\ Ns!After(p, b) = IF p + b < STOP_PG THEN p + b ELSE p + b - Ns!Size
  BY <1>1, AfterIs
<1> QED
  BY <1>2, NsConstants DEF Ns!Ring

LEMMA AfterRound ==
  ASSUME NEW p \in Ns!Ring
  PROVE  Ns!After(p, Ns!Size) = p /\ Ns!After(p, 0) = p
<1>1. 0 \in 0 .. Ns!Size /\ Ns!Size \in 0 .. Ns!Size
  BY NsConstants
<1> QED
  BY <1>1, AfterIs, NsConstants DEF Ns!Ring

\* The driver's steps round the ring.
LEMMA NextPageIs ==
  ASSUME NEW p \in Ns!Ring
  PROVE  Ns!NextPage(p) = Ns!After(p, 1)
<1>1. 1 \in 0 .. Ns!Size
  BY NsConstants
<1> QED
  BY <1>1, AfterIs, NsConstants DEF Ns!Ring, Ns!NextPage

LEMMA BeforeIs ==
  ASSUME NEW p \in Ns!Ring
  PROVE  Ns!Before(p) \in Ns!Ring /\ Ns!After(Ns!Before(p), 1) = p
<1>1. Ns!Before(p) \in Ns!Ring
  BY NsConstants DEF Ns!Ring, Ns!Before
<1>2. 1 \in 0 .. Ns!Size
  BY NsConstants
<1> QED
  BY <1>1, <1>2, AfterIs, NsConstants DEF Ns!Ring, Ns!Before

\* Frames with their lengths.
NsFrame == [id : 1 .. NsFrames, len : Lens, good : BOOLEAN]

LEMMA LengthToIs ==
  ASSUME NEW q \in Seq(NsFrame)
  PROVE  /\ IsSum(Ns!LengthTo(q), Len(q), [k \in 1 .. Len(q) |-> q[k].len])
         /\ Len(q) \in Nat
         /\ \A k \in 1 .. Len(q) : q[k] \in NsFrame /\ q[k].len \in Nat \ {0}
<1> DEFINE w == [k \in 1 .. Len(q) |-> q[k].len]
<1>1. Len(q) \in Nat
  BY LenProperties
<1>2. \A m \in 0 .. Len(q) : m # 0 => w[m] = q[m].len
  OBVIOUS
<1>3. PICK f : IsSum(f, Len(q), w)
  BY <1>1, SumExists
<1> HIDE DEF w
<1>4. f = [m \in 0 .. Len(q) |-> IF m = 0 THEN 0 ELSE f[m - 1] + w[m]]
  BY <1>3 DEF IsSum
<1>5. f = [m \in 0 .. Len(q) |-> IF m = 0 THEN 0 ELSE f[m - 1] + q[m].len]
  BY <1>2, <1>4
<1>6. Ns!LengthTo(q) = [m \in 0 .. Len(q) |-> IF m = 0 THEN 0 ELSE Ns!LengthTo(q)[m - 1] + q[m].len]
  BY <1>5 DEF Ns!LengthTo
<1>7. IsSum(Ns!LengthTo(q), Len(q), w)
  BY <1>2, <1>6 DEF IsSum
<1>8. \A k \in 1 .. Len(q) : q[k] \in NsFrame
  BY ElementOfSeq
<1> QED
  BY <1>1, <1>7, <1>8, NsConstants DEF w, NsFrame

LEMMA LengthToGrows ==
  ASSUME NEW q \in Seq(NsFrame)
  PROVE  /\ Ns!LengthTo(q)[0] = 0
         /\ \A k \in 0 .. Len(q) : /\ Ns!LengthTo(q)[k] \in Nat
                                   /\ Ns!LengthTo(q)[k] <= Ns!LengthTo(q)[Len(q)]
         /\ \A k \in 1 .. Len(q) : Ns!LengthTo(q)[k] = Ns!LengthTo(q)[k - 1] + q[k].len
<1> DEFINE w == [k \in 1 .. Len(q) |-> q[k].len]
           f == Ns!LengthTo(q)
           n == Len(q)
<1>1. IsSum(f, n, w) /\ n \in Nat /\ \A k \in 1 .. n : w[k] \in Nat
  BY LengthToIs
<1>2. \A k \in 1 .. n : w[k] = q[k].len
  OBVIOUS
<1> HIDE DEF w, f, n
<1>3. \A k \in 0 .. n : f[k] \in Nat /\ f[k] <= f[n]
  BY <1>1, SumGrows
<1>4. f[0] = 0 /\ \A k \in 1 .. n : f[k] = f[k - 1] + w[k]
  BY <1>1 DEF IsSum
<1> QED
  BY <1>2, <1>3, <1>4 DEF f, n

\* The oldest frame goes.
LEMMA LengthToTail ==
  ASSUME NEW q \in Seq(NsFrame), q # <<>>
  PROVE  /\ Tail(q) \in Seq(NsFrame) /\ Len(q) = Len(Tail(q)) + 1
         /\ \A k \in 1 .. Len(Tail(q)) : Tail(q)[k] = q[k + 1]
         /\ \A k \in 0 .. Len(Tail(q)) :
              Ns!LengthTo(q)[k + 1] = q[1].len + Ns!LengthTo(Tail(q))[k]
<1> DEFINE t == Tail(q)
           n == Len(t)
           w == [k \in 1 .. Len(q) |-> q[k].len]
           v == [k \in 1 .. n |-> t[k].len]
           f == Ns!LengthTo(t)
           g == Ns!LengthTo(q)
<1>1. /\ t \in Seq(NsFrame) /\ n \in Nat /\ Len(q) = n + 1
      /\ \A k \in 1 .. n : t[k] = q[k + 1]
  BY HeadTailProperties, LenProperties
<1>2. IsSum(f, n, v) /\ IsSum(g, Len(q), w) /\ \A k \in 1 .. Len(q) : w[k] \in Nat
  BY <1>1, LengthToIs
<1>3. g[1] = q[1].len
  <2>1. 1 \in 1 .. Len(q) /\ 1 - 1 = 0
    BY <1>1
  <2>2. q[1].len \in Nat \ {0}
    BY <2>1, LengthToIs
  <2>3. g[0] = 0 /\ g[1] = g[0] + q[1].len
    BY <2>1, LengthToGrows
  <2> HIDE DEF g
  <2> QED
    BY <2>2, <2>3
<1> HIDE DEF t, n
<1>4. \A k \in 1 .. n : v[k] = w[k + 1]
  BY <1>1
<1> HIDE DEF v, w, f, g
<1> DEFINE m == Len(q)
<1>5. n + 1 <= m /\ m \in Nat /\ 1 \in Nat
  BY <1>1
<1> HIDE DEF m
<1>6. IsSum(g, m, w) /\ \A k \in 1 .. m : w[k] \in Nat
  BY <1>2 DEF m
<1>7. \A k \in 0 .. n : g[k + 1] = g[1] + f[k] /\ f[k] \in Nat /\ g[1] \in Nat
  BY <1>1, <1>2, <1>4, <1>5, <1>6, SumFrom
<1> QED
  BY <1>1, <1>3, <1>7 DEF t, n, f, g

\* One more comes.
LEMMA LengthToAppend ==
  ASSUME NEW q \in Seq(NsFrame), NEW x \in NsFrame
  PROVE  /\ Append(q, x) \in Seq(NsFrame) /\ Len(Append(q, x)) = Len(q) + 1
         /\ Append(q, x)[Len(q) + 1] = x
         /\ \A k \in 1 .. Len(q) : Append(q, x)[k] = q[k]
         /\ \A k \in 0 .. Len(q) : Ns!LengthTo(Append(q, x))[k] = Ns!LengthTo(q)[k]
         /\ Ns!LengthTo(Append(q, x))[Len(q) + 1] = Ns!LengthTo(q)[Len(q)] + x.len
<1> DEFINE t == Append(q, x)
           n == Len(q)
           w == [k \in 1 .. Len(t) |-> t[k].len]
           v == [k \in 1 .. n |-> q[k].len]
           f == Ns!LengthTo(q)
           g == Ns!LengthTo(t)
<1>1. /\ t \in Seq(NsFrame) /\ n \in Nat /\ Len(t) = n + 1 /\ t[n + 1] = x
      /\ \A k \in 1 .. n : t[k] = q[k]
  BY AppendProperties, LenProperties
<1>2. IsSum(f, n, v) /\ IsSum(g, Len(t), w) /\ \A k \in 1 .. Len(t) : w[k] \in Nat
  BY <1>1, LengthToIs
<1>3. g[n + 1] = g[n] + x.len
  <2>1. n + 1 \in 1 .. Len(t) /\ (n + 1) - 1 = n
    BY <1>1
  <2>2. \A k \in 1 .. Len(t) : g[k] = g[k - 1] + t[k].len
    BY <1>1, LengthToGrows
  <2> HIDE DEF t, n, g
  <2> QED
    BY <2>1, <2>2, <1>1
<1> HIDE DEF t, n
<1>4. \A k \in 1 .. n : v[k] = w[k]
  BY <1>1
<1> HIDE DEF v, w, f, g
<1>5. n <= n + 1 /\ n + 1 \in Nat /\ n \in 0 .. n
  BY <1>1
<1>6. \A k \in 0 .. n : g[k] = f[k] /\ f[k] \in Nat
  BY <1>1, <1>2, <1>4, <1>5, SumSame
<1> QED
  BY <1>1, <1>3, <1>5, <1>6 DEF t, n, f, g

\* The page n pages after BOUND, and how far the first k frames reach.
NsAt(n) == page[Ns!After(BOUND, n)]
NsReach(k) == Ns!LengthTo(queue)[k]

NsTypes ==
  /\ page \in [Ns!Ring -> Ns!Page]
  /\ CURR \in Ns!Ring /\ BOUND \in Ns!Ring /\ next \in Ns!Ring /\ pkthdr \in Ns!Header
  /\ frames \in 0 .. NsFrames
  /\ queue \in Seq(NsFrame)
  /\ incoming \in [id : 0 .. NsFrames, len : Nat, stored : Nat]
  /\ incoming.stored <= incoming.len
  /\ incoming # Ns!NoFrame => incoming.id # 0 /\ incoming.len \in Lens

\* What is stored, and what is being stored, does not reach BOUND.
NsRoom ==
  /\ NsReach(Len(queue)) + incoming.stored < Ns!Size
  /\ CURR = Ns!After(BOUND, 1 + NsReach(Len(queue)))

\* Each frame has a header in its first page, which says where it ends.
NsHeader(k) ==
  [next |-> Ns!After(BOUND, 1 + NsReach(k)), len |-> queue[k].len, good |-> queue[k].good]

NsHeaders ==
  \A k \in 1 .. Len(queue) : NsAt(1 + NsReach(k - 1)).hdr = NsHeader(k)

\* The driver is at the oldest frame, which stays until it is given back.
NsPlace ==
  /\ pc \in {"poll", "rsr", "curr", "header", "first", "second", "bound", "ack"}
  /\ pc \in {"curr", "header", "first", "second", "bound"} => next = Ns!After(BOUND, 1)
  /\ pc \in {"header", "first", "second", "bound"} => queue # <<>>
  /\ pc \in {"first", "second", "bound"} => pkthdr = NsHeader(1)

NsInStep == NsTypes /\ NsRoom /\ NsHeaders /\ NsPlace

\* Where the frames are, in numbers the provers can use.
LEMMA NsDistances ==
  ASSUME NsTypes, NsRoom
  PROVE  /\ Len(queue) \in Nat /\ NsReach(0) = 0
         /\ NsReach(Len(queue)) \in Nat
         /\ \A k \in 0 .. Len(queue) : NsReach(k) \in Nat /\ NsReach(k) <= NsReach(Len(queue))
         /\ \A k \in 1 .. Len(queue) : /\ queue[k] \in NsFrame /\ queue[k].len \in Nat \ {0}
                                       /\ NsReach(k) = NsReach(k - 1) + queue[k].len
         /\ \A k \in 1 .. Len(queue) : 1 + NsReach(k - 1) \in 1 .. NsReach(Len(queue))
         /\ 1 + NsReach(Len(queue)) \in 1 .. Ns!Size
<1> DEFINE n == Len(queue)
<1>1. /\ n \in Nat /\ NsReach(0) = 0
      /\ \A k \in 0 .. n : NsReach(k) \in Nat /\ NsReach(k) <= NsReach(n)
      /\ \A k \in 1 .. n : /\ queue[k] \in NsFrame /\ queue[k].len \in Nat \ {0}
                           /\ NsReach(k) = NsReach(k - 1) + queue[k].len
  BY LengthToIs, LengthToGrows DEF NsTypes, NsReach
<1> HIDE DEF n
<1>2. NsReach(n) \in Nat
  BY <1>1
<1>3. ASSUME NEW k \in 1 .. n PROVE 1 + NsReach(k - 1) \in 1 .. NsReach(n)
  <2>1. k \in 0 .. n /\ k - 1 \in 0 .. n
    BY <1>1
  <2>2. NsReach(k) \in Nat /\ NsReach(k) <= NsReach(n) /\ NsReach(k - 1) \in Nat
    BY <1>1, <2>1
  <2>3. NsReach(k) = NsReach(k - 1) + queue[k].len /\ queue[k].len \in Nat \ {0}
    BY <1>1
  <2> QED
    BY <1>2, <2>2, <2>3
<1>4. 1 + NsReach(n) \in 1 .. Ns!Size
  <2>1. NsReach(n) + incoming.stored < Ns!Size /\ incoming.stored \in Nat
    BY DEF NsRoom, NsTypes, n
  <2> QED
    BY <1>2, <2>1, NsConstants
<1> QED
  BY <1>1, <1>2, <1>3, <1>4 DEF n

\* The adapter stores one more page, ahead of everything that is in the ring.
LEMMA NsStores ==
  ASSUME NsInStep, Ns!PageStored, incoming' # Ns!NoFrame
  PROVE  /\ incoming' = [incoming EXCEPT !.stored = @ + 1]
         /\ 1 + NsReach(Len(queue)) + incoming.stored \in 1 .. Ns!Size - 1
         /\ LET p == Ns!After(BOUND, 1 + NsReach(Len(queue)) + incoming.stored)
            IN page' = [page EXCEPT ![p].id = incoming.id, ![p].part = incoming.stored + 1]
<1> DEFINE R == NsReach(Len(queue))
           s == incoming.stored
           p == Ns!After(CURR, s)
<1>1. R \in Nat /\ s \in Nat /\ R + s < Ns!Size /\ BOUND \in Ns!Ring /\ CURR = Ns!After(BOUND, 1 + R)
  BY NsDistances DEF NsInStep, NsTypes, NsRoom
<1>2. /\ p # BOUND
      /\ page' = [page EXCEPT ![p].id = incoming.id, ![p].part = incoming.stored + 1]
      /\ incoming' = [incoming EXCEPT !.stored = @ + 1]
  BY DEF Ns!PageStored
<1> HIDE DEF R, s
<1>3. p = Ns!After(BOUND, 1 + R + s)
  BY <1>1, AfterAfter, NsConstants
<1>4. 1 + R + s # Ns!Size
  BY <1>1, <1>2, <1>3, AfterRound
<1>5. 1 + R + s \in 1 .. Ns!Size - 1
  BY <1>1, <1>4, NsConstants
<1> QED
  BY <1>2, <1>3, <1>5 DEF R, s

LEMMA NsPageKeeps ==
  ASSUME NsInStep, Ns!PageStored
  PROVE  NsInStep'
<1>0. UNCHANGED <<CURR, frames, BOUND, pc, clearing, next, pkthdr, queue>>
  BY DEF Ns!PageStored
<1>1. CASE incoming' = Ns!NoFrame
  <2>1. page' = page
    BY <1>1 DEF Ns!PageStored, Ns!NoFrame, NsInStep, NsTypes
  <2>2. NsReach(Len(queue)) \in Nat
    BY NsDistances DEF NsInStep
  <2>3. NsRoom'
    <3>1. NsReach(Len(queue))' = NsReach(Len(queue)) /\ incoming'.stored = 0
      BY <1>0, <1>1 DEF NsReach, Ns!NoFrame
    <3> QED
      BY <1>0, <2>2, <3>1, NsConstants DEF NsInStep, NsTypes, NsRoom
  <2>4. NsTypes'
    BY <1>0, <1>1, <2>1, NsConstants DEF NsInStep, NsTypes, Ns!NoFrame
  <2> QED
    BY <1>0, <2>1, <2>3, <2>4 DEF NsInStep, NsHeaders, NsHeader, NsAt, NsReach, NsPlace
<1>2. CASE incoming' # Ns!NoFrame
  <2> DEFINE p == Ns!After(BOUND, 1 + NsReach(Len(queue)) + incoming.stored)
  <2>1. /\ incoming' = [incoming EXCEPT !.stored = @ + 1]
        /\ 1 + NsReach(Len(queue)) + incoming.stored \in 1 .. Ns!Size - 1
        /\ page' = [page EXCEPT ![p].id = incoming.id, ![p].part = incoming.stored + 1]
    BY <1>2, NsStores
  <2>2. p \in Ns!Ring
    <3>1. PICK d : d = 1 + NsReach(Len(queue)) + incoming.stored
      OBVIOUS
    <3>2. d \in 0 .. Ns!Size /\ BOUND \in Ns!Ring
      BY <2>1, <3>1, NsConstants DEF NsInStep, NsTypes
    <3>3. Ns!After(BOUND, d) \in Ns!Ring
      BY <3>2, AfterIs
    <3> QED
      BY <3>1, <3>3
  <2> HIDE DEF p
  <2>3. page \in [Ns!Ring -> Ns!Page] /\ incoming.id \in 0 .. NsFrames /\ incoming.stored + 1 \in Nat
    BY DEF NsInStep, NsTypes
  <2>4. page' \in [Ns!Ring -> Ns!Page]
    BY <2>1, <2>2, <2>3 DEF Ns!Page
  <2>5. \A r \in Ns!Ring : page'[r].hdr = page[r].hdr
    BY <2>1, <2>2, <2>3 DEF Ns!Page
  <2>6. incoming.stored < incoming.len /\ incoming # Ns!NoFrame
    BY DEF Ns!PageStored
  <2>7. NsTypes'
    BY <1>0, <2>1, <2>4, <2>6 DEF NsInStep, NsTypes, Ns!NoFrame
  <2>8. NsRoom'
    <3>1. NsReach(Len(queue)) \in Nat
      BY NsDistances DEF NsInStep
    <3>2. NsReach(Len(queue))' = NsReach(Len(queue))
      BY <1>0 DEF NsReach
    <3>3. incoming'.stored = incoming.stored + 1 /\ incoming.stored \in Nat
      BY <2>1 DEF NsInStep, NsTypes
    <3>4. NsReach(Len(queue)) + (incoming.stored + 1) < Ns!Size
      BY <2>1, <3>1, <3>3, NsConstants
    <3>5. CURR = Ns!After(BOUND, 1 + NsReach(Len(queue)))
      BY DEF NsInStep, NsRoom
    <3> QED
      BY <1>0, <3>2, <3>3, <3>4, <3>5 DEF NsRoom
  <2>9. NsHeaders'
    <3> SUFFICES ASSUME NEW k \in 1 .. Len(queue)
                 PROVE  page'[Ns!After(BOUND, 1 + NsReach(k - 1))].hdr = NsHeader(k)
      BY <1>0 DEF NsHeaders, NsHeader, NsAt, NsReach
    <3>1. 1 + NsReach(k - 1) \in 0 .. Ns!Size
      BY NsDistances, NsConstants DEF NsInStep
    <3>2. Ns!After(BOUND, 1 + NsReach(k - 1)) \in Ns!Ring
      BY <3>1, AfterIs DEF NsInStep, NsTypes
    <3> QED
      BY <2>5, <3>2 DEF NsInStep, NsHeaders, NsAt
  <2> QED
    BY <1>0, <2>7, <2>8, <2>9 DEF NsInStep, NsPlace, NsHeader, NsReach
<1> QED
  BY <1>1, <1>2

LEMMA OneMore ==
  ASSUME NEW a \in Nat, NEW b \in Nat
  PROVE  1 + (a + b) = 1 + a + b
OBVIOUS

\* A frame joins n others, where the pages it has taken are.
NsJoins(n, good) ==
  LET end == Ns!After(BOUND, 1 + NsReach(n) + incoming.len)
      x == [id |-> incoming.id, len |-> incoming.len, good |-> good]
      hdr == [next |-> end, len |-> incoming.len, good |-> good]
  IN /\ CURR' = end /\ end \in Ns!Ring
     /\ NsReach(n) \in Nat /\ NsReach(n) + incoming.len < Ns!Size
     /\ page' = [page EXCEPT ![CURR].hdr = hdr] /\ hdr \in Ns!Header
     /\ queue' = Append(queue, x) /\ x \in NsFrame
     /\ Len(queue') = n + 1
     /\ \A k \in 0 .. n : NsReach(k)' = NsReach(k)
     /\ NsReach(n + 1)' = NsReach(n) + incoming.len

LEMMA NsEnds ==
  ASSUME NsInStep, Ns!FrameEnds, CURR' # CURR \/ queue' # queue,
         NEW n, n = Len(queue)
  PROVE  \E good \in BOOLEAN : NsJoins(n, good)
<1> DEFINE R == NsReach(n)
           end == Ns!After(BOUND, 1 + R + incoming.len)
<1>1. /\ incoming.stored = incoming.len /\ incoming.len \in Lens /\ incoming.len \in Nat
      /\ incoming.id \in 1 .. NsFrames
  BY NsConstants DEF Ns!FrameEnds, NsInStep, NsTypes
<1>2. R \in Nat /\ R + incoming.len < Ns!Size /\ CURR = Ns!After(BOUND, 1 + R) /\ BOUND \in Ns!Ring
  BY <1>1, NsDistances DEF NsInStep, NsTypes, NsRoom
<1>3. PICK good \in BOOLEAN :
        /\ CURR' = Ns!After(CURR, incoming.len)
        /\ page' = [page EXCEPT ![CURR].hdr = [next |-> Ns!After(CURR, incoming.len), len |-> incoming.len, good |-> good]]
        /\ queue' = Append(queue, [id |-> incoming.id, len |-> incoming.len, good |-> good])
  BY DEF Ns!FrameEnds
<1> HIDE DEF R
<1>4. Ns!After(CURR, incoming.len) = end
  <2>1. 1 + R \in Nat /\ (1 + R) + incoming.len <= Ns!Size
    BY <1>1, <1>2, NsConstants
  <2> QED
    BY <1>1, <1>2, <2>1, AfterAfter
<1>5. end \in Ns!Ring
  BY <1>1, <1>2, AfterIs, NsConstants
<1> DEFINE x == [id |-> incoming.id, len |-> incoming.len, good |-> good]
<1>6. x \in NsFrame /\ x.len = incoming.len
  BY <1>1 DEF NsFrame
<1>7. queue' = Append(queue, x) /\ queue \in Seq(NsFrame)
  BY <1>3 DEF NsInStep, NsTypes
<1> HIDE DEF x
<1>8. /\ Len(queue') = n + 1
      /\ \A k \in 0 .. n : NsReach(k)' = NsReach(k)
      /\ NsReach(n + 1)' = R + incoming.len
  BY <1>6, <1>7, LengthToAppend DEF NsReach, R
<1> HIDE DEF end
<1> DEFINE hdr == [next |-> end, len |-> incoming.len, good |-> good]
<1>9. hdr \in Ns!Header
  BY <1>1, <1>5 DEF Ns!Header
<1>10. page' = [page EXCEPT ![CURR].hdr = hdr]
  BY <1>3, <1>4
<1> QED
  BY <1>2, <1>3, <1>4, <1>5, <1>6, <1>7, <1>8, <1>9, <1>10 DEF NsJoins, R, end, x

LEMMA NsEndKeeps ==
  ASSUME NsInStep, Ns!FrameEnds
  PROVE  NsInStep'
<1> PICK n : n = Len(queue)
  OBVIOUS
<1> DEFINE R == NsReach(n)
<1>0. UNCHANGED <<mode, frames, BOUND, OVW, pc, clearing, next, pkthdr, buf, stray, got>> /\ incoming' = Ns!NoFrame
  BY DEF Ns!FrameEnds
<1>1. CASE CURR' = CURR /\ queue' = queue
  <2>1. page' = page
    <3>1. UNCHANGED <<page, CURR, queue>> \/ \E x : queue' = Append(queue, x)
      BY DEF Ns!FrameEnds
    <3>2. \A x : Append(queue, x) # queue
      <4>1. queue \in Seq(NsFrame)
        BY DEF NsInStep, NsTypes
      <4>2. Len(queue) \in Nat /\ \A x : Len(Append(queue, x)) = Len(queue) + 1
        BY <4>1
      <4> QED
        BY <4>2
    <3> QED
      BY <1>1, <3>1, <3>2
  <2>2. NsReach(Len(queue))' = NsReach(Len(queue)) /\ incoming'.stored = 0
    BY <1>0, <1>1 DEF NsReach, Ns!NoFrame
  <2>3. NsReach(Len(queue)) \in Nat
    BY NsDistances DEF NsInStep
  <2>4. NsRoom'
    BY <1>0, <1>1, <2>2, <2>3, NsConstants DEF NsInStep, NsTypes, NsRoom
  <2>5. NsTypes'
    BY <1>0, <1>1, <2>1, NsConstants DEF NsInStep, NsTypes, Ns!NoFrame
  <2> QED
    BY <1>0, <1>1, <2>1, <2>4, <2>5 DEF NsInStep, NsHeaders, NsHeader, NsAt, NsReach, NsPlace
<1>2. CASE CURR' # CURR \/ queue' # queue
  <2> DEFINE end == Ns!After(BOUND, 1 + R + incoming.len)
  <2>1. PICK good \in BOOLEAN : NsJoins(n, good)
    BY <1>2, NsEnds
  <2> DEFINE x == [id |-> incoming.id, len |-> incoming.len, good |-> good]
             hdr == [next |-> end, len |-> incoming.len, good |-> good]
  <2>2. /\ CURR' = end /\ end \in Ns!Ring /\ R \in Nat /\ R + incoming.len < Ns!Size
        /\ page' = [page EXCEPT ![CURR].hdr = hdr] /\ hdr \in Ns!Header
        /\ queue' = Append(queue, x) /\ x \in NsFrame
        /\ Len(queue') = n + 1
        /\ \A k \in 0 .. n : NsReach(k)' = NsReach(k)
        /\ NsReach(n + 1)' = R + incoming.len
    BY <2>1 DEF NsJoins
  <2>3. /\ page \in [Ns!Ring -> Ns!Page] /\ CURR \in Ns!Ring /\ BOUND \in Ns!Ring
        /\ queue \in Seq(NsFrame) /\ n \in Nat
        /\ CURR = Ns!After(BOUND, 1 + R)
    BY NsDistances DEF NsInStep, NsTypes, NsRoom
  <2>4. x.len = incoming.len /\ x.good = good /\ incoming.len \in Nat /\ hdr.len = x.len
    BY DEF NsInStep, NsTypes
  <2>5. /\ queue' \in Seq(NsFrame) /\ queue'[n + 1] = x
        /\ \A k \in 1 .. n : queue'[k] = queue[k]
    BY <2>2, <2>3, LengthToAppend
  <2> HIDE DEF x, hdr
  <2>6. /\ page' \in [Ns!Ring -> Ns!Page] /\ page'[CURR].hdr = hdr
        /\ \A r \in Ns!Ring : r # CURR => page'[r].hdr = page[r].hdr
    BY <2>2, <2>3 DEF Ns!Page
  <2>7. NsTypes'
    BY <1>0, <2>2, <2>3, <2>5, <2>6, NsConstants DEF NsInStep, NsTypes, Ns!NoFrame
  <2>8. NsRoom'
    <3>1. NsReach(Len(queue))' = R + incoming.len
      BY <2>2 DEF NsReach
    <3>2. incoming'.stored = 0
      BY <1>0 DEF Ns!NoFrame
    <3>3. 1 + (R + incoming.len) = 1 + R + incoming.len
      BY <2>2, <2>4, OneMore
    <3> HIDE DEF R
    <3> QED
      BY <1>0, <2>2, <2>4, <3>1, <3>2, <3>3 DEF NsRoom, end
  <2>9. ASSUME NEW k \in 1 .. n
        PROVE  /\ page'[Ns!After(BOUND, 1 + NsReach(k - 1))].hdr = NsHeader(k)
               /\ NsHeader(k)' = NsHeader(k) /\ NsReach(k - 1)' = NsReach(k - 1)
    <3>1. /\ 1 + NsReach(k - 1) \in 1 .. Ns!Size /\ 1 + R \in 1 .. Ns!Size
          /\ 1 + NsReach(k - 1) # 1 + R /\ 1 + NsReach(k - 1) \in 0 .. Ns!Size
      BY <2>2, NsDistances, NsConstants DEF NsInStep
    <3>2. Ns!After(BOUND, 1 + NsReach(k - 1)) # CURR
      BY <2>3, <3>1, AfterDiffers
    <3>3. Ns!After(BOUND, 1 + NsReach(k - 1)) \in Ns!Ring
      BY <2>3, <3>1, AfterIs
    <3>4. page[Ns!After(BOUND, 1 + NsReach(k - 1))].hdr = NsHeader(k)
      BY DEF NsInStep, NsHeaders, NsAt
    <3>5. k \in 0 .. n /\ k - 1 \in 0 .. n
      BY <2>3
    <3>6. NsReach(k)' = NsReach(k) /\ NsReach(k - 1)' = NsReach(k - 1)
      BY <2>2, <3>5
    <3>7. NsHeader(k)' = NsHeader(k)
      BY <1>0, <2>5, <3>6 DEF NsHeader
    <3> QED
      BY <2>6, <3>2, <3>3, <3>4, <3>6, <3>7
  <2>10. page'[Ns!After(BOUND, 1 + NsReach(n))].hdr = NsHeader(n + 1)'
    <3>1. NsHeader(n + 1)' = [next |-> Ns!After(BOUND, 1 + NsReach(n + 1)'), len |-> x.len, good |-> x.good]
      BY <1>0, <2>5 DEF NsHeader
    <3>2. 1 + (R + incoming.len) = 1 + R + incoming.len
      BY <2>2, <2>4, OneMore
    <3> QED
      BY <2>2, <2>3, <2>4, <2>6, <3>1, <3>2 DEF hdr
  <2>11. NsHeaders'
    <3> SUFFICES ASSUME NEW k \in 1 .. n + 1
                 PROVE  page'[Ns!After(BOUND, 1 + NsReach(k - 1)')].hdr = NsHeader(k)'
      BY <1>0, <2>2 DEF NsHeaders, NsAt
    <3>1. CASE k \in 1 .. n
      BY <2>9, <3>1
    <3>2. CASE k = n + 1
      <4>1. k - 1 = n /\ n \in 0 .. n
        BY <2>3, <3>2
      <4>2. NsReach(k - 1)' = NsReach(n)
        BY <2>2, <4>1
      <4> QED
        BY <2>10, <3>2, <4>2
    <3> QED
      BY <2>3, <3>1, <3>2
  <2>12. NsPlace'
    <3>1. queue # <<>> => 1 \in 1 .. n
      BY <2>3, EmptySeq
    <3>2. queue' # <<>>
      BY <2>2, <2>3
    <3>3. queue # <<>> => NsHeader(1)' = NsHeader(1)
      BY <2>9, <3>1
    <3> QED
      BY <1>0, <3>2, <3>3 DEF NsInStep, NsPlace
  <2> QED
    BY <2>7, <2>8, <2>11, <2>12 DEF NsInStep
<1> QED
  BY <1>1, <1>2

\* The driver reads, and the adapter may drop what it was storing.
LEMMA NsReads ==
  ASSUME NsInStep, UNCHANGED <<page, CURR, frames, BOUND, queue>>,
         incoming' = incoming \/ incoming' = Ns!NoFrame,
         next' \in Ns!Ring, pkthdr' \in Ns!Header, NsPlace'
  PROVE  NsInStep'
<1>1. NsReach(Len(queue))' = NsReach(Len(queue))
  BY DEF NsReach
<1>2. NsReach(Len(queue)) \in Nat
  BY NsDistances DEF NsInStep
<1>3. NsRoom'
  BY <1>1, <1>2, NsConstants DEF NsInStep, NsTypes, NsRoom, Ns!NoFrame
<1>4. NsTypes'
  BY NsConstants DEF NsInStep, NsTypes, Ns!NoFrame
<1>5. NsHeaders'
  BY DEF NsInStep, NsHeaders, NsHeader, NsAt, NsReach
<1> QED
  BY <1>3, <1>4, <1>5 DEF NsInStep

LEMMA NsOldest ==
  ASSUME NsInStep, queue # <<>>
  PROVE  /\ 1 \in 1 .. Len(queue) /\ Len(queue) \in Nat
         /\ NsReach(1) = queue[1].len /\ queue[1].len \in Nat \ {0}
         /\ NsReach(1) <= NsReach(Len(queue)) /\ NsReach(Len(queue)) < Ns!Size
         /\ page[Ns!After(BOUND, 1)].hdr = NsHeader(1)
<1>1. Len(queue) \in Nat /\ 1 \in 1 .. Len(queue) /\ 1 - 1 = 0 /\ 1 \in 0 .. Len(queue)
  BY EmptySeq DEF NsInStep, NsTypes
<1>2. /\ NsReach(1) = NsReach(0) + queue[1].len /\ queue[1].len \in Nat \ {0} /\ NsReach(0) = 0
      /\ NsReach(1) <= NsReach(Len(queue)) /\ NsReach(Len(queue)) \in Nat
      /\ 1 + NsReach(Len(queue)) \in 1 .. Ns!Size
  BY <1>1, NsDistances DEF NsInStep
<1>3. NsAt(1 + NsReach(1 - 1)).hdr = NsHeader(1)
  BY <1>1 DEF NsInStep, NsHeaders
<1>4. NsAt(1 + NsReach(1 - 1)) = page[Ns!After(BOUND, 1)]
  BY <1>1, <1>2 DEF NsAt
<1> QED
  BY <1>1, <1>2, <1>3, <1>4, NsConstants

LEMMA NsReadKeeps ==
  ASSUME NsInStep,
         \/ Ns!Poll \/ Ns!ReadRsr \/ Ns!ReadCurr \/ Ns!ReadHeader \/ Ns!ReadFirst \/ Ns!ReadSecond
         \/ Ns!LeaveOverrun
  PROVE  NsInStep'
<1> USE DEF Ns!adapter, Ns!Goto, Ns!Nothing
<1>0. /\ next \in Ns!Ring /\ pkthdr \in Ns!Header /\ BOUND \in Ns!Ring
      /\ NsPlace
  BY DEF NsInStep, NsTypes
<1>1. CASE Ns!Poll
  <2>1. UNCHANGED <<page, CURR, frames, BOUND, queue, next, pkthdr>> /\ pc' = "rsr"
        /\ (incoming' = incoming \/ incoming' = Ns!NoFrame)
    BY <1>1 DEF Ns!Poll
  <2>2. NsPlace'
    BY <2>1 DEF NsPlace
  <2> QED
    BY <1>0, <2>1, <2>2, NsReads
<1>2. CASE Ns!ReadRsr
  <2>1. /\ UNCHANGED <<page, CURR, frames, BOUND, queue, incoming, pkthdr, clearing>>
        /\ \/ pc' = "curr" /\ next' = Ns!NextPage(BOUND)
           \/ pc' \in {"poll", "ack"} /\ next' = next
    BY <1>2 DEF Ns!ReadRsr
  <2>2. Ns!NextPage(BOUND) = Ns!After(BOUND, 1) /\ Ns!After(BOUND, 1) \in Ns!Ring
    BY <1>0, NextPageIs, AfterIs, NsConstants
  <2>3. NsPlace'
    BY <2>1, <2>2 DEF NsPlace
  <2> QED
    BY <1>0, <2>1, <2>2, <2>3, NsReads
<1>3. CASE Ns!ReadCurr
  <2>1. /\ UNCHANGED <<page, CURR, frames, BOUND, queue, incoming, pkthdr, clearing, next>>
        /\ pc = "curr"
        /\ (CURR # next /\ pc' = "header") \/ pc' \in {"poll", "ack"}
    BY <1>3 DEF Ns!ReadCurr
  <2>2. next = Ns!After(BOUND, 1)
    BY <1>0, <2>1 DEF NsPlace
  <2>3. CURR # next => queue # <<>>
    <3>1. SUFFICES ASSUME queue = <<>> PROVE CURR = next
      OBVIOUS
    <3>2. NsReach(Len(queue)) = 0 /\ 1 + 0 = 1
      BY <3>1, NsDistances DEF NsInStep
    <3> QED
      BY <2>2, <3>2 DEF NsInStep, NsRoom
  <2>4. NsPlace'
    BY <2>1, <2>2, <2>3 DEF NsPlace
  <2> QED
    BY <1>0, <2>1, <2>4, NsReads
<1>4. CASE Ns!ReadHeader
  <2>1. /\ UNCHANGED <<page, CURR, frames, BOUND, queue, incoming, clearing, next>>
        /\ pc = "header" /\ pc' \in {"first", "poll", "ack"} /\ pkthdr' = page[next].hdr
    BY <1>4 DEF Ns!ReadHeader
  <2>2. next = Ns!After(BOUND, 1) /\ queue # <<>>
    BY <1>0, <2>1 DEF NsPlace
  <2>3. pkthdr' = NsHeader(1)
    BY <2>1, <2>2, NsOldest
  <2>4. NsHeader(1)' = NsHeader(1)
    BY <2>1 DEF NsHeader, NsReach
  <2>5. pkthdr' \in Ns!Header
    BY <1>0, <2>1 DEF NsInStep, NsTypes, Ns!Page
  <2>6. NsPlace'
    BY <2>1, <2>2, <2>3, <2>4 DEF NsPlace
  <2> QED
    BY <1>0, <2>1, <2>5, <2>6, NsReads
<1>5. CASE Ns!ReadFirst \/ Ns!ReadSecond
  <2>1. /\ UNCHANGED <<page, CURR, frames, BOUND, queue, incoming, clearing, next, pkthdr>>
        /\ pc \in {"first", "second"} /\ pc' \in {"second", "bound"}
    BY <1>5 DEF Ns!ReadFirst, Ns!ReadSecond
  <2>2. NsHeader(1)' = NsHeader(1)
    BY <2>1 DEF NsHeader, NsReach
  <2>3. NsPlace'
    BY <1>0, <2>1, <2>2 DEF NsPlace
  <2> QED
    BY <1>0, <2>1, <2>3, NsReads
<1>6. CASE Ns!LeaveOverrun
  <2>1. /\ UNCHANGED <<page, CURR, frames, BOUND, queue, incoming, next, pkthdr>>
        /\ pc' = "poll"
    BY <1>6 DEF Ns!LeaveOverrun
  <2>2. NsPlace'
    BY <2>1 DEF NsPlace
  <2> QED
    BY <1>0, <2>1, <2>2, NsReads
<1> QED
  BY <1>1, <1>2, <1>3, <1>4, <1>5, <1>6

\* The pages of the oldest frame are given back: the others are where they were.
LEMMA NsGivesBack ==
  ASSUME NsInStep, Ns!SetBound, NEW n, n = Len(queue')
  PROVE  /\ queue # <<>> /\ queue \in Seq(NsFrame) /\ queue' = Tail(queue)
         /\ queue' \in Seq(NsFrame) /\ n \in Nat /\ Len(queue) = n + 1
         /\ \A k \in 1 .. n : queue'[k] = queue[k + 1]
         /\ NsReach(1) = queue[1].len /\ NsReach(1) \in Nat \ {0}
         /\ NsReach(n + 1) < Ns!Size /\ NsReach(n + 1) \in Nat
         /\ \A k \in 0 .. n : /\ NsReach(k + 1) = NsReach(1) + NsReach(k)'
                              /\ NsReach(k)' \in Nat /\ NsReach(k)' <= NsReach(n)'
         /\ BOUND' \in Ns!Ring
         /\ \A b \in Nat : NsReach(1) + b < Ns!Size =>
              Ns!After(BOUND', 1 + b) = Ns!After(BOUND, 1 + (NsReach(1) + b))
<1>1. /\ pc = "bound" /\ BOUND' = Ns!Before(pkthdr.next) /\ queue' = Tail(queue)
      /\ pc' \in {"rsr", "poll"}
      /\ UNCHANGED <<page, CURR, frames, incoming, next, pkthdr>>
  BY DEF Ns!SetBound, Ns!Goto, Ns!adapter
<1>2. /\ queue # <<>> /\ pkthdr = NsHeader(1) /\ queue \in Seq(NsFrame) /\ BOUND \in Ns!Ring
  BY <1>1 DEF NsInStep, NsPlace, NsTypes
<1> DEFINE e == Ns!After(BOUND, 1 + NsReach(1))
<1>3. /\ queue' \in Seq(NsFrame) /\ n \in Nat /\ Len(queue) = n + 1
      /\ \A k \in 1 .. n : queue'[k] = queue[k + 1]
      /\ \A k \in 0 .. n : Ns!LengthTo(queue)[k + 1] = queue[1].len + Ns!LengthTo(queue')[k]
  BY <1>1, <1>2, LengthToTail, LengthToIs
<1>4. /\ NsReach(1) = queue[1].len /\ NsReach(1) \in Nat \ {0}
      /\ NsReach(1) <= NsReach(n + 1) /\ NsReach(n + 1) < Ns!Size /\ NsReach(n + 1) \in Nat
  BY <1>2, <1>3, NsOldest, NsDistances DEF NsInStep
<1>5. \A k \in 0 .. n : /\ NsReach(k + 1) = NsReach(1) + NsReach(k)'
                        /\ NsReach(k)' \in Nat /\ NsReach(k)' <= NsReach(n)'
  BY <1>3, <1>4, LengthToGrows DEF NsReach
<1>7. e \in Ns!Ring /\ BOUND' = Ns!Before(e) /\ BOUND' \in Ns!Ring /\ Ns!After(BOUND', 1) = e
  <2>1. pkthdr.next = e
    BY <1>2 DEF NsHeader
  <2>2. e \in Ns!Ring
    BY <1>2, <1>4, AfterIs, NsConstants
  <2> QED
    BY <1>1, <2>1, <2>2, BeforeIs
<1> HIDE DEF e
<1>8. ASSUME NEW b \in Nat, NsReach(1) + b < Ns!Size
      PROVE  Ns!After(BOUND', 1 + b) = Ns!After(BOUND, 1 + (NsReach(1) + b))
  <2>1. Ns!After(BOUND', 1 + b) = Ns!After(e, b)
    BY <1>4, <1>7, <1>8, AfterAfter, NsConstants
  <2>2. 1 + NsReach(1) \in Nat /\ (1 + NsReach(1)) + b <= Ns!Size /\ (1 + NsReach(1)) + b = 1 + (NsReach(1) + b)
    BY <1>4, <1>8, NsConstants
  <2>3. Ns!After(e, b) = Ns!After(BOUND, (1 + NsReach(1)) + b)
    BY <1>2, <2>2, AfterAfter DEF e
  <2> QED
    BY <2>1, <2>2, <2>3
<1>9. \A b \in Nat : NsReach(1) + b < Ns!Size =>
        Ns!After(BOUND', 1 + b) = Ns!After(BOUND, 1 + (NsReach(1) + b))
  BY <1>8
<1> QED
  BY <1>1, <1>2, <1>3, <1>4, <1>5, <1>7, <1>9

LEMMA NsBoundKeeps ==
  ASSUME NsInStep, Ns!SetBound
  PROVE  NsInStep'
<1>1. /\ pc' \in {"rsr", "poll"}
      /\ UNCHANGED <<page, CURR, frames, incoming, next, pkthdr>>
  BY DEF Ns!SetBound, Ns!Goto, Ns!adapter
<1> PICK n : n = Len(queue')
  OBVIOUS
<1>3. /\ queue' \in Seq(NsFrame) /\ n \in Nat /\ Len(queue) = n + 1
      /\ \A k \in 1 .. n : queue'[k] = queue[k + 1]
  BY NsGivesBack
<1>4. /\ NsReach(1) \in Nat \ {0} /\ NsReach(n + 1) < Ns!Size /\ NsReach(n + 1) \in Nat
  BY NsGivesBack
<1>5. \A k \in 0 .. n : /\ NsReach(k + 1) = NsReach(1) + NsReach(k)'
                        /\ NsReach(k)' \in Nat /\ NsReach(k)' <= NsReach(n)'
  BY NsGivesBack
<1>6. NsReach(n + 1) = NsReach(1) + NsReach(n)' /\ NsReach(n)' \in Nat
  BY <1>3, <1>5
<1>7. BOUND' \in Ns!Ring
  BY NsGivesBack
<1>8. ASSUME NEW b \in Nat, NsReach(1) + b < Ns!Size
      PROVE  Ns!After(BOUND', 1 + b) = Ns!After(BOUND, 1 + (NsReach(1) + b))
  BY <1>8, NsGivesBack
<1>9. NsTypes'
  BY <1>1, <1>3, <1>7 DEF NsInStep, NsTypes
<1>10. NsRoom'
  <2>1. NsReach(n + 1) + incoming.stored < Ns!Size /\ incoming.stored \in Nat
        /\ CURR = Ns!After(BOUND, 1 + NsReach(n + 1))
    BY <1>3 DEF NsInStep, NsRoom, NsTypes
  <2>2. NsReach(n)' + incoming.stored < Ns!Size
    BY <1>4, <1>6, <2>1, NsConstants
  <2>3. CURR = Ns!After(BOUND', 1 + NsReach(n)')
    BY <1>4, <1>6, <1>8, <2>1
  <2>4. NsReach(Len(queue))' = NsReach(n)'
    BY DEF NsReach
  <2> QED
    BY <1>1, <2>2, <2>3, <2>4 DEF NsRoom
<1>11. NsHeaders'
  <2> SUFFICES ASSUME NEW k \in 1 .. n
               PROVE  page[Ns!After(BOUND', 1 + NsReach(k - 1)')].hdr = NsHeader(k)'
    BY <1>1 DEF NsHeaders, NsAt
  <2>1. k \in 0 .. n /\ k - 1 \in 0 .. n /\ (k - 1) + 1 = k /\ k + 1 \in 1 .. n + 1 /\ (k + 1) - 1 = k
    BY <1>3
  <2>2. NsReach(k) = NsReach(1) + NsReach(k - 1)' /\ NsReach(k - 1)' \in Nat /\ NsReach(k - 1)' <= NsReach(n)'
    BY <1>5, <2>1
  <2>3. NsReach(k + 1) = NsReach(1) + NsReach(k)' /\ NsReach(k)' \in Nat /\ NsReach(k)' <= NsReach(n)'
    BY <1>5, <2>1
  <2>4. Ns!After(BOUND', 1 + NsReach(k - 1)') = Ns!After(BOUND, 1 + NsReach(k))
    BY <1>4, <1>6, <1>8, <2>2, NsConstants
  <2>5. Ns!After(BOUND', 1 + NsReach(k)') = Ns!After(BOUND, 1 + NsReach(k + 1))
    BY <1>4, <1>6, <1>8, <2>3, NsConstants
  <2>6. NsAt(1 + NsReach((k + 1) - 1)).hdr = NsHeader(k + 1)
    BY <1>3, <2>1 DEF NsInStep, NsHeaders
  <2>7. page[Ns!After(BOUND, 1 + NsReach(k))].hdr = NsHeader(k + 1)
    BY <2>1, <2>6 DEF NsAt
  <2>8. NsHeader(k + 1) = NsHeader(k)'
    BY <1>3, <2>5 DEF NsHeader
  <2> QED
    BY <2>4, <2>7, <2>8
<1>12. NsPlace'
  BY <1>1 DEF NsPlace
<1> QED
  BY <1>9, <1>10, <1>11, <1>12 DEF NsInStep

\* The ring is empty again.
LEMMA NsResetKeeps ==
  ASSUME NsTypes, frames' = frames, next' \in Ns!Ring, pkthdr' \in Ns!Header, page' \in [Ns!Ring -> Ns!Page],
         BOUND' = STOP_PG - 1, CURR' = RX_START, incoming' = Ns!NoFrame, queue' = <<>>, pc' = "poll"
  PROVE  NsInStep'
<1>1. /\ BOUND' \in Ns!Ring /\ CURR' \in Ns!Ring
      /\ queue' \in Seq(NsFrame)
      /\ Len(queue') = 0
  BY NsConstants DEF Ns!Ring
<1>2. NsTypes'
  BY <1>1, NsConstants DEF NsTypes, Ns!NoFrame
<1>3. NsReach(0)' = 0
  BY <1>1, LengthToGrows DEF NsReach
<1>4. Ns!After(BOUND', 1) = RX_START
  <2>1. 1 \in 0 .. Ns!Size
    BY NsConstants
  <2> QED
    BY <1>1, <2>1, AfterIs, NsConstants
<1>5. NsRoom'
  <2>1. NsReach(Len(queue))' = NsReach(0)' /\ 1 + 0 = 1 /\ incoming'.stored = 0
    BY <1>1 DEF NsReach, Ns!NoFrame
  <2> QED
    BY <1>3, <1>4, <2>1, NsConstants DEF NsRoom
<1>6. NsHeaders'
  BY <1>1 DEF NsHeaders
<1>7. NsPlace'
  BY DEF NsPlace
<1> QED
  BY <1>2, <1>5, <1>6, <1>7 DEF NsInStep

LEMMA NsStarts ==
  ASSUME Ns!Init
  PROVE  NsInStep
<1>1. /\ BOUND = STOP_PG - 1 /\ CURR = RX_START /\ incoming = Ns!NoFrame /\ queue = <<>>
      /\ pc = "poll" /\ frames \in 0 .. NsFrames
      /\ BOUND \in Ns!Ring /\ CURR \in Ns!Ring /\ queue \in Seq(NsFrame) /\ Len(queue) = 0
  BY NsConstants DEF Ns!Init, Ns!Ring
<1>2. RX_START \in Ns!Ring
  BY NsConstants DEF Ns!Ring
<1>3. next \in Ns!Ring /\ pkthdr \in Ns!Header /\ page \in [Ns!Ring -> Ns!Page]
  <2>1. Ns!NoHeader \in Ns!Header
    BY <1>2 DEF Ns!NoHeader, Ns!Header
  <2> QED
    BY <1>2, <2>1, NsConstants DEF Ns!Init, Ns!Page
<1>4. NsTypes
  BY <1>1, <1>3, NsConstants DEF NsTypes, Ns!NoFrame
<1>5. NsReach(0) = 0
  BY <1>1, LengthToGrows DEF NsReach
<1>6. Ns!After(BOUND, 1) = RX_START
  <2>1. 1 \in 0 .. Ns!Size
    BY NsConstants
  <2> QED
    BY <1>1, <2>1, AfterIs, NsConstants
<1>7. NsRoom
  <2>1. NsReach(Len(queue)) = NsReach(0) /\ 1 + 0 = 1 /\ incoming.stored = 0
    BY <1>1 DEF Ns!NoFrame
  <2> QED
    BY <1>1, <1>5, <1>6, <2>1, NsConstants DEF NsRoom
<1> QED
  BY <1>1, <1>4, <1>7 DEF NsInStep, NsHeaders, NsPlace

LEMMA NsStaysInStep ==
  ASSUME NsInStep, Ns!Next
  PROVE  NsInStep'
<1>1. CASE Ns!FrameComes
  <2>1. /\ UNCHANGED <<page, CURR, BOUND, pc, next, pkthdr, queue>> /\ incoming = Ns!NoFrame
        /\ frames < NsFrames /\ frames' = frames + 1
        /\ \E n \in Lens : incoming' = [id |-> frames + 1, len |-> n, stored |-> 0]
    BY <1>1 DEF Ns!FrameComes
  <2>2. NsTypes'
    BY <2>1, NsConstants DEF NsInStep, NsTypes, Ns!NoFrame
  <2>3. NsReach(Len(queue))' = NsReach(Len(queue)) /\ incoming'.stored = 0 /\ incoming.stored = 0
    BY <2>1 DEF NsReach, Ns!NoFrame
  <2>4. NsRoom'
    BY <2>1, <2>3 DEF NsInStep, NsRoom
  <2> QED
    BY <2>1, <2>2, <2>4 DEF NsInStep, NsHeaders, NsHeader, NsAt, NsReach, NsPlace
<1>2. CASE Ns!PageStored \/ Ns!FrameEnds
  BY <1>2, NsPageKeeps, NsEndKeeps
<1>3. CASE Ns!Driver
  BY <1>3, NsReadKeeps, NsBoundKeeps DEF Ns!Driver
<1>4. CASE Ns!Reset
  BY <1>4, NsResetKeeps DEF Ns!Reset, NsInStep, NsTypes
<1> QED
  BY <1>1, <1>2, <1>3, <1>4 DEF Ns!Next, Ns!Adapter

\* The adapter and the driver of the 8390 never disagree on what is in the ring, however
\* it wraps, fills and is cleared.
THEOREM RingIsAgreed == Spec => []RingAgrees
<1> DEFINE Inv == driver = "ns8390" => NsInStep
<1>1. Init => Inv
  BY NsStarts DEF Init
<1>2. Inv /\ [Next]_vars => Inv'
  <2>1. CASE UNCHANGED vars
    BY <2>1 DEF vars, nsVars, NsInStep, NsTypes, NsRoom, NsHeaders, NsHeader, NsAt, NsReach, NsPlace
  <2>2. CASE Next
    BY <2>2, NsStaysInStep DEF Next, OnlySmc, OnlyCs, OnlyNs, OnlyPcnet, Only
  <2> QED
    BY <2>1, <2>2
<1>3. Inv => RingAgrees
  <2> SUFFICES ASSUME NsInStep
               PROVE  LET length == Ns!LengthTo(queue)[Len(queue)]
                      IN length < Ns!Size /\ CURR = Ns!After(BOUND, 1 + length)
    BY DEF RingAgrees, Ns!RingAgrees
  <2>1. NsReach(Len(queue)) \in Nat
    BY NsDistances DEF NsInStep
  <2>2. NsReach(Len(queue)) < Ns!Size
    BY <2>1, NsConstants DEF NsInStep, NsRoom, NsTypes
  <2> QED
    BY <2>2 DEF NsInStep, NsRoom, NsReach
<1> QED
  BY <1>1, <1>2, <1>3, PTL DEF Spec

----------------------------------------------------------------------------
(* The rings of the PCNET32 *)

LEMMA Remainder ==
  ASSUME NEW S \in Nat \ {0}, NEW x \in Nat
  PROVE  /\ (x % S) \in 0 .. S - 1
         /\ \E q \in Nat : x = S * q + (x % S)
<1>1. (x % S) = x - S * (x \div S)
  OBVIOUS
<1>2. x \div S \in Int /\ (x % S) \in 0 .. S - 1
  OBVIOUS
<1>3. PICK q \in Int, r \in 0 .. S - 1 : r = (x % S) /\ r = x - S * q
  BY <1>1, <1>2
<1>4. S * q \in Int
  OBVIOUS
<1>5. x = S * q + r
  BY <1>3, <1>4
<1>6. q \in Nat
  BY <1>5
<1>7. x = S * q + (x % S)
  BY <1>3, <1>5, Zenon
<1> QED
  BY <1>2, <1>6, <1>7, Zenon

LEMMA RemainderOnly ==
  ASSUME NEW S \in Nat \ {0}, NEW q \in Int, NEW r \in 0 .. S - 1
  PROVE  (S * q + r) % S = r
OBVIOUS

\* The next descriptor, and the first after the last.
LEMMA RemainderOfNext ==
  ASSUME NEW S \in Nat \ {0}, NEW x \in Nat
  PROVE  (x + 1) % S = IF (x % S) = S - 1 THEN 0 ELSE (x % S) + 1
<1>1. PICK q \in Nat, r \in 0 .. S - 1 : r = (x % S) /\ x = S * q + r
  BY Remainder
<1>2. CASE r = S - 1
  <2>1. x + 1 = S * (q + 1) + 0
    BY <1>1, <1>2
  <2>2. (S * (q + 1) + 0) % S = 0
    BY RemainderOnly
  <2> QED
    BY <2>1, <2>2, <1>1, <1>2
<1>3. CASE r # S - 1
  <2>1. x + 1 = S * q + (r + 1)
    BY <1>1
  <2>2. r + 1 \in 0 .. S - 1
    BY <1>3
  <2>3. (S * q + (r + 1)) % S = r + 1
    BY <2>2, RemainderOnly
  <2> QED
    BY <2>1, <2>3, <1>1, <1>3
<1> QED
  BY <1>2, <1>3

\* A counter that wraps after whole rounds does not jump in the ring.
WholeRounds(W, S) == W % S = 0

LEMMA NextInRing ==
  ASSUME NEW S \in Nat \ {0}, NEW W \in Nat \ {0}, WholeRounds(W, S), NEW c \in 0 .. W - 1
  PROVE  /\ (c % S) \in 0 .. S - 1
         /\ ((c + 1) % W) \in 0 .. W - 1
         /\ ((c + 1) % W) % S = IF (c % S) = S - 1 THEN 0 ELSE (c % S) + 1
<1>0. c \in Nat
  OBVIOUS
<1>1. (c % S) \in 0 .. S - 1
  BY <1>0, Remainder
<1>2. (c + 1) % S = IF (c % S) = S - 1 THEN 0 ELSE (c % S) + 1
  BY <1>0, RemainderOfNext
<1>3. CASE c + 1 < W
  <2>1. (c + 1) % W = c + 1
    BY <1>3
  <2>2. c + 1 \in 0 .. W - 1
    BY <1>3
  <2> QED
    BY <1>1, <1>2, <2>1, <2>2, Zenon
<1>4. CASE c + 1 = W
  <2>1. (c + 1) % W = 0
    BY <1>4
  <2>2. 0 % S = 0
    OBVIOUS
  <2>3. (c + 1) % S = 0
    BY <1>4 DEF WholeRounds
  <2>4. (c % S) = S - 1
    <3> DEFINE r == c % S
    <3>1. 0 = (IF r = S - 1 THEN 0 ELSE r + 1) /\ r \in 0 .. S - 1
      BY <1>1, <1>2, <2>3, Zenon
    <3> HIDE DEF r
    <3>2. r = S - 1
      BY <3>1
    <3> QED
      BY <3>2 DEF r
  <2>5. 0 \in 0 .. W - 1
    OBVIOUS
  <2> QED
    BY <1>1, <2>1, <2>2, <2>4, <2>5, Zenon
<1> QED
  BY <1>3, <1>4

\* The descriptor passed last is the one before the next.
LEMMA LastInRing ==
  ASSUME NEW S \in Nat \ {0}, NEW W \in Nat \ {0}, WholeRounds(W, S), NEW c \in 0 .. W - 1
  PROVE  (c + W - 1) % S = IF (c % S) = 0 THEN S - 1 ELSE (c % S) - 1
<1>0. c \in Nat
  OBVIOUS
<1>1. PICK q \in Nat, r \in 0 .. S - 1 : r = (c % S) /\ c = S * q + r
  BY <1>0, Remainder
<1>2. PICK p \in Nat : W = S * p + (W % S)
  BY Remainder
<1>3. W = S * p
  BY <1>2 DEF WholeRounds
<1>4. CASE r = 0
  <2>1. c + W - 1 = S * (q + p - 1) + (S - 1)
    BY <1>1, <1>3, <1>4
  <2>2. (S * (q + p - 1) + (S - 1)) % S = S - 1
    BY RemainderOnly
  <2> QED
    BY <1>1, <1>4, <2>1, <2>2
<1>5. CASE r # 0
  <2>1. c + W - 1 = S * (q + p) + (r - 1)
    BY <1>1, <1>3
  <2>2. r - 1 \in 0 .. S - 1
    BY <1>5
  <2>3. (S * (q + p) + (r - 1)) % S = r - 1
    BY <2>2, RemainderOnly
  <2> QED
    BY <1>1, <1>5, <2>1, <2>3
<1> QED
  BY <1>4, <1>5

\* So many descriptors on.
LEMMA SlotIs ==
  ASSUME NEW S \in Nat \ {0}, NEW e \in 0 .. S - 1, NEW k \in 0 .. S
  PROVE  /\ (e + k) % S = IF e + k < S THEN e + k ELSE e + k - S
         /\ (e + k) % S \in 0 .. S - 1
OBVIOUS

LEMMA PcConstants ==
  /\ RX_RING_SIZE \in Nat \ {0} /\ TX_RING_SIZE \in Nat \ {0} /\ WRAP \in Nat \ {0}
  /\ WholeRounds(WRAP, RX_RING_SIZE) /\ WholeRounds(WRAP, TX_RING_SIZE) /\ PcnetFrames \in Nat
  BY EthernetConstantsOK DEF Pcnet!DescriptorConstantsOK, WholeRounds

LEMMA SlotsDiffer ==
  ASSUME NEW S \in Nat \ {0}, NEW e \in 0 .. S - 1, NEW j \in 0 .. S - 1, NEW k \in 0 .. S - 1, j # k
  PROVE  (e + j) % S # (e + k) % S
<1>1. /\ (e + j) % S = IF e + j < S THEN e + j ELSE e + j - S
      /\ (e + k) % S = IF e + k < S THEN e + k ELSE e + k - S
  <2>1. j \in 0 .. S /\ k \in 0 .. S
    OBVIOUS
  <2> QED
    BY <2>1, SlotIs
<1> QED
  BY <1>1

LEMMA SlotFromNext ==
  ASSUME NEW S \in Nat \ {0}, NEW e \in 0 .. S - 1, NEW f, f = (IF e = S - 1 THEN 0 ELSE e + 1),
         NEW k \in 0 .. S - 1
  PROVE  f \in 0 .. S - 1 /\ (f + k) % S = (e + (k + 1)) % S
<1>1. f \in 0 .. S - 1 /\ k \in 0 .. S /\ k + 1 \in 0 .. S
  OBVIOUS
<1>2. /\ (e + (k + 1)) % S = IF e + (k + 1) < S THEN e + (k + 1) ELSE e + (k + 1) - S
      /\ (f + k) % S = IF f + k < S THEN f + k ELSE f + k - S
  BY <1>1, SlotIs
<1> QED
  BY <1>1, <1>2

\* The good frames are counted.
Counted(ring, e) ==
  [k \in 1 .. RX_RING_SIZE |-> IF ring[(e + k - 1) % RX_RING_SIZE].kind = "good" THEN 1 ELSE 0]

LEMMA GoodIs ==
  ASSUME NEW ring, NEW e
  PROVE  /\ IsSum(Pcnet!GoodFrom(ring, e), RX_RING_SIZE, Counted(ring, e))
         /\ \A k \in 1 .. RX_RING_SIZE : Counted(ring, e)[k] \in Nat
<1> DEFINE w == Counted(ring, e)
<1>1. RX_RING_SIZE \in Nat
  BY PcConstants
<1>2. \A k \in 0 .. RX_RING_SIZE :
        k # 0 => w[k] = IF ring[(e + k - 1) % RX_RING_SIZE].kind = "good" THEN 1 ELSE 0
  BY <1>1 DEF Counted
<1> HIDE DEF w
<1>3. PICK f : IsSum(f, RX_RING_SIZE, w)
  BY <1>1, SumExists
<1>4. f = [k \in 0 .. RX_RING_SIZE |-> IF k = 0 THEN 0 ELSE f[k - 1] + w[k]]
  BY <1>3 DEF IsSum
<1>5. f = [k \in 0 .. RX_RING_SIZE |->
             IF k = 0 THEN 0
             ELSE f[k - 1] + (IF ring[(e + k - 1) % RX_RING_SIZE].kind = "good" THEN 1 ELSE 0)]
  BY <1>2, <1>4, Zenon
<1> DEFINE g == Pcnet!GoodFrom(ring, e)
<1>6. g = [k \in 0 .. RX_RING_SIZE |->
             IF k = 0 THEN 0
             ELSE g[k - 1] + (IF ring[(e + k - 1) % RX_RING_SIZE].kind = "good" THEN 1 ELSE 0)]
  BY <1>5, Zenon DEF Pcnet!GoodFrom
<1> HIDE DEF g
<1>7. g = [k \in 0 .. RX_RING_SIZE |-> IF k = 0 THEN 0 ELSE g[k - 1] + w[k]]
  BY <1>2, <1>6, Zenon
<1>8. IsSum(g, RX_RING_SIZE, w)
  BY <1>7 DEF IsSum
<1>9. \A k \in 1 .. RX_RING_SIZE : w[k] \in Nat
  BY DEF w, Counted
<1> QED
  BY <1>8, <1>9 DEF g, w

LEMMA GoodNext ==
  ASSUME NEW ring, NEW e \in 0 .. RX_RING_SIZE - 1
  PROVE  LET good == Pcnet!GoodFrom(ring, e)
             at(k) == ring[(e + k) % RX_RING_SIZE]
         IN /\ good[0] = 0 /\ \A k \in 0 .. RX_RING_SIZE : good[k] \in Nat
            /\ \A k \in 0 .. RX_RING_SIZE - 1 :
                 good[k + 1] = good[k] + (IF at(k).kind = "good" THEN 1 ELSE 0)
<1> DEFINE g == Pcnet!GoodFrom(ring, e)
           w == Counted(ring, e)
           S == RX_RING_SIZE
<1>1. IsSum(g, S, w) /\ S \in Nat \ {0} /\ \A k \in 1 .. S : w[k] \in Nat
  BY GoodIs, PcConstants
<1>2. ASSUME NEW k \in 0 .. S - 1
      PROVE  w[k + 1] = IF ring[(e + k) % S].kind = "good" THEN 1 ELSE 0
  <2>1. k + 1 \in 1 .. S /\ e + (k + 1) - 1 = e + k
    BY <1>1
  <2> QED
    BY <2>1 DEF Counted
<1> HIDE DEF g, w, S
<1>3. \A k \in 0 .. S : g[k] \in Nat
  BY <1>1, SumGrows
<1>4. ASSUME NEW k \in 0 .. S - 1
      PROVE  g[k + 1] = g[k] + w[k + 1]
  <2>1. k + 1 \in 0 .. S /\ k + 1 # 0 /\ (k + 1) - 1 = k
    BY <1>1
  <2> QED
    BY <1>1, <2>1 DEF IsSum
<1>5. g[0] = 0
  BY <1>1 DEF IsSum
<1> QED
  BY <1>2, <1>3, <1>4, <1>5 DEF g, S

\* Only the kinds of the first descriptors count.
SameKinds(ring, ring2, e, m) ==
  \A k \in 0 .. m - 1 : ring[(e + k) % RX_RING_SIZE].kind = ring2[(e + k) % RX_RING_SIZE].kind

LEMMA GoodSame ==
  ASSUME NEW ring, NEW ring2, NEW e \in 0 .. RX_RING_SIZE - 1, NEW m \in 0 .. RX_RING_SIZE,
         SameKinds(ring, ring2, e, m)
  PROVE  \A k \in 0 .. m : Pcnet!GoodFrom(ring, e)[k] = Pcnet!GoodFrom(ring2, e)[k]
<1> DEFINE g == Pcnet!GoodFrom(ring, e)
           w == Counted(ring, e)
           g2 == Pcnet!GoodFrom(ring2, e)
           w2 == Counted(ring2, e)
           S == RX_RING_SIZE
           v == [k \in 1 .. m |-> w[k]]
<1>1. /\ IsSum(g, S, w) /\ \A k \in 1 .. S : w[k] \in Nat
      /\ IsSum(g2, S, w2) /\ \A k \in 1 .. S : w2[k] \in Nat
      /\ S \in Nat \ {0} /\ m \in Nat /\ m <= S
  BY GoodIs, PcConstants
<1>2. ASSUME NEW k \in 1 .. m PROVE v[k] = w[k] /\ v[k] = w2[k]
  <2>1. k - 1 \in 0 .. m - 1 /\ e + (k - 1) = e + k - 1 /\ k \in 1 .. S
    BY <1>1
  <2>2. ring[(e + k - 1) % S].kind = ring2[(e + k - 1) % S].kind
    BY <2>1 DEF SameKinds
  <2> QED
    BY <2>1, <2>2 DEF Counted
<1> HIDE DEF g, w, g2, w2, S, v
<1>3. PICK f : IsSum(f, m, v)
  BY <1>1, SumExists
<1>4. \A k \in 0 .. m : g[k] = f[k]
  BY <1>1, <1>2, <1>3, SumSame
<1>5. \A k \in 0 .. m : g2[k] = f[k]
  BY <1>1, <1>2, <1>3, SumSame
<1> QED
  BY <1>4, <1>5 DEF g, g2

\* The first descriptor goes.
LEMMA GoodShift ==
  ASSUME NEW ring, NEW ring2, NEW e \in 0 .. RX_RING_SIZE - 1, NEW e2,
         e2 = (IF e = RX_RING_SIZE - 1 THEN 0 ELSE e + 1),
         \A j \in 0 .. RX_RING_SIZE - 1 : ring2[j].kind = ring[j].kind
  PROVE  \A k \in 0 .. RX_RING_SIZE - 1 :
           Pcnet!GoodFrom(ring, e)[k + 1] =
             Pcnet!GoodFrom(ring, e)[1] + Pcnet!GoodFrom(ring2, e2)[k]
<1> DEFINE g == Pcnet!GoodFrom(ring, e)
           w == Counted(ring, e)
           g2 == Pcnet!GoodFrom(ring2, e2)
           w2 == Counted(ring2, e2)
           S == RX_RING_SIZE
           n == S - 1
           v == [k \in 1 .. n |-> w2[k]]
<1>1. /\ IsSum(g, S, w) /\ \A k \in 1 .. S : w[k] \in Nat
      /\ IsSum(g2, S, w2) /\ \A k \in 1 .. S : w2[k] \in Nat
      /\ S \in Nat /\ n \in Nat /\ n + 1 <= S /\ n <= S /\ 1 \in Nat
  BY GoodIs, PcConstants
<1>2. ASSUME NEW k \in 1 .. n PROVE v[k] = w2[k] /\ v[k] = w[k + 1]
  <2>1. /\ k \in 1 .. S /\ k + 1 \in 1 .. S /\ k - 1 \in 0 .. S - 1 /\ (k - 1) + 1 = k
        /\ e2 + (k - 1) = e2 + k - 1 /\ e + (k + 1) - 1 = e + k
    BY <1>1, PcConstants, SlotFromNext
  <2>2. (e2 + (k - 1)) % S = (e + ((k - 1) + 1)) % S
    BY <2>1, PcConstants, SlotFromNext
  <2>3. (e + k) % S \in 0 .. S - 1
    BY <2>1, PcConstants, SlotIs
  <2>4. (e2 + k - 1) % S = (e + (k + 1) - 1) % S
    BY <2>1, <2>2
  <2>5. ring2[(e2 + k - 1) % S].kind = ring[(e + (k + 1) - 1) % S].kind
    BY <2>1, <2>3, <2>4
  <2> QED
    BY <2>1, <2>5 DEF Counted
<1> HIDE DEF g, w, g2, w2, S, n, v
<1>3. PICK f : IsSum(f, n, v)
  BY <1>1, SumExists
<1>4. \A k \in 0 .. n : g2[k] = f[k]
  BY <1>1, <1>2, <1>3, SumSame
<1>5. \A k \in 0 .. n : g[k + 1] = g[1] + f[k]
  <2>1. IsSum(g, S, w) /\ (\A k \in 1 .. S : w[k] \in Nat) /\ \A k \in 1 .. n : v[k] = w[k + 1]
    BY <1>1, <1>2
  <2>2. S \in Nat /\ n \in Nat /\ 1 \in Nat /\ n + 1 <= S
    BY <1>1
  <2>3. \A k \in 0 .. n : g[k + 1] = g[1] + f[k] /\ f[k] \in Nat /\ g[1] \in Nat
    BY <1>3, <2>1, <2>2, SumFrom, Zenon
  <2> QED
    BY <2>3
<1> QED
  BY <1>4, <1>5 DEF g, g2, n, S

LEMMA GoodGrows ==
  ASSUME NEW ring, NEW e \in 0 .. RX_RING_SIZE - 1, NEW k \in 0 .. RX_RING_SIZE,
         NEW m \in 0 .. RX_RING_SIZE, k <= m
  PROVE  Pcnet!GoodFrom(ring, e)[k] <= Pcnet!GoodFrom(ring, e)[m]
<1> DEFINE g == Pcnet!GoodFrom(ring, e)
           w == Counted(ring, e)
           v == [j \in 1 .. m |-> w[j]]
<1>1. /\ IsSum(g, RX_RING_SIZE, w) /\ \A j \in 1 .. RX_RING_SIZE : w[j] \in Nat
      /\ RX_RING_SIZE \in Nat /\ m \in Nat /\ m <= RX_RING_SIZE /\ k \in 0 .. m /\ m \in 0 .. m
  BY GoodIs, PcConstants
<1>2. \A j \in 1 .. m : v[j] = w[j] /\ v[j] \in Nat
  BY <1>1
<1> HIDE DEF g, w, v
<1>3. PICK f : IsSum(f, m, v)
  BY <1>1, SumExists
<1>4. \A j \in 0 .. m : g[j] = f[j]
  BY <1>1, <1>2, <1>3, SumSame
<1>5. f[k] <= f[m]
  BY <1>1, <1>2, <1>3, SumGrows
<1> QED
  BY <1>1, <1>4, <1>5 DEF g

RxDescriptor == [own : BOOLEAN, frame : Pcnet!Frame, kind : Pcnet!Kind]

RxTypes ==
  /\ rx_ring \in [Pcnet!RxSlot -> RxDescriptor] /\ chipRx \in Pcnet!RxSlot
  /\ cur_rx \in 0 .. WRAP - 1
  /\ arrived \in Seq(Pcnet!Frame) /\ rxFrames \in Pcnet!Frame

RxAt(k) == rx_ring[(Pcnet!RxEntry + k) % RX_RING_SIZE]
RxGood == Pcnet!GoodFrom(rx_ring, Pcnet!RxEntry)

\* The driver has m descriptors, from its own on, and the chip the rest.
RxHeld(m) ==
  /\ chipRx = (Pcnet!RxEntry + m) % RX_RING_SIZE
  /\ \A k \in 0 .. RX_RING_SIZE - 1 : RxAt(k).own = (k >= m)
  /\ Len(arrived) = RxGood[m]
  /\ \A k \in 0 .. m - 1 : RxAt(k).kind = "good" => arrived[RxGood[k] + 1] = RxAt(k).frame

RxFollows == RxTypes /\ \E m \in 0 .. RX_RING_SIZE : RxHeld(m)

LEMMA RxEntryIs ==
  ASSUME RxTypes
  PROVE  /\ Pcnet!RxEntry \in 0 .. RX_RING_SIZE - 1
         /\ \A k \in 0 .. RX_RING_SIZE - 1 : RxAt(k) \in RxDescriptor
<1>1. Pcnet!RxEntry \in 0 .. RX_RING_SIZE - 1
  BY NextInRing, PcConstants DEF RxTypes, Pcnet!RxEntry
<1>2. ASSUME NEW k \in 0 .. RX_RING_SIZE - 1
      PROVE  (Pcnet!RxEntry + k) % RX_RING_SIZE \in 0 .. RX_RING_SIZE - 1
  <2>1. k \in 0 .. RX_RING_SIZE
    BY PcConstants
  <2> QED
    BY <1>1, <2>1, SlotIs, PcConstants
<1> QED
  BY <1>1, <1>2 DEF RxTypes, RxAt, Pcnet!RxSlot

\* A frame comes, in the descriptor after those the driver has.
LEMMA RxComes ==
  ASSUME RxFollows, Pcnet!ChipReceives
  PROVE  RxFollows'
<1> PICK m \in 0 .. RX_RING_SIZE : RxHeld(m)
  BY DEF RxFollows
<1> PICK e \in 0 .. RX_RING_SIZE - 1 : e = Pcnet!RxEntry
  BY RxEntryIs DEF RxFollows
<1> PICK S \in Nat \ {0} : S = RX_RING_SIZE
  BY PcConstants
<1> DEFINE at(k) == (e + k) % S
           g == Pcnet!GoodFrom(rx_ring, e)
           g2 == Pcnet!GoodFrom(rx_ring', e)
<1>1. PICK kind \in Pcnet!Kind :
        /\ rx_ring' = [rx_ring EXCEPT ![chipRx] = [own |-> FALSE, frame |-> rxFrames', kind |-> kind]]
        /\ arrived' = IF kind = "good" THEN Append(arrived, rxFrames') ELSE arrived
  BY DEF Pcnet!ChipReceives
<1>2. /\ rxFrames' = rxFrames + 1 /\ rxFrames < PcnetFrames /\ rx_ring[chipRx].own
      /\ chipRx' = (chipRx + 1) % S /\ cur_rx' = cur_rx
  BY DEF Pcnet!ChipReceives, Pcnet!rxVars
<1>3. /\ chipRx = at(m)
      /\ \A k \in 0 .. S - 1 : rx_ring[at(k)].own = (k >= m)
      /\ Len(arrived) = g[m]
      /\ \A k \in 0 .. m - 1 : rx_ring[at(k)].kind = "good" => arrived[g[k] + 1] = rx_ring[at(k)].frame
  BY DEF RxHeld, RxAt, RxGood
<1>4. m \in 0 .. S - 1
  <2>1. SUFFICES ASSUME m = S PROVE FALSE
    OBVIOUS
  <2>2. at(m) = at(0)
    <3>1. 0 \in 0 .. S /\ S \in 0 .. S
      OBVIOUS
    <3>2. /\ at(S) = IF e + S < S THEN e + S ELSE e + S - S
          /\ at(0) = IF e + 0 < S THEN e + 0 ELSE e + 0 - S
      BY <3>1, SlotIs
    <3> HIDE DEF at
    <3>3. at(S) = e /\ at(0) = e
      BY <3>2
    <3> QED
      BY <2>1, <3>3
  <2>3. 0 \in 0 .. S - 1 /\ ~(0 >= m)
    BY <2>1
  <2> QED
    BY <1>2, <1>3, <2>2, <2>3
<1>5. \A k \in 0 .. S - 1 : at(k) \in 0 .. S - 1
  <2> TAKE k \in 0 .. S - 1
  <2>1. k \in 0 .. S
    OBVIOUS
  <2> QED
    BY <2>1, SlotIs
<1>6. chipRx \in 0 .. S - 1 /\ \A k \in 0 .. S - 1 : k # m => at(k) # chipRx
  <2>1. ASSUME NEW k \in 0 .. S - 1, k # m PROVE at(k) # at(m)
    BY <1>4, <2>1, SlotsDiffer
  <2> QED
    BY <1>3, <1>4, <1>5, <2>1
<1> HIDE DEF at
<1>7. /\ rx_ring \in [0 .. S - 1 -> RxDescriptor] /\ arrived \in Seq(Pcnet!Frame)
      /\ rxFrames' \in Pcnet!Frame
  BY <1>2, PcConstants DEF RxFollows, RxTypes, Pcnet!RxSlot, Pcnet!Frame
<1>8. /\ rx_ring' \in [0 .. S - 1 -> RxDescriptor]
      /\ rx_ring'[chipRx] = [own |-> FALSE, frame |-> rxFrames', kind |-> kind]
      /\ \A j \in 0 .. S - 1 : j # chipRx => rx_ring'[j] = rx_ring[j]
  BY <1>1, <1>6, <1>7 DEF RxDescriptor
<1>9. \A k \in 0 .. S - 1 : k # m => rx_ring'[at(k)] = rx_ring[at(k)]
  BY <1>5, <1>6, <1>8
<1>10. \A k \in 0 .. m : g2[k] = g[k]
  <2>1. \A k \in 0 .. m - 1 : rx_ring[at(k)].kind = rx_ring'[at(k)].kind
    BY <1>4, <1>9
  <2>2. SameKinds(rx_ring, rx_ring', e, m)
    BY <2>1 DEF at, SameKinds
  <2>3. \A k \in 0 .. m : g[k] = g2[k]
    BY <2>2, GoodSame
  <2> QED
    BY <2>3
<1>11. /\ g2[m + 1] = g2[m] + (IF kind = "good" THEN 1 ELSE 0)
       /\ \A k \in 0 .. S : g[k] \in Nat
  <2>1. g2[m + 1] = g2[m] + (IF rx_ring'[at(m)].kind = "good" THEN 1 ELSE 0)
    BY <1>4, GoodNext DEF at
  <2>2. rx_ring'[at(m)].kind = kind
    BY <1>3, <1>8
  <2>3. \A k \in 0 .. S : g[k] \in Nat
    BY GoodNext
  <2> QED
    BY <2>1, <2>2, <2>3
<1> HIDE DEF g, g2
<1>12. /\ arrived' \in Seq(Pcnet!Frame)
       /\ Len(arrived') = g2[m + 1]
       /\ \A j \in 1 .. Len(arrived) : arrived'[j] = arrived[j]
       /\ kind = "good" => arrived'[g2[m] + 1] = rxFrames'
  <2>1. Len(arrived) \in Nat
    BY <1>7, LenProperties
  <2>2. CASE kind = "good"
    <3>1. arrived' = Append(arrived, rxFrames')
      BY <1>1, <2>2
    <3>2. /\ arrived' \in Seq(Pcnet!Frame) /\ Len(arrived') = Len(arrived) + 1
          /\ arrived'[Len(arrived) + 1] = rxFrames'
          /\ \A j \in 1 .. Len(arrived) : arrived'[j] = arrived[j]
      BY <1>7, <3>1, AppendProperties
    <3>3. g2[m] = Len(arrived)
      BY <1>3, <1>10
    <3> QED
      BY <1>11, <2>1, <2>2, <3>2, <3>3
  <2>3. CASE kind # "good"
    BY <1>1, <1>3, <1>7, <1>10, <1>11, <2>1, <2>3
  <2> QED
    BY <2>2, <2>3
<1>13. ASSUME NEW k \in 0 .. m, rx_ring'[at(k)].kind = "good"
       PROVE  arrived'[g2[k] + 1] = rx_ring'[at(k)].frame
  <2>1. CASE k = m
    BY <1>3, <1>8, <1>12, <1>13, <2>1
  <2>2. CASE k # m
    <3>1. k \in 0 .. m - 1 /\ rx_ring'[at(k)] = rx_ring[at(k)] /\ g2[k] = g[k]
      BY <1>4, <1>9, <1>10, <2>2
    <3>2. arrived[g[k] + 1] = rx_ring[at(k)].frame /\ rx_ring[at(k)].kind = "good"
      BY <1>3, <1>13, <3>1
    <3>3. g[k] + 1 \in 1 .. Len(arrived)
      <4>1. g[k + 1] = g[k] + 1
        BY <1>4, <3>1, <3>2, GoodNext DEF at, g
      <4>2. g[k + 1] <= g[m]
        <5>1. k + 1 \in 0 .. S /\ m \in 0 .. S /\ k + 1 <= m
          BY <1>4, <3>1
        <5> QED
          BY <5>1, GoodGrows DEF g
      <4> QED
        BY <1>3, <1>4, <1>11, <3>1, <4>1, <4>2
    <3> QED
      BY <1>12, <3>1, <3>2, <3>3
  <2> QED
    BY <2>1, <2>2
<1>14. ASSUME NEW k \in 0 .. S - 1
       PROVE  rx_ring'[at(k)].own = (k >= m + 1)
  <2>1. CASE k = m
    <3>1. rx_ring'[at(k)].own = FALSE
      BY <1>3, <1>8, <2>1
    <3>2. (k >= m + 1) = FALSE
      BY <1>4, <2>1
    <3> QED
      BY <3>1, <3>2, Zenon
  <2>2. CASE k # m
    <3>1. rx_ring'[at(k)].own = (k >= m)
      BY <1>3, <1>9, <2>2
    <3>2. (k >= m) = (k >= m + 1)
      BY <1>4, <2>2
    <3> QED
      BY <3>1, <3>2
  <2> QED
    BY <2>1, <2>2
<1>15. chipRx' = (e + (m + 1)) % S /\ chipRx' \in 0 .. S - 1
  <2>1. m \in 0 .. S /\ m + 1 \in 0 .. S /\ 1 \in 0 .. S
    BY <1>4
  <2>2. chipRx' = (chipRx + 1) % S
    BY <1>2
  <2>3. /\ (chipRx + 1) % S = IF chipRx + 1 < S THEN chipRx + 1 ELSE chipRx + 1 - S
        /\ (chipRx + 1) % S \in 0 .. S - 1
    BY <1>6, <2>1, SlotIs
  <2>4. chipRx = IF e + m < S THEN e + m ELSE e + m - S
    BY <1>3, <2>1, SlotIs DEF at
  <2>5. (e + (m + 1)) % S = IF e + (m + 1) < S THEN e + (m + 1) ELSE e + (m + 1) - S
    BY <2>1, SlotIs
  <2> QED
    BY <1>4, <2>2, <2>3, <2>4, <2>5
<1>16. Pcnet!RxEntry' = e
  BY <1>2 DEF Pcnet!RxEntry
<1>17. RxTypes'
  BY <1>2, <1>7, <1>8, <1>12, <1>15 DEF RxFollows, RxTypes, Pcnet!RxSlot
<1>18. RxHeld(m + 1)'
  <2>1. (m + 1) - 1 = m
    BY <1>4
  <2> QED
    BY <1>12, <1>13, <1>14, <1>15, <1>16, <2>1 DEF RxHeld, RxAt, RxGood, at, g2
<1>19. m + 1 \in 0 .. RX_RING_SIZE
  BY <1>4
<1> QED
  BY <1>17, <1>18, <1>19 DEF RxFollows

LEMMA RxUnmoved ==
  ASSUME RxFollows, UNCHANGED <<rx_ring, cur_rx, chipRx, arrived, rxFrames>>
  PROVE  RxFollows'
  BY DEF RxFollows, RxTypes, RxHeld, RxAt, RxGood, Pcnet!RxEntry

\* The driver looks at the first descriptor it has, and gives it back.
LEMMA RxGoes ==
  ASSUME RxFollows, Pcnet!ReceiveLoop, ~rx_ring[Pcnet!RxEntry].own
  PROVE  RxFollows'
<1> PICK m \in 0 .. RX_RING_SIZE : RxHeld(m)
  BY DEF RxFollows
<1> PICK e \in 0 .. RX_RING_SIZE - 1 : e = Pcnet!RxEntry
  BY RxEntryIs DEF RxFollows
<1> PICK S \in Nat \ {0} : S = RX_RING_SIZE
  BY PcConstants
<1> PICK f : f = (IF e = S - 1 THEN 0 ELSE e + 1)
  OBVIOUS
<1> DEFINE at(k) == (e + k) % S
           to(k) == (f + k) % S
           g == Pcnet!GoodFrom(rx_ring, e)
           h == Pcnet!GoodFrom(rx_ring', f)
           good == rx_ring[e].kind = "good"
<1>1. /\ rx_ring' = [rx_ring EXCEPT ![e].own = TRUE]
      /\ cur_rx' = (cur_rx + 1) % WRAP
      /\ IF good THEN arrived' = Tail(arrived) ELSE arrived' = arrived
      /\ chipRx' = chipRx /\ rxFrames' = rxFrames
  BY DEF Pcnet!ReceiveLoop, Pcnet!GiveBack, Pcnet!Recycled, Pcnet!Advance
<1>2. /\ chipRx = at(m)
      /\ \A k \in 0 .. S - 1 : rx_ring[at(k)].own = (k >= m)
      /\ Len(arrived) = g[m]
      /\ \A k \in 0 .. m - 1 : rx_ring[at(k)].kind = "good" => arrived[g[k] + 1] = rx_ring[at(k)].frame
  BY DEF RxHeld, RxAt, RxGood
<1>3. at(0) = e /\ at(S) = e
  <2>1. 0 \in 0 .. S /\ S \in 0 .. S
    OBVIOUS
  <2>2. /\ at(S) = IF e + S < S THEN e + S ELSE e + S - S
        /\ at(0) = IF e + 0 < S THEN e + 0 ELSE e + 0 - S
    BY <2>1, SlotIs
  <2> HIDE DEF at
  <2> QED
    BY <2>2
<1>4. \A k \in 0 .. S - 1 : at(k) \in 0 .. S - 1 /\ to(k) = at(k + 1) /\ f \in 0 .. S - 1
  <2> TAKE k \in 0 .. S - 1
  <2>1. k \in 0 .. S
    OBVIOUS
  <2>2. at(k) \in 0 .. S - 1
    BY <2>1, SlotIs
  <2>3. f \in 0 .. S - 1 /\ (f + k) % S = (e + (k + 1)) % S
    <3>1. f \in 0 .. S - 1 /\ k \in 0 .. S /\ k + 1 \in 0 .. S
      OBVIOUS
    <3>2. (e + (k + 1)) % S = IF e + (k + 1) < S THEN e + (k + 1) ELSE e + (k + 1) - S
      BY <3>1, SlotIs
    <3>3. (f + k) % S = IF f + k < S THEN f + k ELSE f + k - S
      BY <3>1, SlotIs
    <3> QED
      BY <3>1, <3>2, <3>3
  <2> QED
    BY <2>2, <2>3, Zenon
<1>5. \A k \in 0 .. S - 1 : k # 0 => at(k) # e
  <2>1. ASSUME NEW k \in 0 .. S - 1, k # 0 PROVE at(k) # at(0)
    <3>1. 0 \in 0 .. S - 1
      OBVIOUS
    <3> QED
      BY <2>1, <3>1, SlotsDiffer
  <2> HIDE DEF at
  <2> QED
    BY <1>3, <2>1
<1>6. Pcnet!RxEntry' = f /\ cur_rx' \in 0 .. WRAP - 1
  <2>1. WRAP \in Nat \ {0} /\ WholeRounds(WRAP, S) /\ cur_rx \in 0 .. WRAP - 1
    BY PcConstants DEF RxFollows, RxTypes
  <2>2. /\ ((cur_rx + 1) % WRAP) \in 0 .. WRAP - 1
        /\ ((cur_rx + 1) % WRAP) % S = IF (cur_rx % S) = S - 1 THEN 0 ELSE (cur_rx % S) + 1
    BY <2>1, NextInRing
  <2>3. (cur_rx % S) = e
    BY DEF Pcnet!RxEntry
  <2> QED
    BY <1>1, <2>2, <2>3, Zenon DEF Pcnet!RxEntry
<1> HIDE DEF at, to
<1>7. m \in 1 .. S
  <2>1. 0 \in 0 .. S - 1
    OBVIOUS
  <2>2. rx_ring[at(0)].own = (0 >= m) /\ ~rx_ring[at(0)].own
    BY <1>2, <1>3, <2>1
  <2>3. ~(0 >= m)
    BY <2>2, Zenon
  <2> QED
    BY <2>3
<1>8. /\ rx_ring \in [0 .. S - 1 -> RxDescriptor] /\ arrived \in Seq(Pcnet!Frame)
  BY DEF RxFollows, RxTypes, Pcnet!RxSlot
<1>9. /\ rx_ring' \in [0 .. S - 1 -> RxDescriptor]
      /\ rx_ring'[e].own = TRUE
      /\ \A j \in 0 .. S - 1 : rx_ring'[j].kind = rx_ring[j].kind /\ rx_ring'[j].frame = rx_ring[j].frame
      /\ \A j \in 0 .. S - 1 : j # e => rx_ring'[j] = rx_ring[j]
  BY <1>1, <1>8 DEF RxDescriptor
<1>10. \A k \in 0 .. S - 1 : g[k + 1] = g[1] + h[k] /\ g[k + 1] \in Nat /\ h[k] \in Nat /\ g[1] \in Nat
  <2>1. \A k \in 0 .. RX_RING_SIZE - 1 : g[k + 1] = g[1] + h[k]
    <3>1. \A j \in 0 .. RX_RING_SIZE - 1 : rx_ring'[j].kind = rx_ring[j].kind
      BY <1>9
    <3>2. f = (IF e = RX_RING_SIZE - 1 THEN 0 ELSE e + 1)
      OBVIOUS
    <3> QED
      BY <3>1, <3>2, GoodShift
  <2>2. /\ \A k \in 0 .. RX_RING_SIZE : g[k] \in Nat
        /\ \A k \in 0 .. RX_RING_SIZE : h[k] \in Nat
    BY <1>4, GoodNext
  <2>3. \A k \in 0 .. S - 1 : k + 1 \in 0 .. S /\ k \in 0 .. S /\ 1 \in 0 .. S
    OBVIOUS
  <2> HIDE DEF g, h
  <2> QED
    BY <2>1, <2>2, <2>3
<1>11. g[1] = IF good THEN 1 ELSE 0
  <2>1. /\ g[0] = 0
        /\ \A k \in 0 .. RX_RING_SIZE - 1 :
             g[k + 1] = g[k] + (IF rx_ring[at(k)].kind = "good" THEN 1 ELSE 0)
    BY GoodNext DEF at
  <2>2. 0 \in 0 .. RX_RING_SIZE - 1 /\ 0 + 1 = 1
    OBVIOUS
  <2>3. g[0 + 1] = g[0] + (IF rx_ring[at(0)].kind = "good" THEN 1 ELSE 0)
    BY <2>1, <2>2
  <2> HIDE DEF g
  <2>4. g[1] = 0 + (IF rx_ring[e].kind = "good" THEN 1 ELSE 0)
    BY <1>3, <2>1, <2>2, <2>3
  <2> QED
    BY <2>4
<1>12. ASSUME NEW k \in 0 .. m - 2, rx_ring'[to(k)].kind = "good"
       PROVE  h[k] + 1 <= h[m - 1]
  <2>1. k \in 0 .. RX_RING_SIZE - 1 /\ k + 1 \in 0 .. RX_RING_SIZE /\ m - 1 \in 0 .. RX_RING_SIZE /\ k + 1 <= m - 1
    BY <1>7
  <2>2. h[k + 1] = h[k] + 1
    <3>1. f \in 0 .. RX_RING_SIZE - 1
      BY <1>4, <2>1
    <3>2. \A j \in 0 .. RX_RING_SIZE - 1 :
            h[j + 1] = h[j] + (IF rx_ring'[to(j)].kind = "good" THEN 1 ELSE 0)
      BY <3>1, GoodNext DEF to
    <3> HIDE DEF h
    <3> QED
      BY <1>12, <2>1, <3>2
  <2>3. h[k + 1] <= h[m - 1]
    <3>1. f \in 0 .. RX_RING_SIZE - 1
      BY <1>4, <2>1
    <3> QED
      BY <2>1, <3>1, GoodGrows
  <2> HIDE DEF h
  <2> QED
    BY <2>2, <2>3
<1> HIDE DEF g, h, good
<1>13. g[m] = g[1] + h[m - 1] /\ h[m - 1] \in Nat
  <2>1. m - 1 \in 0 .. S - 1 /\ (m - 1) + 1 = m
    BY <1>7
  <2> QED
    BY <1>10, <2>1
<1>14. /\ arrived' \in Seq(Pcnet!Frame) /\ Len(arrived') = h[m - 1]
       /\ \A j \in 1 .. h[m - 1] : arrived'[j] = arrived[j + g[1]]
  <2>1. CASE good
    <3>1. g[1] = 1 /\ arrived' = Tail(arrived) /\ Len(arrived) = h[m - 1] + 1
      BY <1>1, <1>2, <1>11, <1>13, <2>1
    <3>2. arrived # <<>>
      BY <1>13, <3>1
    <3>3. /\ Tail(arrived) \in Seq(Pcnet!Frame) /\ Len(Tail(arrived)) = Len(arrived) - 1
          /\ \A j \in 1 .. Len(Tail(arrived)) : Tail(arrived)[j] = arrived[j + 1]
      BY <1>8, <3>2, HeadTailProperties
    <3>4. Len(Tail(arrived)) = h[m - 1]
      BY <1>13, <3>1, <3>3
    <3> QED
      BY <3>1, <3>3, <3>4
  <2>2. CASE ~good
    <3>1. g[1] = 0 /\ arrived' = arrived /\ Len(arrived) = h[m - 1]
      BY <1>1, <1>2, <1>11, <1>13, <2>2
    <3>2. \A j \in 1 .. h[m - 1] : j + 0 = j
      BY <1>13
    <3> QED
      BY <1>8, <3>1, <3>2
  <2> QED
    BY <2>1, <2>2
<1>15. ASSUME NEW k \in 0 .. m - 2, rx_ring'[to(k)].kind = "good"
       PROVE  arrived'[h[k] + 1] = rx_ring'[to(k)].frame
  <2>1. k + 1 \in 0 .. m - 1 /\ k \in 0 .. S - 1 /\ k + 1 \in 0 .. S - 1
    BY <1>7
  <2>2. /\ rx_ring'[to(k)].kind = rx_ring[at(k + 1)].kind
        /\ rx_ring'[to(k)].frame = rx_ring[at(k + 1)].frame
    BY <1>4, <1>9, <2>1
  <2>3. arrived[g[k + 1] + 1] = rx_ring'[to(k)].frame
    BY <1>2, <1>15, <2>1, <2>2
  <2>4. g[k + 1] = g[1] + h[k] /\ h[k] \in Nat /\ g[1] \in Nat
    BY <1>10, <2>1
  <2>5. h[k] + 1 \in 1 .. h[m - 1] /\ (h[k] + 1) + g[1] = g[k + 1] + 1
    BY <1>12, <1>13, <1>15, <2>4
  <2> QED
    BY <1>14, <2>3, <2>5
<1>16. ASSUME NEW k \in 0 .. S - 1
       PROVE  rx_ring'[to(k)].own = (k >= m - 1)
  <2>1. CASE k = S - 1
    <3>1. to(k) = e
      <4>1. k + 1 = S
        BY <2>1
      <4> QED
        BY <1>3, <1>4, <4>1
    <3>2. rx_ring'[to(k)].own = TRUE
      BY <1>9, <3>1
    <3>3. (k >= m - 1) = TRUE
      BY <1>7, <2>1
    <3> QED
      BY <3>2, <3>3, Zenon
  <2>2. CASE k # S - 1
    <3>1. k + 1 \in 0 .. S - 1 /\ k + 1 # 0
      BY <2>2
    <3>2. rx_ring'[to(k)] = rx_ring[at(k + 1)]
      BY <1>4, <1>5, <1>9, <3>1
    <3>3. rx_ring[at(k + 1)].own = (k + 1 >= m)
      BY <1>2, <3>1
    <3>4. (k + 1 >= m) = (k >= m - 1)
      BY <1>7
    <3> QED
      BY <3>2, <3>3, <3>4
  <2> QED
    BY <2>1, <2>2
<1>17. chipRx' = to(m - 1)
  <2>1. m - 1 \in 0 .. S - 1 /\ (m - 1) + 1 = m
    BY <1>7
  <2> QED
    BY <1>1, <1>2, <1>4, <2>1
<1>18. RxTypes'
  <2>1. chipRx' \in 0 .. S - 1
    BY <1>1 DEF RxFollows, RxTypes, Pcnet!RxSlot
  <2>2. rxFrames' \in Pcnet!Frame
    BY <1>1 DEF RxFollows, RxTypes, Pcnet!Frame
  <2> QED
    BY <1>6, <1>9, <1>14, <2>1, <2>2 DEF RxTypes, Pcnet!RxSlot, Pcnet!Frame
<1>19. RxHeld(m - 1)'
  <2>1. (m - 1) - 1 = m - 2
    BY <1>7
  <2> QED
    BY <1>6, <1>14, <1>15, <1>16, <1>17, <2>1 DEF RxHeld, RxAt, RxGood, to, h
<1>20. m - 1 \in 0 .. RX_RING_SIZE
  BY <1>7
<1> QED
  BY <1>18, <1>19, <1>20 DEF RxFollows

\* The rings are set up: all descriptors are the chip's.
LEMMA RxStarts ==
  ASSUME rx_ring' = [j \in Pcnet!RxSlot |-> [own |-> TRUE, frame |-> 0, kind |-> "good"]],
         cur_rx' = 0, chipRx' = 0, arrived' = <<>>, rxFrames' \in Pcnet!Frame
  PROVE  RxFollows'
<1> DEFINE g == Pcnet!GoodFrom(rx_ring', 0)
<1> PICK S \in Nat \ {0} : S = RX_RING_SIZE
  BY PcConstants
<1>1. Pcnet!RxEntry' = 0 /\ 0 \in 0 .. S - 1 /\ 0 \in 0 .. S
  BY DEF Pcnet!RxEntry
<1>2. (0 + 0) % S = 0
  BY <1>1, SlotIs
<1>3. g[0] = 0
  BY <1>1, GoodNext
<1> HIDE DEF g
<1>4. arrived' \in Seq(Pcnet!Frame) /\ Len(arrived') = 0
  BY EmptySeq
<1>5. RxTypes'
  <2>1. WRAP \in Nat \ {0} /\ 0 \in Pcnet!Frame
    BY PcConstants DEF Pcnet!Frame
  <2>2. rx_ring' \in [Pcnet!RxSlot -> RxDescriptor]
    BY <2>1 DEF RxDescriptor, Pcnet!Kind
  <2>3. chipRx' \in Pcnet!RxSlot /\ cur_rx' \in 0 .. WRAP - 1
    BY <2>1 DEF Pcnet!RxSlot
  <2>4. Pcnet!Frame' = Pcnet!Frame
    BY DEF Pcnet!Frame
  <2> QED
    BY <1>4, <2>2, <2>3, <2>4 DEF RxTypes, Pcnet!RxSlot, RxDescriptor, Pcnet!Kind
<1>6. \A k \in 0 .. S - 1 : rx_ring'[(0 + k) % S].own = (k >= 0)
  <2> TAKE k \in 0 .. S - 1
  <2>1. k \in 0 .. S
    OBVIOUS
  <2>2. (0 + k) % S \in 0 .. S - 1
    BY <1>1, <2>1, SlotIs
  <2>3. rx_ring'[(0 + k) % S].own = TRUE
    BY <2>2 DEF Pcnet!RxSlot
  <2>4. (k >= 0) = TRUE
    OBVIOUS
  <2> QED
    BY <2>3, <2>4, Zenon
<1>7. RxHeld(0)'
  <2>1. \A k : k \notin 0 .. 0 - 1
    OBVIOUS
  <2> QED
    BY <1>1, <1>2, <1>3, <1>4, <1>6, <2>1 DEF RxHeld, RxAt, RxGood, g
<1>8. 0 \in 0 .. RX_RING_SIZE
  OBVIOUS
<1> QED
  BY <1>5, <1>7, <1>8 DEF RxFollows

LEMMA RxStaysInStep ==
  ASSUME RxFollows, Pcnet!Next
  PROVE  RxFollows'
<1>1. CASE Pcnet!ChipReceives
  BY <1>1, RxComes
<1>2. CASE Pcnet!ReceiveLoop
  <2>1. CASE rx_ring[Pcnet!RxEntry].own
    BY <1>2, <2>1, RxUnmoved DEF Pcnet!ReceiveLoop
  <2>2. CASE ~rx_ring[Pcnet!RxEntry].own
    BY <1>2, <2>2, RxGoes
  <2> QED
    BY <2>1, <2>2
<1>3. CASE Pcnet!Startup
  <2>1. rxFrames' \in Pcnet!Frame
    BY <1>3 DEF Pcnet!Startup, RxFollows, RxTypes, Pcnet!Frame
  <2> QED
    BY <1>3, <2>1, RxStarts DEF Pcnet!Startup
<1>4. CASE Pcnet!ChipSends
  BY <1>4, RxUnmoved DEF Pcnet!ChipSends, Pcnet!rxVars
<1>5. CASE Pcnet!Stop
  BY <1>5, RxUnmoved DEF Pcnet!Stop, Pcnet!rxVars
<1>6. CASE Pcnet!Transmit
  BY <1>6, RxUnmoved DEF Pcnet!Transmit, Pcnet!rxVars
<1>9. CASE Pcnet!TransmitLong
  BY <1>9, RxUnmoved DEF Pcnet!TransmitLong, Pcnet!rxVars
<1>7. CASE Pcnet!WaitEnds
  BY <1>7, RxUnmoved DEF Pcnet!WaitEnds, Pcnet!rxVars
<1>8. CASE Pcnet!Receive
  BY <1>8, RxUnmoved DEF Pcnet!Receive, Pcnet!rxVars
<1> QED
  BY <1>1, <1>2, <1>3, <1>4, <1>5, <1>6, <1>7, <1>8, <1>9 DEF Pcnet!Next, Pcnet!Driver

LEMMA RxBegins ==
  ASSUME Pcnet!Init
  PROVE  RxFollows
<1> DEFINE g == Pcnet!GoodFrom(rx_ring, 0)
<1> PICK S \in Nat \ {0} : S = RX_RING_SIZE
  BY PcConstants
<1>1. Pcnet!RxEntry = 0 /\ 0 \in 0 .. S - 1 /\ 0 \in 0 .. S
  BY DEF Pcnet!RxEntry, Pcnet!Init
<1>2. (0 + 0) % S = 0
  BY <1>1, SlotIs
<1>3. g[0] = 0
  BY <1>1, GoodNext
<1> HIDE DEF g
<1>4. arrived \in Seq(Pcnet!Frame) /\ Len(arrived) = 0
  BY EmptySeq DEF Pcnet!Init
<1>5. RxTypes
  <2>1. WRAP \in Nat \ {0} /\ 0 \in Pcnet!Frame
    BY PcConstants DEF Pcnet!Frame
  <2>2. rx_ring \in [Pcnet!RxSlot -> RxDescriptor]
    BY <2>1 DEF RxDescriptor, Pcnet!Kind, Pcnet!Init
  <2>3. chipRx \in Pcnet!RxSlot /\ cur_rx \in 0 .. WRAP - 1 /\ rxFrames \in Pcnet!Frame
    BY <2>1 DEF Pcnet!RxSlot, Pcnet!Init
  <2> QED
    BY <1>4, <2>2, <2>3 DEF RxTypes
<1>6. \A k \in 0 .. S - 1 : rx_ring[(0 + k) % S].own = (k >= 0)
  <2> TAKE k \in 0 .. S - 1
  <2>1. k \in 0 .. S
    OBVIOUS
  <2>2. (0 + k) % S \in 0 .. S - 1
    BY <1>1, <2>1, SlotIs
  <2>3. rx_ring[(0 + k) % S].own = TRUE
    BY <2>2 DEF Pcnet!RxSlot, Pcnet!Init
  <2>4. (k >= 0) = TRUE
    OBVIOUS
  <2> QED
    BY <2>3, <2>4, Zenon
<1>7. RxHeld(0)
  <2>1. chipRx = 0 /\ \A k : k \notin 0 .. 0 - 1
    BY DEF Pcnet!Init
  <2> QED
    BY <1>1, <1>2, <1>3, <1>4, <1>6, <2>1 DEF RxHeld, RxAt, RxGood, g
<1>8. 0 \in 0 .. RX_RING_SIZE
  OBVIOUS
<1> QED
  BY <1>5, <1>7, <1>8 DEF RxFollows

\* The driver takes the receive descriptors in the order in which the chip fills
\* them, whatever was bad, and each good frame once: it is the number of frames that
\* came, and not what the two sides know, that says how many descriptors it has.
THEOREM RxIsInStep == Spec => []RxInStep
<1> DEFINE Inv == driver = "pcnet32" => RxFollows
<1>1. Init => Inv
  BY RxBegins DEF Init
<1>2. Inv /\ [Next]_vars => Inv'
  <2>1. CASE UNCHANGED vars
    BY <2>1, RxUnmoved DEF vars, pcnetVars
  <2>2. CASE Next
    BY <2>2, RxStaysInStep DEF Next, OnlySmc, OnlyCs, OnlyNs, OnlyPcnet, Only
  <2> QED
    BY <2>1, <2>2
<1>3. Inv => RxInStep
  <2> SUFFICES ASSUME RxFollows
               PROVE  Pcnet!RxInStep
    BY DEF RxInStep
  <2> PICK m \in 0 .. RX_RING_SIZE : RxHeld(m)
    BY DEF RxFollows
  <2> PICK e \in 0 .. RX_RING_SIZE - 1 : e = Pcnet!RxEntry
    BY RxEntryIs DEF RxFollows
  <2> PICK S \in Nat \ {0} : S = RX_RING_SIZE
    BY PcConstants
  <2> DEFINE n == (chipRx + S - e) % S
             own == rx_ring[e].own
  <2>1. chipRx = IF e + m < S THEN e + m ELSE e + m - S
    BY SlotIs DEF RxHeld
  <2>2. own = (0 >= m)
    <3>1. rx_ring[(e + 0) % S].own = (0 >= m)
      <4>1. 0 \in 0 .. RX_RING_SIZE - 1
        OBVIOUS
      <4> QED
        BY <4>1 DEF RxHeld, RxAt
    <3>2. (e + 0) % S = e
      OBVIOUS
    <3> QED
      BY <3>1, <3>2
  <2>3. n = IF m = S THEN 0 ELSE m
    <3>1. chipRx + S - e = IF e + m < S THEN m + S ELSE m
      BY <2>1
    <3>2. (m + S) % S = (IF m = S THEN 0 ELSE m) /\ m % S = (IF m = S THEN 0 ELSE m)
      <4>1. CASE m = S
        <5>1. (S * 2 + 0) % S = 0 /\ (S * 1 + 0) % S = 0
          BY RemainderOnly
        <5> QED
          BY <4>1, <5>1
      <4>2. CASE m # S
        <5>1. m \in 0 .. S - 1
          BY <4>2
        <5>2. (S * 1 + m) % S = m /\ (S * 0 + m) % S = m
          BY <5>1, RemainderOnly
        <5> QED
          BY <4>2, <5>2
      <4> QED
        BY <4>1, <4>2
    <3> QED
      BY <3>1, <3>2
  <2> HIDE DEF n, own
  <2>4. m = IF n = 0 /\ ~own THEN S ELSE n
    <3>1. CASE m = S
      <4>1. ~(0 >= m)
        BY <3>1
      <4> QED
        BY <2>2, <2>3, <3>1, <4>1
    <3>2. CASE m = 0
      <4>1. 0 >= m
        BY <3>2
      <4>2. own
        BY <2>2, <4>1
      <4> QED
        BY <2>3, <3>2, <4>2
    <3>3. CASE m # 0 /\ m # S
      BY <2>3, <3>3
    <3> QED
      BY <3>1, <3>2, <3>3
  <2>5. m = IF ((chipRx + RX_RING_SIZE - Pcnet!RxEntry) % RX_RING_SIZE) = 0 /\ ~rx_ring[Pcnet!RxEntry].own
            THEN RX_RING_SIZE ELSE (chipRx + RX_RING_SIZE - Pcnet!RxEntry) % RX_RING_SIZE
    BY <2>4, Zenon DEF n, own
  <2> QED
    BY <2>5, Zenon DEF RxHeld, RxAt, RxGood, Pcnet!RxInStep
<1> QED
  BY <1>1, <1>2, <1>3, PTL DEF Spec

TxDescriptor == [own : BOOLEAN, frame : Pcnet!Frame, err : BOOLEAN]

TxTypes ==
  /\ tx_ring \in [Pcnet!TxSlot -> TxDescriptor] /\ chipTx \in Pcnet!TxSlot
  /\ cur_tx \in 0 .. WRAP - 1
  /\ passed \in Seq(Pcnet!Frame) /\ wire \in Seq(Pcnet!Frame)
  /\ txFrames \in Pcnet!Frame

TxAt(k) == tx_ring[(chipTx + k) % TX_RING_SIZE]

\* The chip has w descriptors, from its own on, and the driver the rest.
TxHeld(w) ==
  /\ Pcnet!TxEntry = (chipTx + w) % TX_RING_SIZE
  /\ \A k \in 0 .. TX_RING_SIZE - 1 : TxAt(k).own = (k < w)
  /\ Len(passed) = Len(wire) + w
  /\ \A k \in 0 .. w - 1 : TxAt(k).frame = passed[Len(wire) + k + 1]
  /\ \A j \in 1 .. Len(wire) : wire[j] = passed[j]
  /\ sync_tx /\ pc # "wait" /\ result = "sent" => w = 0

TxFollows == TxTypes /\ \E w \in 0 .. TX_RING_SIZE : TxHeld(w)

\* The chip sends what is first in its descriptors.
LEMMA TxGoes ==
  ASSUME TxFollows, Pcnet!ChipSends
  PROVE  TxFollows'
<1> PICK w \in 0 .. TX_RING_SIZE : TxHeld(w)
  BY DEF TxFollows
<1> PICK S \in Nat \ {0} : S = TX_RING_SIZE
  BY PcConstants
<1> PICK c \in 0 .. S - 1 : c = chipTx
  BY DEF TxFollows, TxTypes, Pcnet!TxSlot
<1> PICK f \in 0 .. S - 1 : f = (IF c = S - 1 THEN 0 ELSE c + 1)
  OBVIOUS
<1> PICK n : n = Len(wire)
  OBVIOUS
<1> DEFINE at(k) == (c + k) % S
           to(k) == (f + k) % S
<1>1. PICK err \in BOOLEAN :
        /\ tx_ring' = [tx_ring EXCEPT ![c].own = FALSE, ![c].err = err]
        /\ wire' = Append(wire, tx_ring[c].frame) /\ tx_ring[c].own
        /\ chipTx' = (c + 1) % S
        /\ UNCHANGED <<sync_tx, cur_tx, result, passed, txFrames, pc>>
  BY DEF Pcnet!ChipSends
<1>2. /\ Pcnet!TxEntry = at(w)
      /\ \A k \in 0 .. S - 1 : tx_ring[at(k)].own = (k < w)
      /\ Len(passed) = n + w
      /\ \A k \in 0 .. w - 1 : tx_ring[at(k)].frame = passed[n + k + 1]
      /\ \A j \in 1 .. n : wire[j] = passed[j]
      /\ sync_tx /\ pc # "wait" /\ result = "sent" => w = 0
  BY DEF TxHeld, TxAt
<1>3. ASSUME NEW k \in 0 .. S
      PROVE  /\ at(k) \in 0 .. S - 1 /\ at(k) = (IF c + k < S THEN c + k ELSE c + k - S)
             /\ to(k) \in 0 .. S - 1 /\ to(k) = (IF f + k < S THEN f + k ELSE f + k - S)
  BY SlotIs
<1>4. chipTx' = at(1)
  BY <1>1
<1> HIDE DEF at, to
<1>5. /\ at(0) = c /\ at(S) = c /\ at(1) = f
      /\ \A k \in 0 .. S - 1 : to(k) = at(k + 1)
      /\ \A k \in 1 .. S - 1 : at(k) # c
  <2>1. 0 \in 0 .. S /\ S \in 0 .. S /\ 1 \in 0 .. S
    OBVIOUS
  <2>2. /\ at(0) = IF c + 0 < S THEN c + 0 ELSE c + 0 - S
        /\ at(1) = IF c + 1 < S THEN c + 1 ELSE c + 1 - S
        /\ at(S) = IF c + S < S THEN c + S ELSE c + S - S
    BY <1>3, <2>1
  <2>5. at(0) = c /\ at(S) = c /\ at(1) = f
    BY <2>2
  <2>3. ASSUME NEW k \in 0 .. S - 1 PROVE to(k) = at(k + 1)
    <3>1. k \in 0 .. S /\ k + 1 \in 0 .. S
      OBVIOUS
    <3>2. /\ at(k + 1) = IF c + (k + 1) < S THEN c + (k + 1) ELSE c + (k + 1) - S
          /\ to(k) = IF f + k < S THEN f + k ELSE f + k - S
      BY <1>3, <3>1
    <3> QED
      BY <3>1, <3>2
  <2>4. ASSUME NEW k \in 1 .. S - 1 PROVE at(k) # c
    <3>0. k \in 0 .. S
      OBVIOUS
    <3>1. at(k) = IF c + k < S THEN c + k ELSE c + k - S
      BY <1>3, <3>0
    <3> QED
      BY <2>4, <3>1
  <2> QED
    BY <2>3, <2>4, <2>5
<1>6. w \in 1 .. S
  <2>1. 0 \in 0 .. S - 1
    OBVIOUS
  <2>2. tx_ring[at(0)].own = (0 < w) /\ tx_ring[at(0)].own
    BY <1>1, <1>2, <1>5, <2>1
  <2>3. 0 < w
    BY <2>2, Zenon
  <2> QED
    BY <2>3
<1>7. /\ tx_ring \in [0 .. S - 1 -> TxDescriptor] /\ n \in Nat
      /\ passed \in Seq(Pcnet!Frame) /\ wire \in Seq(Pcnet!Frame)
  BY LenProperties DEF TxFollows, TxTypes, Pcnet!TxSlot
<1>8. /\ tx_ring' \in [0 .. S - 1 -> TxDescriptor]
      /\ tx_ring'[c].own = FALSE
      /\ \A j \in 0 .. S - 1 : j # c => tx_ring'[j] = tx_ring[j]
  <2>1. tx_ring[c] \in TxDescriptor
    BY <1>7
  <2>2. tx_ring'[c] = [tx_ring[c] EXCEPT !.own = FALSE, !.err = err]
    BY <1>1, <1>7
  <2> QED
    BY <1>1, <1>7, <2>1, <2>2 DEF TxDescriptor
<1>9. tx_ring[c].frame = passed[n + 1] /\ tx_ring[c].frame \in Pcnet!Frame
  <2>1. 0 \in 0 .. w - 1 /\ n + 0 + 1 = n + 1
    BY <1>6, <1>7
  <2>2. tx_ring[c].frame = passed[n + 0 + 1]
    BY <1>2, <1>5, <2>1
  <2>3. tx_ring[c].frame \in Pcnet!Frame
    BY <1>7 DEF TxDescriptor
  <2> QED
    BY <2>1, <2>2, <2>3
<1>10. /\ wire' \in Seq(Pcnet!Frame) /\ Len(wire') = n + 1
       /\ \A j \in 1 .. n + 1 : wire'[j] = passed[j]
  <2>1. /\ wire' \in Seq(Pcnet!Frame) /\ Len(wire') = n + 1
        /\ wire'[n + 1] = passed[n + 1]
        /\ \A j \in 1 .. n : wire'[j] = wire[j]
    BY <1>1, <1>7, <1>9, AppendProperties
  <2>2. \A j \in 1 .. n + 1 : j = n + 1 \/ j \in 1 .. n
    BY <1>7
  <2> QED
    BY <1>2, <2>1, <2>2
<1>11. ASSUME NEW k \in 0 .. S - 1
       PROVE  tx_ring'[to(k)].own = (k < w - 1)
  <2>1. CASE k = S - 1
    <3>1. to(k) = c
      <4>1. k + 1 = S
        BY <2>1
      <4> QED
        BY <1>5, <4>1
    <3>2. tx_ring'[to(k)].own = FALSE
      BY <1>8, <3>1
    <3>3. (k < w - 1) = FALSE
      BY <1>6, <2>1
    <3> QED
      BY <3>2, <3>3, Zenon
  <2>2. CASE k # S - 1
    <3>1. k + 1 \in 1 .. S - 1 /\ k + 1 \in 0 .. S - 1 /\ k + 1 \in 0 .. S
      BY <2>2
    <3>2. tx_ring'[to(k)] = tx_ring[at(k + 1)]
      BY <1>3, <1>5, <1>8, <3>1
    <3>3. tx_ring[at(k + 1)].own = (k + 1 < w)
      BY <1>2, <3>1
    <3>4. (k + 1 < w) = (k < w - 1)
      BY <1>6
    <3> QED
      BY <3>2, <3>3, <3>4
  <2> QED
    BY <2>1, <2>2
<1>12. ASSUME NEW k \in 0 .. w - 2
       PROVE  tx_ring'[to(k)].frame = passed[(n + 1) + k + 1]
  <2>1. /\ k + 1 \in 1 .. S - 1 /\ k + 1 \in 0 .. S /\ k \in 0 .. S - 1 /\ k + 1 \in 0 .. w - 1
        /\ (n + 1) + k + 1 = n + (k + 1) + 1
    BY <1>6, <1>7
  <2>2. tx_ring'[to(k)] = tx_ring[at(k + 1)]
    BY <1>3, <1>5, <1>8, <2>1
  <2>3. tx_ring[at(k + 1)].frame = passed[n + (k + 1) + 1]
    BY <1>2, <2>1
  <2> QED
    BY <2>1, <2>2, <2>3
<1>13. Pcnet!TxEntry' = to(w - 1)
  <2>1. w - 1 \in 0 .. S - 1 /\ (w - 1) + 1 = w
    BY <1>6
  <2>2. Pcnet!TxEntry' = Pcnet!TxEntry
    BY <1>1 DEF Pcnet!TxEntry
  <2> QED
    BY <1>2, <1>5, <2>1, <2>2
<1>14. TxTypes'
  <2>1. /\ TxTypes /\ UNCHANGED <<cur_tx, passed, txFrames>>
        /\ tx_ring' \in [Pcnet!TxSlot -> TxDescriptor] /\ wire' \in Seq(Pcnet!Frame)
    BY <1>1, <1>8, <1>10 DEF TxFollows, Pcnet!TxSlot
  <2>2. chipTx' \in Pcnet!TxSlot
    <3>1. 1 \in 0 .. S
      OBVIOUS
    <3> QED
      BY <1>3, <1>4, <3>1 DEF Pcnet!TxSlot
  <2> QED
    BY <2>1, <2>2 DEF TxTypes, TxDescriptor, Pcnet!Frame
<1>15. TxHeld(w - 1)'
  <2>1. (w - 1) - 1 = w - 2 /\ (n + 1) + (w - 1) = n + w /\ w # 0
    BY <1>6, <1>7
  <2>2. chipTx' = f
    BY <1>4, <1>5
  <2>3. ~(sync_tx' /\ pc' # "wait" /\ result' = "sent")
    BY <1>1, <1>2, <2>1
  <2>4. Len(passed') = Len(wire') + (w - 1)
    BY <1>1, <1>2, <1>10, <2>1
  <2>5. \A k \in 0 .. (w - 1) - 1 : TxAt(k)'.frame = passed'[Len(wire') + k + 1]
    BY <1>1, <1>10, <1>12, <2>1, <2>2 DEF TxAt, to
  <2>6. \A k \in 0 .. TX_RING_SIZE - 1 : TxAt(k)'.own = (k < w - 1)
    BY <1>11, <2>2 DEF TxAt, to
  <2>7. \A j \in 1 .. Len(wire') : wire'[j] = passed'[j]
    BY <1>1, <1>10
  <2>8. Pcnet!TxEntry' = (chipTx' + (w - 1)) % TX_RING_SIZE
    BY <1>13, <2>2 DEF to
  <2> QED
    BY <2>3, <2>4, <2>5, <2>6, <2>7, <2>8 DEF TxHeld
<1>16. w - 1 \in 0 .. TX_RING_SIZE
  BY <1>6
<1> QED
  BY <1>14, <1>15, <1>16 DEF TxFollows

LEMMA TxUnmoved ==
  ASSUME TxFollows, UNCHANGED <<tx_ring, cur_tx, chipTx, passed, wire, txFrames>>,
         ~(sync_tx' /\ pc' # "wait" /\ result' = "sent") \/ (UNCHANGED <<sync_tx, result>> /\ pc # "wait")
  PROVE  TxFollows'
<1> PICK w \in 0 .. TX_RING_SIZE : TxHeld(w)
  BY DEF TxFollows
<1>1. TxTypes'
  BY DEF TxFollows, TxTypes
<1>2. TxHeld(w)'
  BY DEF TxHeld, TxAt, Pcnet!TxEntry
<1> QED
  BY <1>1, <1>2 DEF TxFollows

\* The driver passes a frame in the first descriptor it has.
LEMMA TxComes ==
  ASSUME TxFollows, Pcnet!Transmit, ~tx_ring[Pcnet!TxEntry].own
  PROVE  TxFollows'
<1> PICK w \in 0 .. TX_RING_SIZE : TxHeld(w)
  BY DEF TxFollows
<1> PICK S \in Nat \ {0} : S = TX_RING_SIZE
  BY PcConstants
<1> PICK c \in 0 .. S - 1 : c = chipTx
  BY DEF TxFollows, TxTypes, Pcnet!TxSlot
<1> PICK e : e = Pcnet!TxEntry
  OBVIOUS
<1> PICK n : n = Len(wire)
  OBVIOUS
<1> DEFINE at(k) == (c + k) % S
<1>1. /\ tx_ring' = [tx_ring EXCEPT ![e] = [own |-> TRUE, frame |-> txFrames + 1, err |-> FALSE]]
      /\ passed' = Append(passed, txFrames + 1) /\ txFrames' = txFrames + 1
      /\ cur_tx' = (cur_tx + 1) % WRAP
      /\ sync_tx => pc' = "wait"
      /\ txFrames < PcnetFrames /\ ~tx_ring[e].own
      /\ sync_tx' = sync_tx /\ chipTx' = c /\ wire' = wire
  BY DEF Pcnet!Transmit, Pcnet!Pass, Pcnet!Advance
<1>2. /\ e = at(w)
      /\ \A k \in 0 .. S - 1 : tx_ring[at(k)].own = (k < w)
      /\ Len(passed) = n + w
      /\ \A k \in 0 .. w - 1 : tx_ring[at(k)].frame = passed[n + k + 1]
      /\ \A j \in 1 .. n : wire[j] = passed[j]
  BY DEF TxHeld, TxAt
<1>3. ASSUME NEW k \in 0 .. S
      PROVE  at(k) \in 0 .. S - 1 /\ at(k) = IF c + k < S THEN c + k ELSE c + k - S
  BY SlotIs
<1>4. ASSUME NEW j \in 0 .. S - 1, NEW k \in 0 .. S - 1, j # k
      PROVE  at(j) # at(k)
  BY <1>4, SlotsDiffer
<1> HIDE DEF at
<1>5. at(0) = c /\ at(S) = c /\ 0 \in 0 .. S - 1
  <2>1. 0 \in 0 .. S /\ S \in 0 .. S /\ 0 \in 0 .. S - 1
    OBVIOUS
  <2>2. /\ at(0) = IF c + 0 < S THEN c + 0 ELSE c + 0 - S
        /\ at(S) = IF c + S < S THEN c + S ELSE c + S - S
    BY <1>3, <2>1
  <2> QED
    BY <2>1, <2>2
<1>6. w \in 0 .. S - 1
  <2> SUFFICES ASSUME w = S PROVE FALSE
    OBVIOUS
  <2>1. tx_ring[at(0)].own = (0 < w) /\ ~tx_ring[at(0)].own
    BY <1>1, <1>2, <1>5
  <2>2. ~(0 < w)
    BY <2>1, Zenon
  <2> QED
    BY <2>2
<1>7. /\ tx_ring \in [0 .. S - 1 -> TxDescriptor] /\ n \in Nat /\ passed \in Seq(Pcnet!Frame)
      /\ wire \in Seq(Pcnet!Frame) /\ e \in 0 .. S - 1 /\ txFrames \in Nat /\ txFrames + 1 \in Pcnet!Frame
  <2>1. e \in 0 .. S - 1
    <3>1. w \in 0 .. S
      OBVIOUS
    <3> QED
      BY <1>2, <1>3, <3>1
  <2>2. txFrames \in Nat /\ txFrames + 1 \in Pcnet!Frame
    BY <1>1, PcConstants DEF TxFollows, TxTypes, Pcnet!Frame
  <2> QED
    BY <2>1, <2>2, LenProperties DEF TxFollows, TxTypes, Pcnet!TxSlot
<1>8. /\ tx_ring' \in [0 .. S - 1 -> TxDescriptor]
      /\ tx_ring'[e].own = TRUE /\ tx_ring'[e].frame = txFrames + 1
      /\ \A j \in 0 .. S - 1 : j # e => tx_ring'[j] = tx_ring[j]
  BY <1>1, <1>7 DEF TxDescriptor
<1>9. /\ passed' \in Seq(Pcnet!Frame) /\ Len(passed') = n + (w + 1)
      /\ passed'[n + w + 1] = txFrames + 1
      /\ \A j \in 1 .. n + w : passed'[j] = passed[j]
  <2>1. /\ passed' \in Seq(Pcnet!Frame) /\ Len(passed') = Len(passed) + 1
        /\ passed'[Len(passed) + 1] = txFrames + 1
        /\ \A j \in 1 .. Len(passed) : passed'[j] = passed[j]
    BY <1>1, <1>7, AppendProperties
  <2>2. (n + w) + 1 = n + (w + 1) /\ (n + w) + 1 = n + w + 1
    BY <1>6, <1>7
  <2> QED
    BY <1>2, <2>1, <2>2
<1>10. ASSUME NEW k \in 0 .. S - 1
       PROVE  tx_ring'[at(k)].own = (k < w + 1)
  <2>1. CASE k = w
    <3>1. tx_ring'[at(k)].own = TRUE
      BY <1>2, <1>8, <2>1
    <3>2. (k < w + 1) = TRUE
      BY <1>6, <2>1
    <3> QED
      BY <3>1, <3>2, Zenon
  <2>2. CASE k # w
    <3>1. at(k) # e /\ at(k) \in 0 .. S - 1
      <4>1. k \in 0 .. S
        OBVIOUS
      <4> QED
        BY <1>2, <1>3, <1>4, <1>6, <2>2, <4>1
    <3>2. tx_ring'[at(k)].own = (k < w)
      BY <1>2, <1>8, <3>1
    <3>3. (k < w) = (k < w + 1)
      BY <1>6, <2>2
    <3> QED
      BY <3>2, <3>3
  <2> QED
    BY <2>1, <2>2
<1>11. ASSUME NEW k \in 0 .. w
       PROVE  tx_ring'[at(k)].frame = passed'[n + k + 1]
  <2>1. CASE k = w
    BY <1>2, <1>8, <1>9, <2>1
  <2>2. CASE k # w
    <3>1. k \in 0 .. w - 1 /\ k \in 0 .. S - 1 /\ k \in 0 .. S /\ n + k + 1 \in 1 .. n + w
      BY <1>6, <1>7, <2>2
    <3>2. at(k) # e /\ at(k) \in 0 .. S - 1
      BY <1>2, <1>3, <1>4, <1>6, <2>2, <3>1
    <3>3. tx_ring'[at(k)] = tx_ring[at(k)]
      BY <1>8, <3>2
    <3> QED
      BY <1>2, <1>9, <3>1, <3>3
  <2> QED
    BY <2>1, <2>2
<1>12. \A j \in 1 .. n : wire'[j] = passed'[j]
  <2> TAKE j \in 1 .. n
  <2>1. j \in 1 .. n + w
    BY <1>6, <1>7
  <2> QED
    BY <1>1, <1>2, <1>9, <2>1
<1>13. Pcnet!TxEntry' = at(w + 1) /\ cur_tx' \in 0 .. WRAP - 1
  <2>1. WRAP \in Nat \ {0} /\ WholeRounds(WRAP, S) /\ cur_tx \in 0 .. WRAP - 1
    BY PcConstants DEF TxFollows, TxTypes
  <2>2. /\ ((cur_tx + 1) % WRAP) \in 0 .. WRAP - 1
        /\ ((cur_tx + 1) % WRAP) % S = IF (cur_tx % S) = S - 1 THEN 0 ELSE (cur_tx % S) + 1
    BY <2>1, NextInRing
  <2>3. (cur_tx % S) = e
    BY DEF Pcnet!TxEntry
  <2>4. Pcnet!TxEntry' = IF e = S - 1 THEN 0 ELSE e + 1
    BY <1>1, <2>2, <2>3, Zenon DEF Pcnet!TxEntry
  <2>5. w \in 0 .. S /\ w + 1 \in 0 .. S
    BY <1>6
  <2>6. /\ at(w) = IF c + w < S THEN c + w ELSE c + w - S
        /\ at(w + 1) = IF c + (w + 1) < S THEN c + (w + 1) ELSE c + (w + 1) - S
    BY <1>3, <2>5
  <2>7. at(w + 1) = IF e = S - 1 THEN 0 ELSE e + 1
    <3>1. e = at(w) /\ e \in 0 .. S - 1
      BY <1>2, <1>7
    <3> QED
      BY <2>5, <2>6, <3>1
  <2> QED
    BY <1>1, <2>2, <2>4, <2>7
<1>14. TxTypes'
  <2>1. chipTx' \in 0 .. S - 1 /\ wire' \in Seq(Pcnet!Frame) /\ txFrames' \in Pcnet!Frame
    BY <1>1, <1>7
  <2> QED
    BY <1>8, <1>9, <1>13, <2>1 DEF TxTypes, Pcnet!TxSlot, Pcnet!Frame
<1>15. TxHeld(w + 1)'
  <2>1. (w + 1) - 1 = w
    BY <1>6
  <2>2. ~(sync_tx' /\ pc' # "wait" /\ result' = "sent")
    BY <1>1
  <2>3. Len(wire') = n
    BY <1>1
  <2>4. Len(passed') = Len(wire') + (w + 1)
    BY <1>9, <2>3
  <2>5. \A k \in 0 .. (w + 1) - 1 : TxAt(k)'.frame = passed'[Len(wire') + k + 1]
    BY <1>1, <1>11, <2>1, <2>3 DEF TxAt, at
  <2>6. \A k \in 0 .. TX_RING_SIZE - 1 : TxAt(k)'.own = (k < w + 1)
    BY <1>1, <1>10 DEF TxAt, at
  <2>7. \A j \in 1 .. Len(wire') : wire'[j] = passed'[j]
    BY <1>12, <2>3
  <2>8. Pcnet!TxEntry' = (chipTx' + (w + 1)) % TX_RING_SIZE
    BY <1>1, <1>13 DEF at
  <2> QED
    BY <2>2, <2>4, <2>5, <2>6, <2>7, <2>8 DEF TxHeld
<1>16. w + 1 \in 0 .. TX_RING_SIZE
  BY <1>6
<1> QED
  BY <1>14, <1>15, <1>16 DEF TxFollows

\* The end of a wait: success says that the chip has nothing left.
LEMMA TxWaits ==
  ASSUME TxFollows, Pcnet!WaitEnds
  PROVE  TxFollows'
<1> PICK w \in 0 .. TX_RING_SIZE : TxHeld(w)
  BY DEF TxFollows
<1> PICK S \in Nat \ {0} : S = TX_RING_SIZE
  BY PcConstants
<1> PICK c \in 0 .. S - 1 : c = chipTx
  BY DEF TxFollows, TxTypes, Pcnet!TxSlot
<1> PICK e \in 0 .. S - 1 : e = Pcnet!TxEntry
  BY NextInRing, PcConstants DEF TxFollows, TxTypes, Pcnet!TxEntry
<1> DEFINE l == Pcnet!LastTx
           at(k) == (c + k) % S
<1>1. l = IF e = 0 THEN S - 1 ELSE e - 1
  <2>1. WRAP \in Nat \ {0} /\ WholeRounds(WRAP, S) /\ cur_tx \in 0 .. WRAP - 1
    BY PcConstants DEF TxFollows, TxTypes
  <2>2. (cur_tx + WRAP - 1) % S = IF (cur_tx % S) = 0 THEN S - 1 ELSE (cur_tx % S) - 1
    BY <2>1, LastInRing
  <2>3. (cur_tx % S) = e
    BY DEF Pcnet!TxEntry
  <2> QED
    BY <2>2, <2>3, Zenon DEF Pcnet!LastTx
<1>2. l \in 0 .. S - 1
  BY <1>1
<1>3. w # 0 => tx_ring[l].own
  <2> SUFFICES ASSUME w # 0 PROVE tx_ring[l].own
    OBVIOUS
  <2>1. w \in 0 .. S /\ w - 1 \in 0 .. S /\ w - 1 \in 0 .. S - 1
    OBVIOUS
  <2>2. /\ at(w) = IF c + w < S THEN c + w ELSE c + w - S
        /\ at(w - 1) = IF c + (w - 1) < S THEN c + (w - 1) ELSE c + (w - 1) - S
    BY <2>1, SlotIs
  <2>3. at(w) = e
    BY DEF TxHeld
  <2> HIDE DEF at
  <2>4. at(w - 1) = l
    BY <1>1, <2>1, <2>2, <2>3
  <2>5. tx_ring[at(w - 1)].own = (w - 1 < w)
    BY <2>1 DEF TxHeld, TxAt, at
  <2>6. (w - 1 < w) = TRUE
    BY <2>1
  <2> QED
    BY <2>4, <2>5, <2>6, Zenon
<1> HIDE DEF l
<1>4. /\ pc = "wait" /\ pc' = "idle"
      /\ tx_ring' = tx_ring \/ tx_ring' = [tx_ring EXCEPT ![l].err = FALSE]
      /\ result' = "sent" => ~tx_ring[l].own
      /\ UNCHANGED <<sync_tx, cur_tx, chipTx, passed, wire, txFrames>>
  BY DEF Pcnet!WaitEnds, l
<1>5. /\ tx_ring' \in [Pcnet!TxSlot -> TxDescriptor]
      /\ \A j \in Pcnet!TxSlot : tx_ring'[j].own = tx_ring[j].own /\ tx_ring'[j].frame = tx_ring[j].frame
  <2>1. tx_ring \in [Pcnet!TxSlot -> TxDescriptor] /\ l \in Pcnet!TxSlot
    BY <1>2 DEF TxFollows, TxTypes, Pcnet!TxSlot
  <2>2. CASE tx_ring' = tx_ring
    BY <2>1, <2>2
  <2>3. CASE tx_ring' = [tx_ring EXCEPT ![l].err = FALSE]
    BY <2>1, <2>3 DEF TxDescriptor
  <2> QED
    BY <1>4, <2>2, <2>3
<1>6. \A k \in 0 .. S - 1 : at(k) \in Pcnet!TxSlot
  <2> TAKE k \in 0 .. S - 1
  <2>1. k \in 0 .. S
    OBVIOUS
  <2> QED
    BY <2>1, SlotIs DEF Pcnet!TxSlot
<1>7. \A k \in 0 .. S - 1 : TxAt(k)'.own = TxAt(k).own /\ TxAt(k)'.frame = TxAt(k).frame
  BY <1>4, <1>5, <1>6 DEF TxAt
<1>8. \A k \in 0 .. w - 1 : k \in 0 .. S - 1
  OBVIOUS
<1>9. TxTypes'
  BY <1>4, <1>5 DEF TxFollows, TxTypes
<1>10. TxHeld(w)'
  <2>1. Pcnet!TxEntry' = Pcnet!TxEntry
    BY <1>4 DEF Pcnet!TxEntry
  <2> QED
    BY <1>3, <1>4, <1>7, <1>8, <2>1 DEF TxHeld
<1> QED
  BY <1>9, <1>10 DEF TxFollows

\* The rings are set up: all descriptors are the driver's.
Unused == [j \in Pcnet!TxSlot |-> [own |-> FALSE, frame |-> 0, err |-> FALSE]]

LEMMA UnusedIs ==
  /\ Unused \in [Pcnet!TxSlot -> TxDescriptor] /\ 0 \in Pcnet!TxSlot /\ 0 \in 0 .. WRAP - 1
  /\ \A k \in 0 .. TX_RING_SIZE - 1 : Unused[(0 + k) % TX_RING_SIZE].own = (k < 0)
  /\ 0 = (0 + 0) % TX_RING_SIZE /\ 0 % TX_RING_SIZE = 0
  /\ <<>> \in Seq(Pcnet!Frame) /\ Len(<<>>) = 0 /\ \A k : k \notin 0 .. 0 - 1 /\ k \notin 1 .. 0
  /\ 0 \in 0 .. TX_RING_SIZE
<1> PICK S \in Nat \ {0} : S = TX_RING_SIZE
  BY PcConstants
<1>1. WRAP \in Nat \ {0} /\ 0 \in Pcnet!Frame
  BY PcConstants DEF Pcnet!Frame
<1>2. ASSUME NEW k \in 0 .. S - 1
      PROVE  Unused[(0 + k) % S].own = (k < 0)
  <2>1. k \in 0 .. S /\ 0 \in 0 .. S - 1
    OBVIOUS
  <2>2. (0 + k) % S \in 0 .. S - 1
    BY <2>1, SlotIs
  <2>3. Unused[(0 + k) % S].own = FALSE
    BY <2>2 DEF Unused, Pcnet!TxSlot
  <2>4. (k < 0) = FALSE
    OBVIOUS
  <2> QED
    BY <2>3, <2>4, Zenon
<1>3. 0 = (0 + 0) % S /\ 0 % S = 0
  OBVIOUS
<1>4. Unused \in [Pcnet!TxSlot -> TxDescriptor]
  BY <1>1 DEF Unused, TxDescriptor
<1>5. <<>> \in Seq(Pcnet!Frame) /\ Len(<<>>) = 0
  BY EmptySeq
<1>6. 0 \in Pcnet!TxSlot /\ 0 \in 0 .. WRAP - 1 /\ 0 \in 0 .. S
  BY <1>1 DEF Pcnet!TxSlot
<1>7. \A k : k \notin 0 .. 0 - 1 /\ k \notin 1 .. 0
  OBVIOUS
<1> QED
  BY <1>2, <1>3, <1>4, <1>5, <1>6, <1>7

LEMMA TxStaysInOrder ==
  ASSUME TxFollows, Pcnet!Next
  PROVE  TxFollows'
<1>1. CASE Pcnet!ChipSends
  BY <1>1, TxGoes
<1>2. CASE Pcnet!Transmit
  <2>1. CASE tx_ring[Pcnet!TxEntry].own
    BY <1>2, <2>1, TxUnmoved DEF Pcnet!Transmit
  <2>2. CASE ~tx_ring[Pcnet!TxEntry].own
    BY <1>2, <2>2, TxComes
  <2> QED
    BY <2>1, <2>2
<1>3. CASE Pcnet!Startup
  <2>1. /\ tx_ring' = Unused /\ cur_tx' = 0 /\ chipTx' = 0 /\ passed' = <<>> /\ wire' = <<>>
        /\ result' = "none" /\ txFrames' = txFrames
    BY <1>3 DEF Pcnet!Startup, Unused
  <2>2. TxTypes'
    BY <2>1, UnusedIs DEF TxFollows, TxTypes, Pcnet!TxSlot, TxDescriptor, Pcnet!Frame
  <2>3. Pcnet!TxEntry' = 0
    BY <2>1, UnusedIs DEF Pcnet!TxEntry
  <2>4. TxHeld(0)'
    BY <2>1, <2>3, UnusedIs DEF TxHeld, TxAt
  <2> QED
    BY <2>2, <2>4, UnusedIs DEF TxFollows
<1>4. CASE Pcnet!ChipReceives
  BY <1>4, TxUnmoved DEF Pcnet!ChipReceives, Pcnet!txVars
<1>5. CASE Pcnet!Stop
  BY <1>5, TxUnmoved DEF Pcnet!Stop, Pcnet!txVars
<1>6. CASE Pcnet!WaitEnds
  BY <1>6, TxWaits
<1>7. CASE Pcnet!Receive
  BY <1>7, TxUnmoved DEF Pcnet!Receive, Pcnet!txVars
<1>8. CASE Pcnet!ReceiveLoop
  BY <1>8, TxUnmoved DEF Pcnet!ReceiveLoop, Pcnet!txVars
<1>9. CASE Pcnet!TransmitLong
  BY <1>9, TxUnmoved DEF Pcnet!TransmitLong
<1> QED
  BY <1>1, <1>2, <1>3, <1>4, <1>5, <1>6, <1>7, <1>8, <1>9 DEF Pcnet!Next, Pcnet!Driver

\* The chip sends what it was given, in order and once; with sync_tx a transmission
\* that has succeeded is on the wire.
THEOREM IsSentInOrder == Spec => []SentInOrder
<1> DEFINE Inv == driver = "pcnet32" => TxFollows
<1>1. Init => Inv
  <2> SUFFICES ASSUME Pcnet!Init
               PROVE  TxFollows
    BY DEF Init
  <2>1. /\ tx_ring = Unused /\ cur_tx = 0 /\ chipTx = 0 /\ passed = <<>> /\ wire = <<>>
        /\ result = "none" /\ txFrames = 0
    BY DEF Pcnet!Init, Unused
  <2>2. TxTypes
    <3>1. 0 \in Pcnet!Frame
      BY PcConstants DEF Pcnet!Frame
    <3> QED
      BY <2>1, <3>1, UnusedIs DEF TxTypes
  <2>3. Pcnet!TxEntry = 0
    BY <2>1, UnusedIs DEF Pcnet!TxEntry
  <2>4. TxHeld(0)
    BY <2>1, <2>3, UnusedIs DEF TxHeld, TxAt
  <2> QED
    BY <2>2, <2>4, UnusedIs DEF TxFollows
<1>2. Inv /\ [Next]_vars => Inv'
  <2>1. CASE UNCHANGED vars
    BY <2>1 DEF vars, pcnetVars, TxFollows, TxTypes, TxHeld, TxAt, Pcnet!TxEntry
  <2>2. CASE Next
    BY <2>2, TxStaysInOrder DEF Next, OnlySmc, OnlyCs, OnlyNs, OnlyPcnet, Only
  <2> QED
    BY <2>1, <2>2
<1>3. Inv => SentInOrder
  <2> SUFFICES ASSUME TxFollows
               PROVE  Pcnet!SentInOrder
    BY DEF SentInOrder
  <2> PICK w \in 0 .. TX_RING_SIZE : TxHeld(w)
    BY DEF TxFollows
  <2> PICK n \in Nat : n = Len(wire)
    BY LenProperties DEF TxFollows, TxTypes
  <2>1. TX_RING_SIZE \in Nat /\ passed \in Seq(Pcnet!Frame) /\ wire \in Seq(Pcnet!Frame)
    BY PcConstants DEF TxFollows, TxTypes
  <2>2. Len(passed) = n + w
    BY DEF TxHeld
  <2>3. Len(passed) - Len(wire) = w
    BY <2>1, <2>2
  <2>4. wire = SubSeq(passed, 1, n)
    <3>1. \A j \in 1 .. n : passed[j] \in Pcnet!Frame
      BY <2>1, <2>2, ElementOfSeq
    <3>2. /\ SubSeq(passed, 1, n) \in Seq(Pcnet!Frame)
          /\ Len(SubSeq(passed, 1, n)) = IF 1 <= n THEN n - 1 + 1 ELSE 0
          /\ \A j \in 1 .. n - 1 + 1 : SubSeq(passed, 1, n)[j] = passed[1 + j - 1]
      BY <3>1, SubSeqProperties
    <3>3. /\ Len(SubSeq(passed, 1, n)) = n
          /\ \A j \in 1 .. n : SubSeq(passed, 1, n)[j] = wire[j]
      <4>1. n - 1 + 1 = n /\ \A j \in 1 .. n : 1 + j - 1 = j
        OBVIOUS
      <4>2. \A j \in 1 .. n : wire[j] = passed[j]
        BY DEF TxHeld
      <4> QED
        BY <3>2, <4>1, <4>2
    <3> QED
      BY <2>1, <3>2, <3>3, SeqEqual
  <2>5. \A k \in 0 .. w - 1 : tx_ring[(chipTx + k) % TX_RING_SIZE].frame = passed[Len(wire) + k + 1]
    BY DEF TxHeld, TxAt
  <2>6. sync_tx /\ pc = "idle" /\ result = "sent" => w = 0
    BY DEF TxHeld
  <2> QED
    BY <2>1, <2>3, <2>4, <2>5, <2>6 DEF Pcnet!SentInOrder
<1> QED
  BY <1>1, <1>2, <1>3, PTL DEF Spec

----------------------------------------------------------------------------
(* FrameQueue, which every driver implements: its state, and its steps *)

Whole == {Ns!Whole(k, n) : k \in 1 .. Most, n \in Lens \cup {1}}

QueueStep == [Queue!QueueNext]_<<WaitingNow, GotNow, OverrunNow>>

LEMMA Unmoved ==
  ASSUME WaitingNow' = WaitingNow, GotNow' = GotNow, OverrunNow' = OverrunNow
  PROVE  QueueStep
  BY DEF QueueStep

LEMMA Comes ==
  ASSUME NEW f \in Whole, f # GotNow, \A k \in 1 .. Len(WaitingNow) : WaitingNow[k] # f,
         WaitingNow' = Append(WaitingNow, f), GotNow' = GotNow, OverrunNow' = OverrunNow
  PROVE  QueueStep
  BY DEF QueueStep, Queue!QueueNext, Queue!Come, Whole

LEMMA IsPassedOn ==
  ASSUME WaitingNow # <<>>, GotNow' = Head(WaitingNow), WaitingNow' = Tail(WaitingNow),
         OverrunNow' = OverrunNow
  PROVE  QueueStep
  BY DEF QueueStep, Queue!QueueNext, Queue!PassOn

LEMMA Overruns ==
  ASSUME OverrunNow' = ~OverrunNow, WaitingNow' = WaitingNow, GotNow' = GotNow
  PROVE  QueueStep
  BY DEF QueueStep, Queue!QueueNext, Queue!Overrun

LEMMA LosesOldest ==
  ASSUME OverrunNow, WaitingNow # <<>>, WaitingNow' = Tail(WaitingNow), GotNow' = GotNow,
         OverrunNow' = OverrunNow
  PROVE  QueueStep
  BY DEF QueueStep, Queue!QueueNext, Queue!LoseOldest

LEMMA IsSetUp ==
  ASSUME WaitingNow' = <<>>, OverrunNow' = FALSE, GotNow' = GotNow
  PROVE  QueueStep
  BY DEF QueueStep, Queue!QueueNext, Queue!SetUp

----------------------------------------------------------------------------
(* Frames, and sequences of them *)

\* What F makes of the elements of a sequence.
Made(F, q) == [k \in 1 .. Len(q) |-> F[q[k]]]
All(F, S) == {F[x] : x \in S}

LEMMA MadeSeq ==
  ASSUME NEW S, NEW F, NEW q \in Seq(S)
  PROVE  Made(F, q) \in Seq(All(F, S)) /\ Len(Made(F, q)) = Len(q) /\ Len(q) \in Nat
<1>1. Len(q) \in Nat /\ \A k \in 1 .. Len(q) : q[k] \in S /\ F[q[k]] \in All(F, S)
  BY LenProperties, ElementOfSeq DEF All
<1>2. Made(F, q) \in [1 .. Len(q) -> All(F, S)]
  BY <1>1 DEF Made
<1>3. Made(F, q) \in Seq(All(F, S))
  BY <1>1, <1>2, SeqDef
<1> QED
  BY <1>1, <1>2, <1>3, LenProperties DEF Made

LEMMA MadeIs ==
  ASSUME NEW F, NEW q, NEW k \in 1 .. Len(q)
  PROVE  Made(F, q)[k] = F[q[k]]
  BY DEF Made

LEMMA MadeAppend ==
  ASSUME NEW S, NEW F, NEW q \in Seq(S), NEW x \in S
  PROVE  Made(F, Append(q, x)) = Append(Made(F, q), F[x])
<1> PICK p : p = Append(q, x)
  OBVIOUS
<1> PICK m : m = Made(F, q)
  OBVIOUS
<1>1. /\ p \in Seq(S) /\ Len(p) = Len(q) + 1 /\ Len(q) \in Nat
      /\ p[Len(q) + 1] = x /\ \A k \in 1 .. Len(q) : p[k] = q[k]
  BY AppendProperties, LenProperties
<1>2. /\ m \in Seq(All(F, S)) /\ Len(m) = Len(q) /\ \A k \in 1 .. Len(q) : m[k] = F[q[k]]
      /\ F[x] \in All(F, S)
  BY MadeSeq, MadeIs DEF All
<1>3. /\ Made(F, p) \in Seq(All(F, S)) /\ Len(Made(F, p)) = Len(p)
      /\ \A k \in 1 .. Len(p) : Made(F, p)[k] = F[p[k]]
  <2>0. p \in Seq(S)
    BY <1>1
  <2>1. Made(F, p) \in Seq(All(F, S)) /\ Len(Made(F, p)) = Len(p)
    BY <2>0, MadeSeq
  <2>2. \A k \in 1 .. Len(p) : Made(F, p)[k] = F[p[k]]
    BY DEF Made
  <2> QED
    BY <2>1, <2>2, Zenon
<1>4. /\ Append(m, F[x]) \in Seq(All(F, S)) /\ Len(Append(m, F[x])) = Len(m) + 1
      /\ Append(m, F[x])[Len(m) + 1] = F[x]
      /\ \A k \in 1 .. Len(m) : Append(m, F[x])[k] = m[k]
  BY <1>2, AppendProperties
<1>5. ASSUME NEW k \in 1 .. Len(p) PROVE Made(F, p)[k] = Append(m, F[x])[k]
  BY <1>1, <1>2, <1>3, <1>4
<1> QED
  BY <1>1, <1>2, <1>3, <1>4, <1>5, SeqEqual

LEMMA MadeTail ==
  ASSUME NEW S, NEW F, NEW q \in Seq(S), q # <<>>
  PROVE  /\ Made(F, q) # <<>> /\ Head(Made(F, q)) = F[Head(q)]
         /\ Made(F, Tail(q)) = Tail(Made(F, q))
<1> PICK p : p = Tail(q)
  OBVIOUS
<1> PICK m : m = Made(F, q)
  OBVIOUS
<1>1. /\ p \in Seq(S) /\ Len(p) = Len(q) - 1 /\ Len(q) \in Nat \ {0}
      /\ Head(q) = q[1] /\ \A k \in 1 .. Len(p) : p[k] = q[k + 1]
  BY HeadTailProperties, LenProperties, EmptySeq
<1>2. /\ m \in Seq(All(F, S)) /\ Len(m) = Len(q) /\ \A k \in 1 .. Len(q) : m[k] = F[q[k]]
  BY MadeSeq, MadeIs
<1>3. /\ Made(F, p) \in Seq(All(F, S)) /\ Len(Made(F, p)) = Len(p)
      /\ \A k \in 1 .. Len(p) : Made(F, p)[k] = F[p[k]]
  <2>0. p \in Seq(S)
    BY <1>1
  <2>1. Made(F, p) \in Seq(All(F, S)) /\ Len(Made(F, p)) = Len(p)
    BY <2>0, MadeSeq
  <2>2. \A k \in 1 .. Len(p) : Made(F, p)[k] = F[p[k]]
    BY DEF Made
  <2> QED
    BY <2>1, <2>2, Zenon
<1>4. m # <<>>
  BY <1>1, <1>2, EmptySeq
<1>5. /\ Tail(m) \in Seq(All(F, S)) /\ Len(Tail(m)) = Len(m) - 1 /\ Head(m) = m[1]
      /\ \A k \in 1 .. Len(Tail(m)) : Tail(m)[k] = m[k + 1]
  BY <1>2, <1>4, HeadTailProperties
<1>6. ASSUME NEW k \in 1 .. Len(p) PROVE Made(F, p)[k] = Tail(m)[k]
  <2>1. k \in 1 .. Len(Tail(m)) /\ k + 1 \in 1 .. Len(q)
    BY <1>1, <1>2, <1>5
  <2>2. Tail(m)[k] = F[q[k + 1]] /\ Made(F, p)[k] = F[p[k]] /\ p[k] = q[k + 1]
    BY <1>1, <1>2, <1>3, <1>5, <2>1
  <2> QED
    BY <2>2
<1>7. Made(F, p) = Tail(m)
  BY <1>1, <1>2, <1>3, <1>5, <1>6, SeqEqual
<1>8. Head(m) = F[Head(q)]
  BY <1>1, <1>2, <1>5
<1> QED
  BY <1>4, <1>7, <1>8

\* Three of the drivers count a frame as one page.
Ones == [n \in Nat |-> One(n)]

LEMMA EachIs ==
  ASSUME NEW q \in Seq(Nat)
  PROVE  /\ Each(q) = Made(Ones, q)
         /\ Len(Each(q)) = Len(q) /\ \A k \in 1 .. Len(q) : Each(q)[k] = One(q[k])
<1>1. Len(q) \in Nat /\ \A k \in 1 .. Len(q) : q[k] \in Nat
  BY LenProperties, ElementOfSeq
<1>2. \A k \in 1 .. Len(q) : Ones[q[k]] = One(q[k])
  BY <1>1 DEF Ones
<1>3. Each(q) = Made(Ones, q)
  BY <1>2 DEF Each, Made
<1>4. Len(Made(Ones, q)) = Len(q)
  BY MadeSeq
<1>5. \A k \in 1 .. Len(q) : Made(Ones, q)[k] = Ones[q[k]]
  BY MadeIs
<1> QED
  BY <1>2, <1>3, <1>4, <1>5

LEMMA EachGrows ==
  ASSUME NEW q \in Seq(Nat), NEW n \in Nat
  PROVE  Each(Append(q, n)) = Append(Each(q), One(n))
<1>1. Ones[n] = One(n)
  BY DEF Ones
<1>2. Append(q, n) \in Seq(Nat)
  BY AppendProperties
<1>3. Made(Ones, Append(q, n)) = Append(Made(Ones, q), Ones[n])
  BY MadeAppend
<1> QED
  BY <1>1, <1>2, <1>3, EachIs, Zenon

LEMMA EachGoes ==
  ASSUME NEW q \in Seq(Nat), q # <<>>
  PROVE  Each(q) # <<>> /\ Head(Each(q)) = One(Head(q)) /\ Each(Tail(q)) = Tail(Each(q))
<1>1. Tail(q) \in Seq(Nat) /\ Head(q) \in Nat
  BY HeadTailProperties
<1>2. Ones[Head(q)] = One(Head(q))
  BY <1>1 DEF Ones
<1>3. Each(q) = Made(Ones, q) /\ Each(Tail(q)) = Made(Ones, Tail(q))
  BY <1>1, EachIs
<1>4. /\ Made(Ones, q) # <<>> /\ Head(Made(Ones, q)) = Ones[Head(q)]
      /\ Made(Ones, Tail(q)) = Tail(Made(Ones, q))
  BY MadeTail
<1> QED
  BY <1>2, <1>3, <1>4, Zenon

LEMMA EachOfNone == Each(<<>>) = <<>>
  BY DEF Each

LEMMA WholeDiffers ==
  ASSUME NEW j \in Nat, NEW k \in Nat, j # k, NEW m \in Nat \ {0}, NEW n \in Nat
  PROVE  Ns!Whole(j, m) # Ns!Whole(k, n) /\ Ns!Whole(j, m) # <<>>
<1>1. 1 \in 1 .. m
  OBVIOUS
<1>2. DOMAIN Ns!Whole(j, m) = 1 .. m /\ Ns!Whole(j, m)[1] = <<j, 1>>
  BY <1>1 DEF Ns!Whole
<1>3. 1 \in 1 .. n => Ns!Whole(k, n)[1] = <<k, 1>>
  BY DEF Ns!Whole
<1>4. DOMAIN Ns!Whole(k, n) = 1 .. n
  BY DEF Ns!Whole
<1>5. DOMAIN <<>> = {}
  OBVIOUS
<1> QED
  BY <1>1, <1>2, <1>3, <1>4, <1>5

LEMMA OneDiffers ==
  ASSUME NEW j \in Nat, NEW k \in Nat, j # k, j # 0
  PROVE  One(j) # One(k)
<1>1. One(j) = Ns!Whole(j, 1)
  BY DEF One
<1>2. One(k) = <<>> \/ One(k) = Ns!Whole(k, 1)
  BY DEF One
<1> QED
  BY <1>1, <1>2, WholeDiffers

LEMMA MostIs ==
  /\ Most \in Nat
  /\ NsFrames \in 0 .. Most /\ PcnetFrames \in 0 .. Most /\ SmcFrames \in 0 .. Most /\ CsFrames \in 0 .. Most
<1> DEFINE B == {NsFrames, PcnetFrames, SmcFrames, CsFrames}
<1>1. NsFrames \in Nat /\ PcnetFrames \in Nat /\ SmcFrames \in Nat /\ CsFrames \in Nat
  BY EthernetConstantsOK DEF Ns!RingConstantsOK, Pcnet!DescriptorConstantsOK, Smc!SmcConstantsOK,
     Cs!Cs89x0ConstantsOK
<1>2. \E m \in B : \A n \in B : n <= m
  BY <1>1
<1>3. Most \in B /\ \A n \in B : n <= Most
  BY <1>2 DEF Most
<1> QED
  BY <1>1, <1>3

\* A frame that comes with a new number is a new frame.
LEMMA OneMoreComes ==
  ASSUME driver # "ns8390", NEW q \in Seq(Nat), WaitingNow = Each(q), NEW n \in 1 .. Most,
         got \in Nat, got < n, \A k \in 1 .. Len(q) : q[k] < n,
         WaitingNow' = Each(Append(q, n)), GotNow' = GotNow, OverrunNow' = OverrunNow
  PROVE  QueueStep
<1>1. n \in Nat \ {0} /\ Len(q) \in Nat /\ \A k \in 1 .. Len(q) : q[k] \in Nat
  BY MostIs, LenProperties, ElementOfSeq
<1>2. One(n) \in Whole
  BY <1>1 DEF One, Whole
<1>3. One(n) # GotNow
  BY <1>1, OneDiffers DEF GotNow
<1>4. ASSUME NEW k \in 1 .. Len(WaitingNow) PROVE WaitingNow[k] # One(n)
  <2>1. k \in 1 .. Len(q) /\ WaitingNow[k] = One(q[k])
    BY EachIs
  <2> QED
    BY <1>1, <2>1, OneDiffers
<1>5. WaitingNow' = Append(WaitingNow, One(n))
  BY <1>1, EachGrows
<1> QED
  BY <1>2, <1>3, <1>4, <1>5, Comes

----------------------------------------------------------------------------
(* The PCNET32 *)

\* The frames in the ring and the one passed on last have come.
PcnetKnown ==
  /\ got \in Nat /\ got <= rxFrames
  /\ \A k \in 1 .. Len(arrived) : arrived[k] <= rxFrames

LEMMA PcnetSeen ==
  /\ driver = "pcnet32" => WaitingNow = Each(arrived) /\ GotNow = One(got) /\ OverrunNow = FALSE
  /\ driver' = "pcnet32" => WaitingNow' = Each(arrived') /\ GotNow' = One(got') /\ OverrunNow' = FALSE
<1>1. "pcnet32" # "ns8390"
  OBVIOUS
<1>2. driver = "pcnet32" => WaitingNow = Each(arrived) /\ GotNow = One(got) /\ OverrunNow = FALSE
  BY <1>1 DEF WaitingNow, GotNow, OverrunNow
<1>3. driver' = "pcnet32" => WaitingNow' = Each(arrived') /\ GotNow' = One(got') /\ OverrunNow' = FALSE
  BY <1>1 DEF WaitingNow, GotNow, OverrunNow
<1> QED
  BY <1>2, <1>3

\* A good frame in the first descriptor that the driver has is the first that waits.
LEMMA PcnetFirst ==
  ASSUME RxFollows, ~rx_ring[Pcnet!RxEntry].own, rx_ring[Pcnet!RxEntry].kind = "good"
  PROVE  arrived # <<>> /\ Head(arrived) = rx_ring[Pcnet!RxEntry].frame
<1> PICK m \in 0 .. RX_RING_SIZE : RxHeld(m)
  BY DEF RxFollows
<1> PICK S \in Nat \ {0} : S = RX_RING_SIZE
  BY PcConstants
<1> PICK e \in 0 .. S - 1 : e = Pcnet!RxEntry
  BY RxEntryIs DEF RxFollows
<1> DEFINE g == Pcnet!GoodFrom(rx_ring, e)
<1>1. (e + 0) % S = e
  <2>1. 0 \in 0 .. S
    OBVIOUS
  <2>2. (e + 0) % S = IF e + 0 < S THEN e + 0 ELSE e + 0 - S
    BY <2>1, SlotIs
  <2> QED
    BY <2>2
<1>2. RxAt(0) = rx_ring[e]
  BY <1>1 DEF RxAt
<1>3. m # 0
  <2> SUFFICES ASSUME m = 0 PROVE FALSE
    OBVIOUS
  <2>1. 0 \in 0 .. S - 1 /\ (0 >= 0) = TRUE
    OBVIOUS
  <2>2. RxAt(0).own = (0 >= 0)
    BY <2>1 DEF RxHeld
  <2> QED
    BY <1>2, <2>1, <2>2, Zenon
<1>4. /\ g[0] = 0 /\ \A k \in 0 .. S : g[k] \in Nat
      /\ \A k \in 0 .. S - 1 : g[k + 1] = g[k] + (IF rx_ring[(e + k) % S].kind = "good" THEN 1 ELSE 0)
  BY GoodNext
<1>5. g[1] <= g[m]
  <2>1. 1 \in 0 .. S /\ 1 <= m
    BY <1>3
  <2> QED
    BY <2>1, GoodGrows
<1>6. Len(arrived) = g[m] /\ arrived[g[0] + 1] = rx_ring[e].frame
  <2>1. 0 \in 0 .. m - 1
    BY <1>3
  <2> QED
    BY <1>2, <2>1 DEF RxHeld, RxGood
<1> HIDE DEF g
<1>7. g[1] = 1
  <2>1. 0 \in 0 .. S - 1 /\ 0 + 1 = 1
    OBVIOUS
  <2>2. g[0 + 1] = g[0] + (IF rx_ring[(e + 0) % S].kind = "good" THEN 1 ELSE 0)
    BY <1>4, <2>1
  <2> QED
    BY <1>1, <1>4, <2>1, <2>2
<1>8. Len(arrived) # 0 /\ arrived[1] = rx_ring[e].frame
  BY <1>4, <1>5, <1>6, <1>7
<1>9. arrived \in Seq(Pcnet!Frame)
  BY DEF RxFollows, RxTypes
<1> QED
  BY <1>8, <1>9, EmptySeq, HeadTailProperties

LEMMA PcnetPassesOn ==
  ASSUME driver = "pcnet32", driver' = "pcnet32", RxFollows, PcnetKnown, Pcnet!Next
  PROVE  PcnetKnown' /\ QueueStep
<1>0. /\ rxFrames \in Nat /\ rxFrames <= PcnetFrames /\ PcnetFrames \in Nat /\ PcnetFrames <= Most /\ Most \in Nat
      /\ arrived \in Seq(Nat)
  BY MostIs, PcConstants DEF RxFollows, RxTypes, Pcnet!Frame
<1>1. CASE UNCHANGED <<arrived, got, rxFrames>>
  BY <1>1, PcnetSeen, Unmoved DEF PcnetKnown
<1>2. CASE Pcnet!ChipReceives
  <2>1. PICK n \in 1 .. Most : n = rxFrames + 1
    BY <1>0, <1>2 DEF Pcnet!ChipReceives
  <2>2. /\ rxFrames < PcnetFrames /\ rxFrames' = n /\ got' = got
        /\ arrived' = arrived \/ arrived' = Append(arrived, n)
    BY <1>2, <2>1 DEF Pcnet!ChipReceives
  <2>3. CASE arrived' = arrived
    <3>1. PcnetKnown'
      <4>1. \A k \in 1 .. Len(arrived) : arrived[k] \in Nat
        BY <1>0, ElementOfSeq
      <4> QED
        BY <1>0, <2>1, <2>2, <2>3, <4>1 DEF PcnetKnown
    <3> QED
      BY <2>2, <2>3, <3>1, PcnetSeen, Unmoved
  <2>4. CASE arrived' = Append(arrived, n)
    <3>1. /\ n \in Nat /\ Len(arrived') = Len(arrived) + 1 /\ Len(arrived) \in Nat
          /\ arrived'[Len(arrived) + 1] = n /\ \A k \in 1 .. Len(arrived) : arrived'[k] = arrived[k]
      BY <1>0, <2>1, <2>4, AppendProperties, LenProperties
    <3>2. \A k \in 1 .. Len(arrived) : arrived[k] \in Nat /\ arrived[k] < n
      BY <1>0, <2>1, ElementOfSeq DEF PcnetKnown
    <3>3. got \in Nat /\ got < n
      BY <1>0, <2>1 DEF PcnetKnown
    <3>4. \A k \in 1 .. Len(arrived') : arrived'[k] <= n
      BY <3>1, <3>2
    <3>5. PcnetKnown'
      BY <2>2, <3>1, <3>3, <3>4 DEF PcnetKnown
    <3>6. QueueStep
      BY <1>0, <2>2, <2>4, <3>2, <3>3, PcnetSeen, OneMoreComes
    <3> QED
      BY <3>5, <3>6
  <2> QED
    BY <2>2, <2>3, <2>4
<1>3. CASE Pcnet!Startup
  <2>1. arrived' = <<>> /\ got' = got /\ rxFrames' = rxFrames
    BY <1>3 DEF Pcnet!Startup
  <2>2. PcnetKnown'
    BY <2>1 DEF PcnetKnown
  <2>3. WaitingNow' = <<>> /\ GotNow' = GotNow /\ OverrunNow' = FALSE
    BY <2>1, PcnetSeen, EachOfNone
  <2> QED
    BY <2>2, <2>3, IsSetUp
<1>4. CASE Pcnet!ReceiveLoop /\ ~UNCHANGED <<arrived, got, rxFrames>>
  <2>1. /\ arrived # <<>> /\ got' = Head(arrived) /\ arrived' = Tail(arrived) /\ rxFrames' = rxFrames
    BY <1>4, PcnetFirst DEF Pcnet!ReceiveLoop
  <2>2. /\ Head(arrived) = arrived[1] /\ Len(arrived) \in Nat \ {0} /\ arrived[1] \in Nat
        /\ Len(arrived') = Len(arrived) - 1
        /\ \A k \in 1 .. Len(arrived') : arrived'[k] = arrived[k + 1]
    BY <1>0, <2>1, HeadTailProperties, LenProperties, EmptySeq, ElementOfSeq
  <2>3. PcnetKnown'
    <3>1. arrived[1] <= rxFrames
      BY <2>2 DEF PcnetKnown
    <3>2. \A k \in 1 .. Len(arrived') : arrived'[k] <= rxFrames
      BY <2>2 DEF PcnetKnown
    <3> QED
      BY <2>1, <2>2, <3>1, <3>2 DEF PcnetKnown
  <2>4. QueueStep
    BY <1>0, <2>1, EachGoes, PcnetSeen, IsPassedOn
  <2> QED
    BY <2>3, <2>4
<1> QED
  BY <1>1, <1>2, <1>3, <1>4 DEF Pcnet!Next, Pcnet!Driver, Pcnet!ChipSends, Pcnet!Stop, Pcnet!Transmit,
     Pcnet!TransmitLong, Pcnet!WaitEnds, Pcnet!Receive, Pcnet!rxVars
----------------------------------------------------------------------------
(* The CS89x0 *)

CsKnown ==
  /\ eth_nic_base \in Ports \cup {NoPort} /\ frames \in 0 .. CsFrames
  /\ got \in Nat /\ got <= frames
  /\ rx \in [Ports -> Seq(Nat)]
  /\ \A p \in Ports : \A k \in 1 .. Len(rx[p]) : rx[p][k] <= frames

LEMMA CsSeen ==
  /\ driver = "cs89x0" => WaitingNow = Each(Cs!Waiting) /\ GotNow = One(got) /\ OverrunNow = FALSE
  /\ driver' = "cs89x0" => WaitingNow' = Each(Cs!Waiting') /\ GotNow' = One(got') /\ OverrunNow' = FALSE
<1>1. "cs89x0" # "ns8390"
  OBVIOUS
<1>2. driver = "cs89x0" => WaitingNow = Each(Cs!Waiting) /\ GotNow = One(got) /\ OverrunNow = FALSE
  BY <1>1 DEF WaitingNow, GotNow, OverrunNow
<1>3. driver' = "cs89x0" => WaitingNow' = Each(Cs!Waiting') /\ GotNow' = One(got') /\ OverrunNow' = FALSE
  BY <1>1 DEF WaitingNow, GotNow, OverrunNow
<1> QED
  BY <1>2, <1>3

\* What a chip has received goes when the driver finds it.
LEMMA CsIdentified ==
  ASSUME driver = "cs89x0", driver' = "cs89x0", CsKnown, NEW p \in Ports, Cs!Identify(p),
         frames' = frames, got' = got
  PROVE  CsKnown' /\ QueueStep
<1>1. eth_nic_base' = p /\ rx' = [rx EXCEPT ![p] = <<>>] /\ NoPort \notin Ports
  BY EthernetConstantsOK DEF Cs!Identify, Cs!Cs89x0ConstantsOK
<1>2. /\ rx' \in [Ports -> Seq(Nat)] /\ rx'[p] = <<>> /\ \A r \in Ports : r # p => rx'[r] = rx[r]
      /\ \A k : k \notin 1 .. Len(<<>>)
  BY <1>1, EmptySeq DEF CsKnown
<1>3. CsKnown'
  <2>1. ASSUME NEW r \in Ports, NEW k \in 1 .. Len(rx'[r]) PROVE rx'[r][k] <= frames
    <3>1. r # p
      BY <1>2
    <3> QED
      BY <1>2, <3>1 DEF CsKnown
  <2> QED
    BY <1>1, <1>2, <2>1 DEF CsKnown
<1>4. Cs!Waiting' = <<>>
  BY <1>1, <1>2 DEF Cs!Waiting
<1>5. WaitingNow' = <<>> /\ GotNow' = GotNow /\ OverrunNow' = FALSE
  BY <1>4, CsSeen, EachOfNone
<1> QED
  BY <1>3, <1>5, IsSetUp

LEMMA CsComes ==
  ASSUME driver = "cs89x0", driver' = "cs89x0", CsKnown, Cs!FrameComes
  PROVE  CsKnown' /\ QueueStep
<1>0. CsFrames \in Nat /\ CsFrames <= Most /\ Most \in Nat /\ frames \in Nat
  BY MostIs, EthernetConstantsOK DEF Cs!Cs89x0ConstantsOK, CsKnown
<1>1. PICK n \in 1 .. Most : n = frames + 1
  BY <1>0 DEF Cs!FrameComes
<1>2. PICK p : rx' = [rx EXCEPT ![p] = Append(@, n)]
  BY <1>1 DEF Cs!FrameComes
<1>3. frames' = n /\ frames < CsFrames /\ UNCHANGED <<eth_nic_base, got>> /\ n \in Nat
  BY <1>1 DEF Cs!FrameComes, Cs!config
<1>4. \A r \in Ports : /\ rx[r] \in Seq(Nat) /\ Len(rx[r]) \in Nat
                       /\ \A k \in 1 .. Len(rx[r]) : rx[r][k] \in Nat /\ rx[r][k] < n
  <2>1. \A r \in Ports : rx[r] \in Seq(Nat)
    BY DEF CsKnown
  <2>2. \A r \in Ports : Len(rx[r]) \in Nat /\ \A k \in 1 .. Len(rx[r]) : rx[r][k] \in Nat
    BY <2>1, LenProperties, ElementOfSeq
  <2>3. \A r \in Ports : \A k \in 1 .. Len(rx[r]) : rx[r][k] <= frames
    BY DEF CsKnown
  <2> QED
    BY <1>0, <1>1, <2>1, <2>2, <2>3
<1>5. /\ rx' \in [Ports -> Seq(Nat)]
      /\ \A r \in Ports : rx'[r] = IF r = p THEN Append(rx[p], n) ELSE rx[r]
  <2>1. p \in Ports => Append(rx[p], n) \in Seq(Nat)
    BY <1>3, <1>4, AppendProperties
  <2>2. rx \in [Ports -> Seq(Nat)]
    BY DEF CsKnown
  <2> QED
    BY <1>2, <2>1, <2>2
<1>6. ASSUME NEW r \in Ports, NEW k \in 1 .. Len(rx'[r]) PROVE rx'[r][k] <= n
  <2>1. CASE r = p
    <3>1. rx'[r] = Append(rx[r], n)
      BY <1>5, <2>1, Zenon
    <3>2. rx[r] \in Seq(Nat) /\ Len(rx[r]) \in Nat
      BY <1>4
    <3> PICK a : a = Append(rx[r], n)
      OBVIOUS
    <3>3. /\ Len(a) = Len(rx[r]) + 1 /\ a[Len(rx[r]) + 1] = n
          /\ \A j \in 1 .. Len(rx[r]) : a[j] = rx[r][j]
      BY <1>3, <3>2, AppendProperties
    <3>4. k \in 1 .. Len(a) /\ rx'[r][k] = a[k]
      BY <3>1, Zenon
    <3> QED
      BY <1>3, <1>4, <3>2, <3>3, <3>4
  <2>2. CASE r # p
    BY <1>3, <1>4, <1>5, <2>2
  <2> QED
    BY <2>1, <2>2
<1>7. got \in Nat /\ got < n
  BY <1>0, <1>1 DEF CsKnown
<1>8. CsKnown'
  <2>1. eth_nic_base' \in Ports \cup {NoPort} /\ frames' \in 0 .. CsFrames
    BY <1>0, <1>1, <1>3 DEF CsKnown
  <2> QED
    BY <1>3, <1>5, <1>6, <1>7, <2>1 DEF CsKnown
<1>9. CASE eth_nic_base \in Ports /\ eth_nic_base = p
  <2>1. Cs!Waiting = rx[p] /\ Cs!Waiting' = Append(rx[p], n)
    BY <1>3, <1>5, <1>9, EthernetConstantsOK DEF Cs!Waiting, Cs!Cs89x0ConstantsOK
  <2>2. WaitingNow = Each(rx[p]) /\ WaitingNow' = Each(Append(rx[p], n)) /\ GotNow' = GotNow
        /\ OverrunNow' = OverrunNow
    BY <1>3, <2>1, CsSeen
  <2>3. driver # "ns8390"
    OBVIOUS
  <2>4. rx[p] \in Seq(Nat) /\ \A k \in 1 .. Len(rx[p]) : rx[p][k] < n
    BY <1>4, <1>9
  <2>5. QueueStep
    BY <1>7, <2>2, <2>3, <2>4, OneMoreComes
  <2> QED
    BY <1>8, <2>5
<1>10. CASE ~(eth_nic_base \in Ports /\ eth_nic_base = p)
  <2>1. Cs!Waiting' = Cs!Waiting
    BY <1>3, <1>5, <1>10 DEF Cs!Waiting, CsKnown
  <2> QED
    BY <1>3, <1>8, <2>1, CsSeen, Unmoved
<1> QED
  BY <1>9, <1>10

LEMMA CsReceives ==
  ASSUME driver = "cs89x0", driver' = "cs89x0", CsKnown, Cs!Receive
  PROVE  CsKnown' /\ QueueStep
<1>1. /\ eth_nic_base \in Ports /\ eth_nic_base' = eth_nic_base /\ frames' = frames /\ NoPort \notin Ports
  BY EthernetConstantsOK DEF Cs!Receive, Cs!config, CsKnown, Cs!Cs89x0ConstantsOK
<1> PICK p \in Ports : p = eth_nic_base
  BY <1>1
<1>2. CASE rx[p] = <<>>
  <2>1. rx' = rx /\ got' = got
    BY <1>2 DEF Cs!Receive
  <2>2. CsKnown' /\ Cs!Waiting' = Cs!Waiting
    BY <1>1, <2>1 DEF CsKnown, Cs!Waiting
  <2> QED
    BY <2>1, <2>2, CsSeen, Unmoved
<1>3. CASE rx[p] # <<>>
  <2>1. rx' = [rx EXCEPT ![p] = Tail(@)] /\ got' = Head(rx[p])
    BY <1>3 DEF Cs!Receive
  <2>2. rx \in [Ports -> Seq(Nat)] /\ rx[p] \in Seq(Nat)
    BY DEF CsKnown
  <2>3. /\ Tail(rx[p]) \in Seq(Nat) /\ Head(rx[p]) = rx[p][1] /\ Len(rx[p]) \in Nat \ {0} /\ rx[p][1] \in Nat
        /\ Len(Tail(rx[p])) = Len(rx[p]) - 1
        /\ \A k \in 1 .. Len(Tail(rx[p])) : Tail(rx[p])[k] = rx[p][k + 1]
    BY <1>3, <2>2, HeadTailProperties, LenProperties, EmptySeq, ElementOfSeq
  <2>4. /\ rx' \in [Ports -> Seq(Nat)] /\ rx'[p] = Tail(rx[p])
        /\ \A r \in Ports : r # p => rx'[r] = rx[r]
    BY <2>1, <2>2, <2>3
  <2>5. ASSUME NEW r \in Ports, NEW k \in 1 .. Len(rx'[r]) PROVE rx'[r][k] <= frames
    <3>1. CASE r = p
      <4> PICK t : t = Tail(rx[p])
        OBVIOUS
      <4>1. rx'[r] = t
        BY <2>4, <3>1, Zenon
      <4>2. k \in 1 .. Len(t) /\ rx'[r][k] = t[k]
        BY <4>1, Zenon
      <4>3. Len(rx[p]) \in Nat \ {0} /\ Len(t) = Len(rx[p]) - 1
            /\ \A j \in 1 .. Len(t) : t[j] = rx[p][j + 1]
        BY <2>3
      <4>4. k + 1 \in 1 .. Len(rx[p]) /\ t[k] = rx[p][k + 1]
        BY <4>2, <4>3
      <4>5. rx[p][k + 1] <= frames
        BY <4>4 DEF CsKnown
      <4> QED
        BY <4>2, <4>4, <4>5
    <3>2. CASE r # p
      BY <2>4, <3>2 DEF CsKnown
    <3> QED
      BY <3>1, <3>2
  <2>6. got' \in Nat /\ got' <= frames
    BY <2>1, <2>3 DEF CsKnown
  <2>7. CsKnown'
    BY <1>1, <2>4, <2>5, <2>6 DEF CsKnown
  <2>8. Cs!Waiting = rx[p] /\ Cs!Waiting' = Tail(rx[p])
    BY <1>1, <2>4 DEF Cs!Waiting
  <2>9. /\ WaitingNow # <<>> /\ GotNow' = Head(WaitingNow) /\ WaitingNow' = Tail(WaitingNow)
        /\ OverrunNow' = OverrunNow
    BY <1>3, <2>1, <2>2, <2>8, EachGoes, CsSeen
  <2> QED
    BY <2>7, <2>9, IsPassedOn
<1> QED
  BY <1>2, <1>3

LEMMA CsPassesOn ==
  ASSUME driver = "cs89x0", driver' = "cs89x0", CsKnown, Cs!Next
  PROVE  CsKnown' /\ QueueStep
<1>1. CASE UNCHANGED <<rx, frames, eth_nic_base, got>>
  <2>1. CsKnown' /\ Cs!Waiting' = Cs!Waiting
    BY <1>1 DEF CsKnown, Cs!Waiting
  <2> QED
    BY <1>1, <2>1, CsSeen, Unmoved
<1>2. CASE Cs!Restart
  <2>1. eth_nic_base' = NoPort /\ UNCHANGED <<rx, frames, got>>
    BY <1>2 DEF Cs!Restart, Cs!chips
  <2>2. CsKnown' /\ Cs!Waiting' = <<>>
    BY <2>1 DEF CsKnown, Cs!Waiting
  <2>3. WaitingNow' = <<>> /\ GotNow' = GotNow /\ OverrunNow' = FALSE
    BY <2>1, <2>2, CsSeen, EachOfNone
  <2> QED
    BY <2>2, <2>3, IsSetUp
<1>3. CASE \E p \in Ports : Cs!NoConfiguration(p) \/ Cs!Reject(p) \/ Cs!Found(p)
  <2>1. PICK p \in Ports : Cs!Identify(p) /\ frames' = frames /\ got' = got
    BY <1>3 DEF Cs!NoConfiguration, Cs!Reject, Cs!Found, Cs!Configure
  <2> QED
    BY <2>1, CsIdentified
<1>4. CASE Cs!FrameComes \/ Cs!Receive
  BY <1>4, CsComes, CsReceives
<1> QED
  BY <1>1, <1>2, <1>3, <1>4 DEF Cs!Next, Cs!Driver, Cs!Probe, Cs!FrameGoes, Cs!CablePlugged, Cs!Call, Cs!Transmit,
     Cs!NotThere, Cs!NotFound, Cs!SetRegisters, Cs!Bid, Cs!SendingEnds, Cs!chips, Cs!config
----------------------------------------------------------------------------
(* The SMC91xx *)

\* f[k] is the good ones of the first k frames of q.
IsGood(f, n, q) ==
  f = [k \in 0 .. n |-> IF k = 0 THEN <<>> ELSE IF q[k].good THEN Append(f[k - 1], q[k].id) ELSE f[k - 1]]

LEMMA GoodExists ==
  ASSUME NEW m \in Nat, NEW q
  PROVE  \E f : IsGood(f, m, q)
<1> DEFINE S == {n \in Nat : \E f : IsGood(f, n, q)}
<1>1. 0 \in S
  <2> DEFINE f == [k \in 0 .. 0 |-> <<>>]
  <2>1. IsGood(f, 0, q)
    BY DEF IsGood
  <2> QED BY <2>1
<1>2. ASSUME NEW n \in Nat, n \in S PROVE n + 1 \in S
  <2>1. PICK f : IsGood(f, n, q)
    BY <1>2
  <2> DEFINE more == IF q[n + 1].good THEN Append(f[n], q[n + 1].id) ELSE f[n]
  <2> DEFINE g == [k \in 0 .. n + 1 |-> IF k = n + 1 THEN more ELSE f[k]]
  <2>2. ASSUME NEW k \in 0 .. n + 1
        PROVE  g[k] = IF k = 0 THEN <<>> ELSE IF q[k].good THEN Append(g[k - 1], q[k].id) ELSE g[k - 1]
    <3>1. CASE k = n + 1
      <4>1. g[n + 1] = more /\ g[n] = f[n]
        OBVIOUS
      <4> QED
        BY <3>1, <4>1
    <3>2. CASE k # n + 1
      <4>1. g[k] = f[k] /\ (k # 0 => g[k - 1] = f[k - 1]) /\ k \in 0 .. n
        BY <3>2
      <4> HIDE DEF g
      <4>2. f[k] = IF k = 0 THEN <<>> ELSE IF q[k].good THEN Append(f[k - 1], q[k].id) ELSE f[k - 1]
        BY <2>1, <4>1 DEF IsGood
      <4> QED
        BY <4>1, <4>2
    <3> QED
      BY <3>1, <3>2
  <2>3. DOMAIN g = 0 .. n + 1 /\ g = [k \in DOMAIN g |-> g[k]]
    OBVIOUS
  <2> HIDE DEF g
  <2>4. IsGood(g, n + 1, q)
    BY <2>2, <2>3 DEF IsGood
  <2> QED BY <2>4
<1> HIDE DEF S
<1>3. Nat \subseteq S
  BY <1>1, <1>2, Induct
<1> QED BY <1>3 DEF S

LEMMA GoodNone ==
  ASSUME NEW n \in Nat, NEW q, NEW f, IsGood(f, n, q)
  PROVE  f[0] = <<>>
  BY DEF IsGood

LEMMA GoodMore ==
  ASSUME NEW n \in Nat, NEW q, NEW f, IsGood(f, n, q), NEW k \in Nat, k < n
  PROVE  f[k + 1] = IF q[k + 1].good THEN Append(f[k], q[k + 1].id) ELSE f[k]
<1> PICK m : m = k + 1
  OBVIOUS
<1>1. m \in 0 .. n /\ m # 0 /\ m - 1 = k
  OBVIOUS
<1>2. f[m] = IF m = 0 THEN <<>> ELSE IF q[m].good THEN Append(f[m - 1], q[m].id) ELSE f[m - 1]
  BY <1>1 DEF IsGood
<1>3. f[m] = IF q[m].good THEN Append(f[k], q[m].id) ELSE f[k]
  BY <1>1, <1>2
<1> QED
  BY <1>3

LEMMA GoodOfIs ==
  ASSUME NEW S, NEW q \in Seq(S)
  PROVE  \E f : IsGood(f, Len(q), q) /\ Smc!GoodOf(q) = f[Len(q)]
<1> DEFINE good == CHOOSE f : f = [k \in 0 .. Len(q) |->
             IF k = 0 THEN <<>> ELSE IF q[k].good THEN Append(f[k - 1], q[k].id) ELSE f[k - 1]]
<1>1. Len(q) \in Nat
  BY LenProperties
<1>2. \E f : IsGood(f, Len(q), q)
  BY <1>1, GoodExists
<1>3. IsGood(good, Len(q), q)
  BY <1>2 DEF IsGood
<1>4. Smc!GoodOf(q) = good[Len(q)]
  BY DEF Smc!GoodOf
<1> HIDE DEF good
<1> QED
  BY <1>3, <1>4

LEMMA GoodTyped ==
  ASSUME NEW n \in Nat, NEW q, NEW f, IsGood(f, n, q), NEW S, \A k \in 1 .. n : q[k].id \in S
  PROVE  \A k \in 0 .. n : f[k] \in Seq(S)
<1> DEFINE T == {k \in Nat : k <= n => f[k] \in Seq(S)}
<1>1. 0 \in T
  <2>1. f[0] = <<>> /\ <<>> \in Seq(S)
    BY GoodNone, EmptySeq
  <2> QED
    BY <2>1
<1>2. ASSUME NEW k \in Nat, k \in T PROVE k + 1 \in T
  <2>1. CASE k + 1 <= n
    <3>1. k < n /\ f[k] \in Seq(S) /\ q[k + 1].id \in S
      BY <1>2, <2>1
    <3>2. Append(f[k], q[k + 1].id) \in Seq(S)
      BY <3>1, AppendProperties
    <3>3. f[k + 1] = Append(f[k], q[k + 1].id) \/ f[k + 1] = f[k]
      <4>1. f[k + 1] = IF q[k + 1].good THEN Append(f[k], q[k + 1].id) ELSE f[k]
        BY <3>1, GoodMore
      <4> QED
        BY <4>1, Zenon
    <3>4. f[k + 1] \in Seq(S)
      BY <3>1, <3>2, <3>3, Zenon
    <3> QED
      BY <3>4
  <2> QED
    BY <2>1
<1> HIDE DEF T
<1>3. Nat \subseteq T
  BY <1>1, <1>2, Induct
<1> QED BY <1>3 DEF T

LEMMA GoodIn ==
  ASSUME NEW R, NEW q \in Seq(R), NEW S, \A k \in 1 .. Len(q) : q[k].id \in S
  PROVE  Smc!GoodOf(q) \in Seq(S)
<1> PICK n \in Nat : n = Len(q)
  BY LenProperties
<1>1. PICK f : IsGood(f, n, q) /\ Smc!GoodOf(q) = f[n]
  BY GoodOfIs
<1>2. \A k \in 0 .. n : f[k] \in Seq(S)
  BY <1>1, GoodTyped
<1> QED
  BY <1>1, <1>2

\* One more.
LEMMA GoodOfMore ==
  ASSUME NEW R, NEW q \in Seq(R), NEW x \in R
  PROVE  Smc!GoodOf(Append(q, x)) = IF x.good THEN Append(Smc!GoodOf(q), x.id) ELSE Smc!GoodOf(q)
<1>0. PICK p : p = Append(q, x)
  OBVIOUS
<1> PICK n \in Nat : n = Len(q)
  BY LenProperties
<1>1. p \in Seq(R) /\ Len(p) = n + 1 /\ p[n + 1] = x /\ \A k \in 1 .. n : p[k] = q[k]
  BY <1>0, AppendProperties
<1>2. PICK f : IsGood(f, n, q) /\ Smc!GoodOf(q) = f[n]
  BY GoodOfIs
<1>3. PICK g : IsGood(g, n + 1, p) /\ Smc!GoodOf(p) = g[n + 1]
  <2>1. \E g : IsGood(g, Len(p), p) /\ Smc!GoodOf(p) = g[Len(p)]
    BY <1>1, GoodOfIs
  <2> QED
    BY <1>1, <2>1, Zenon
<1>4. g[n] = f[n]
  <2> DEFINE T == {k \in Nat : k <= n => g[k] = f[k]}
  <2>1. 0 \in T
    BY <1>2, <1>3, GoodNone
  <2>2. ASSUME NEW k \in Nat, k \in T PROVE k + 1 \in T
    <3>1. CASE k + 1 <= n
      <4>1. k < n /\ k < n + 1 /\ g[k] = f[k] /\ p[k + 1] = q[k + 1]
        BY <1>1, <2>2, <3>1
      <4>2. f[k + 1] = IF q[k + 1].good THEN Append(f[k], q[k + 1].id) ELSE f[k]
        BY <1>2, <4>1, GoodMore
      <4>3. g[k + 1] = IF p[k + 1].good THEN Append(g[k], p[k + 1].id) ELSE g[k]
        <5>1. n + 1 \in Nat
          OBVIOUS
        <5> QED
          BY <1>3, <4>1, <5>1, GoodMore
      <4>4. g[k + 1] = f[k + 1]
        BY <4>1, <4>2, <4>3
      <4> QED
        BY <4>4
    <3> QED
      BY <3>1
  <2> HIDE DEF T
  <2>3. Nat \subseteq T
    BY <2>1, <2>2, Induct
  <2>4. n \in T
    BY <2>3
  <2> QED BY <2>4 DEF T
<1>5. /\ x.good => g[n + 1] = Append(f[n], x.id)
      /\ ~x.good => g[n + 1] = f[n]
  <2>1. n < n + 1 /\ n + 1 \in Nat
    OBVIOUS
  <2>2. g[n + 1] = IF p[n + 1].good THEN Append(g[n], p[n + 1].id) ELSE g[n]
    BY <1>3, <2>1, GoodMore
  <2> QED
    BY <1>1, <1>4, <2>2
<1> QED
  BY <1>0, <1>2, <1>3, <1>5

LEMMA TailOfAppend ==
  ASSUME NEW S, NEW s \in Seq(S), s # <<>>, NEW x \in S
  PROVE  /\ Append(s, x) # <<>> /\ Head(Append(s, x)) = Head(s)
         /\ Tail(Append(s, x)) = Append(Tail(s), x)
<1> PICK a : a = Append(s, x)
  OBVIOUS
<1>1. /\ a \in Seq(S) /\ Len(a) = Len(s) + 1 /\ Len(s) \in Nat \ {0} /\ a[Len(s) + 1] = x
      /\ \A k \in 1 .. Len(s) : a[k] = s[k]
  BY AppendProperties, EmptySeq
<1>2. a # <<>>
  BY <1>1, EmptySeq
<1>3. Head(a) = a[1] /\ Head(s) = s[1] /\ a[1] = s[1]
  BY <1>1, <1>2
<1> PICK t : t = Tail(s)
  OBVIOUS
<1>4. t \in Seq(S) /\ Len(t) = Len(s) - 1 /\ \A k \in 1 .. Len(t) : t[k] = s[k + 1]
  BY HeadTailProperties
<1> PICK b : b = Tail(a)
  OBVIOUS
<1>5. b \in Seq(S) /\ Len(b) = Len(a) - 1 /\ \A k \in 1 .. Len(b) : b[k] = a[k + 1]
  BY <1>1, <1>2, HeadTailProperties
<1> PICK c : c = Append(t, x)
  OBVIOUS
<1>6. c \in Seq(S) /\ Len(c) = Len(t) + 1 /\ c[Len(t) + 1] = x /\ \A k \in 1 .. Len(t) : c[k] = t[k]
  BY <1>4, AppendProperties
<1>7. ASSUME NEW k \in 1 .. Len(b) PROVE b[k] = c[k]
  <2>1. CASE k = Len(s)
    BY <1>1, <1>4, <1>5, <1>6, <2>1
  <2>2. CASE k # Len(s)
    <3>1. k \in 1 .. Len(t) /\ k + 1 \in 1 .. Len(s)
      BY <1>1, <1>4, <1>5, <2>2
    <3> QED
      BY <1>1, <1>4, <1>5, <1>6, <3>1
  <2> QED
    BY <2>1, <2>2
<1>8. Len(b) = Len(c)
  BY <1>1, <1>4, <1>5, <1>6
<1>9. b = c
  BY <1>5, <1>6, <1>7, <1>8, SeqEqual
<1> QED
  BY <1>2, <1>3, <1>9

LEMMA TailOfOne ==
  ASSUME NEW x
  PROVE  Append(<<>>, x) # <<>> /\ Head(Append(<<>>, x)) = x /\ Tail(Append(<<>>, x)) = <<>>
<1> DEFINE S == {x}
           a == Append(<<>>, x)
<1>1. a \in Seq(S) /\ Len(a) = 1 /\ a[1] = x
  <2>1. <<>> \in Seq(S) /\ x \in S /\ Len(<<>>) = 0
    BY EmptySeq
  <2> QED
    BY <2>1, AppendProperties
<1>2. a # <<>>
  BY <1>1, EmptySeq
<1>3. Head(a) = a[1]
  BY <1>1, <1>2
<1>4. Tail(a) \in Seq(S) /\ Len(Tail(a)) = 0
  BY <1>1, <1>2, HeadTailProperties
<1>5. Tail(a) = <<>>
  BY <1>4, EmptySeq
<1> QED
  BY <1>1, <1>2, <1>3, <1>5

\* The first one gone.
LEMMA GoodOfTail ==
  ASSUME NEW R, NEW q \in Seq(R), q # <<>>, NEW S, \A k \in 1 .. Len(q) : q[k].id \in S
  PROVE  /\ ~Head(q).good => Smc!GoodOf(q) = Smc!GoodOf(Tail(q))
         /\ Head(q).good => /\ Smc!GoodOf(q) # <<>> /\ Head(Smc!GoodOf(q)) = Head(q).id
                            /\ Tail(Smc!GoodOf(q)) = Smc!GoodOf(Tail(q))
<1>0. PICK t : t = Tail(q)
  OBVIOUS
<1> PICK h : h = Head(q)
  OBVIOUS
<1>1. t \in Seq(R) /\ Len(t) \in Nat /\ Len(q) = Len(t) + 1 /\ h = q[1] /\ \A k \in 1 .. Len(t) : t[k] = q[k + 1]
  BY <1>0, HeadTailProperties, LenProperties
<1> PICK n \in Nat : n = Len(t)
  BY <1>1
<1>2. PICK f : IsGood(f, n, t) /\ Smc!GoodOf(t) = f[n]
  BY <1>1, GoodOfIs
<1>3. PICK g : IsGood(g, n + 1, q) /\ Smc!GoodOf(q) = g[n + 1]
  <2>1. \E g : IsGood(g, Len(q), q) /\ Smc!GoodOf(q) = g[Len(q)]
    BY GoodOfIs
  <2> QED
    BY <1>1, <2>1, Zenon
<1> DEFINE Follows(k) == /\ ~h.good => g[k + 1] = f[k]
                         /\ h.good => g[k + 1] # <<>> /\ Head(g[k + 1]) = h.id /\ Tail(g[k + 1]) = f[k]
           T == {k \in Nat : k <= n => Follows(k)}
<1>4. 0 \in T
  <2>1. f[0] = <<>> /\ g[0] = <<>>
    BY <1>2, <1>3, GoodNone
  <2>2. 0 < n + 1 /\ 0 + 1 = 1 /\ n + 1 \in Nat
    OBVIOUS
  <2>3. g[0 + 1] = IF q[0 + 1].good THEN Append(g[0], q[0 + 1].id) ELSE g[0]
    BY <1>3, <2>2, GoodMore
  <2>4. h.good => g[1] = Append(<<>>, h.id)
    BY <1>1, <2>1, <2>2, <2>3
  <2>5. ~h.good => g[1] = <<>>
    BY <1>1, <2>1, <2>2, <2>3
  <2>6. Follows(0)
    BY <2>1, <2>2, <2>4, <2>5, TailOfOne
  <2> QED
    BY <2>6
<1>5. ASSUME NEW k \in Nat, k \in T PROVE k + 1 \in T
  <2>1. CASE k + 1 <= n
    <3> PICK m : m = k + 1
      OBVIOUS
    <3>1. /\ k < n /\ m \in Nat /\ m < n + 1 /\ m \in 0 .. n + 1 /\ n + 1 \in Nat
          /\ m \in 1 .. Len(t) /\ m + 1 \in 1 .. Len(q)
      BY <1>1, <2>1
    <3>2. t[m] = q[m + 1] /\ q[m + 1].id \in S
      BY <1>1, <3>1
    <3>3. Follows(k)
      BY <1>5, <3>1
    <3>4. f[m] = IF t[m].good THEN Append(f[k], t[m].id) ELSE f[k]
      <4>1. f[k + 1] = IF t[k + 1].good THEN Append(f[k], t[k + 1].id) ELSE f[k]
        BY <1>2, <3>1, GoodMore
      <4> QED
        BY <4>1, Zenon
    <3>5. g[m + 1] = IF q[m + 1].good THEN Append(g[m], q[m + 1].id) ELSE g[m]
      BY <1>3, <3>1, GoodMore
    <3>6. g[m] \in Seq(S)
      <4>1. \A j \in 1 .. n + 1 : q[j].id \in S
        BY <1>1
      <4>2. \A j \in 0 .. n + 1 : g[j] \in Seq(S)
        BY <1>3, <3>1, <4>1, GoodTyped
      <4> QED
        BY <3>1, <4>2
    <3>7. Follows(m)
      <4>1. CASE ~h.good
        BY <3>2, <3>3, <3>4, <3>5, <4>1
      <4>2. CASE h.good
        <5>1. g[m] # <<>> /\ Head(g[m]) = h.id /\ Tail(g[m]) = f[k]
          BY <3>3, <4>2
        <5>2. /\ Append(g[m], q[m + 1].id) # <<>> /\ Head(Append(g[m], q[m + 1].id)) = Head(g[m])
              /\ Tail(Append(g[m], q[m + 1].id)) = Append(Tail(g[m]), q[m + 1].id)
          BY <3>2, <3>6, <5>1, TailOfAppend
        <5>3. CASE q[m + 1].good
          <6>1. g[m + 1] = Append(g[m], q[m + 1].id) /\ f[m] = Append(f[k], q[m + 1].id)
            BY <3>2, <3>4, <3>5, <5>3
          <6> QED
            BY <5>1, <5>2, <6>1, <4>2, Zenon
        <5>4. CASE ~q[m + 1].good
          BY <3>2, <3>4, <3>5, <5>1, <5>4, <4>2
        <5> QED
          BY <5>3, <5>4
      <4> QED
        BY <4>1, <4>2
    <3> QED
      BY <3>7
  <2> QED
    BY <2>1
<1> HIDE DEF T
<1>6. Nat \subseteq T
  BY <1>4, <1>5, Induct
<1>7. n \in T
  BY <1>6
<1>8. Follows(n)
  BY <1>7 DEF T
<1> QED
  BY <1>0, <1>2, <1>3, <1>8

LEMMA GoodOfNone == Smc!GoodOf(<<>>) = <<>>
<1> DEFINE q == <<>>
<1>1. q \in Seq({}) /\ Len(q) = 0
  OBVIOUS
<1>2. PICK f : IsGood(f, 0, q) /\ Smc!GoodOf(q) = f[0]
  BY <1>1, GoodOfIs
<1> QED
  BY <1>2, GoodNone

\* The frames that have come: all but the one that is coming.
SmcCame == IF incoming = Smc!NoFrame THEN frames ELSE frames - 1

SmcKnown ==
  /\ got \in Nat /\ got <= SmcCame
  /\ \A k \in 1 .. Len(rx) : rx[k].id <= SmcCame
  /\ incoming # Smc!NoFrame => incoming.id = frames

LEMMA SmcSeen ==
  /\ driver = "smc9000" => WaitingNow = Each(Smc!GoodOf(rx)) /\ GotNow = One(got) /\ OverrunNow = FALSE
  /\ driver' = "smc9000" => WaitingNow' = Each(Smc!GoodOf(rx')) /\ GotNow' = One(got') /\ OverrunNow' = FALSE
<1>1. "smc9000" # "ns8390"
  OBVIOUS
<1>2. driver = "smc9000" => WaitingNow = Each(Smc!GoodOf(rx)) /\ GotNow = One(got) /\ OverrunNow = FALSE
  BY <1>1 DEF WaitingNow, GotNow, OverrunNow, Smc!Waiting
<1>3. driver' = "smc9000" => WaitingNow' = Each(Smc!GoodOf(rx')) /\ GotNow' = One(got') /\ OverrunNow' = FALSE
  BY <1>1 DEF WaitingNow, GotNow, OverrunNow, Smc!Waiting
<1> QED
  BY <1>2, <1>3

\* The numbers of the frames that wait.
SmcNumbers == 1 .. SmcCame

LEMMA SmcTyped ==
  ASSUME SmcMemory, SmcKnown
  PROVE  /\ frames \in Nat /\ frames <= SmcFrames /\ SmcFrames \in Nat /\ SmcFrames <= Most /\ Most \in Nat
         /\ SmcCame \in Int /\ SmcCame <= frames
         /\ \A k \in 1 .. Len(rx) : rx[k].id \in SmcNumbers
         /\ rx \in Paged
<1>1. /\ frames \in Nat /\ frames <= SmcFrames /\ SmcFrames \in Nat /\ SmcFrames <= Most /\ Most \in Nat
      /\ rx \in Paged
  BY SmcConstants, MostIs DEF SmcMemory, SmcTypes
<1>2. SmcCame \in Int /\ SmcCame <= frames
  BY <1>1 DEF SmcCame
<1>3. \A k \in 1 .. Len(rx) : rx[k].id \in 1 .. SmcFrames
  <2>1. \A k \in 1 .. Len(rx) : rx[k] \in [id : 1 .. SmcFrames, pages : Lens, good : BOOLEAN]
    BY <1>1, ElementOfSeq DEF Paged
  <2> QED
    BY <2>1
<1>4. \A k \in 1 .. Len(rx) : rx[k].id \in SmcNumbers
  BY <1>1, <1>2, <1>3 DEF SmcKnown, SmcNumbers
<1> QED
  BY <1>1, <1>2, <1>4

\* Nothing but the frame that is coming.
LEMMA SmcUnmoved ==
  ASSUME driver = "smc9000", driver' = "smc9000", SmcMemory, SmcKnown,
         rx' = rx, got' = got, SmcCame' \in Int, SmcCame <= SmcCame', incoming' # Smc!NoFrame => incoming'.id = frames'
  PROVE  SmcKnown' /\ QueueStep
<1>1. /\ SmcCame \in Int /\ got \in Nat /\ got <= SmcCame
      /\ \A k \in 1 .. Len(rx) : rx[k].id \in Int /\ rx[k].id <= SmcCame
  BY SmcTyped DEF SmcKnown, SmcNumbers
<1>2. got' \in Nat /\ got' <= SmcCame'
  BY <1>1
<1>3. \A k \in 1 .. Len(rx') : rx'[k].id <= SmcCame'
  BY <1>1
<1>4. SmcKnown'
  BY <1>2, <1>3 DEF SmcKnown
<1> QED
  BY <1>4, SmcSeen, Unmoved

LEMMA SmcIsReset ==
  ASSUME driver = "smc9000", driver' = "smc9000", SmcMemory, SmcKnown, Smc!MmuReset, frames' = frames, got' = got
  PROVE  SmcKnown' /\ QueueStep
<1>1. rx' = <<>> /\ incoming' = Smc!NoFrame /\ Len(<<>>) = 0
  BY EmptySeq DEF Smc!MmuReset
<1>2. SmcCame' = frames
  BY <1>1 DEF SmcCame
<1>3. \A k \in 1 .. Len(rx') : rx'[k].id <= SmcCame'
  BY <1>1
<1>4. got' \in Nat /\ got' <= SmcCame'
  BY <1>2, SmcTyped DEF SmcKnown
<1>5. SmcKnown'
  BY <1>1, <1>3, <1>4 DEF SmcKnown
<1>6. Smc!GoodOf(rx') = <<>>
  BY <1>1, GoodOfNone
<1>7. WaitingNow' = <<>> /\ GotNow' = GotNow /\ OverrunNow' = FALSE
  BY <1>6, SmcSeen, EachOfNone
<1> QED
  BY <1>5, <1>7, IsSetUp

LEMMA SmcComes ==
  ASSUME driver = "smc9000", driver' = "smc9000", SmcMemory, SmcKnown, Smc!FrameEnds
  PROVE  SmcKnown' /\ QueueStep
<1>1. PICK x : /\ x.id = frames /\ x.good \in BOOLEAN /\ rx' = Append(rx, x)
               /\ x \in [id : 1 .. SmcFrames, pages : Lens, good : BOOLEAN]
  <2>1. PICK good \in BOOLEAN : rx' = Append(rx, [id |-> incoming.id, pages |-> incoming.len, good |-> good])
    BY DEF Smc!FrameEnds
  <2>2. incoming.id = frames /\ incoming.id \in 1 .. SmcFrames /\ incoming.len \in Lens
    BY SmcConstants DEF Smc!FrameEnds, SmcMemory, SmcTypes, SmcKnown
  <2> QED
    BY <2>1, <2>2
<1>2. /\ incoming # Smc!NoFrame /\ incoming' = Smc!NoFrame /\ frames' = frames /\ got' = got
      /\ SmcCame = frames - 1 /\ SmcCame' = frames
  BY DEF Smc!FrameEnds, SmcCame
<1>3. /\ frames \in 1 .. Most /\ rx \in Paged /\ Smc!GoodOf(rx) \in Seq(Nat)
      /\ got \in Nat /\ got < frames
      /\ \A k \in 1 .. Len(Smc!GoodOf(rx)) : Smc!GoodOf(rx)[k] < frames
  <2>1. \A k \in 1 .. Len(rx) : rx[k].id \in SmcNumbers
    BY SmcTyped
  <2>2. Smc!GoodOf(rx) \in Seq(SmcNumbers)
    BY <2>1, SmcTyped, GoodIn DEF Paged
  <2>3. SmcNumbers \subseteq Nat
    BY <1>2, SmcTyped DEF SmcNumbers
  <2>4. Smc!GoodOf(rx) \in Seq(Nat)
    BY <2>2, <2>3, SeqMonotonic
  <2>5. \A k \in 1 .. Len(Smc!GoodOf(rx)) : Smc!GoodOf(rx)[k] \in SmcNumbers
    BY <2>2, ElementOfSeq
  <2>6. frames \in 1 .. Most /\ got \in Nat /\ got < frames
    BY <1>2, SmcTyped DEF SmcKnown
  <2>7. \A k \in 1 .. Len(Smc!GoodOf(rx)) : Smc!GoodOf(rx)[k] < frames
    BY <1>2, <2>5, <2>6 DEF SmcNumbers
  <2> QED
    BY <2>4, <2>6, <2>7, SmcTyped
<1>4. Smc!GoodOf(rx') = IF x.good THEN Append(Smc!GoodOf(rx), frames) ELSE Smc!GoodOf(rx)
  <2>1. Smc!GoodOf(Append(rx, x)) = IF x.good THEN Append(Smc!GoodOf(rx), x.id) ELSE Smc!GoodOf(rx)
    BY <1>1, <1>3, GoodOfMore DEF Paged
  <2> QED
    BY <1>1, <2>1
<1>5. SmcKnown'
  <2>1. /\ Len(rx') = Len(rx) + 1 /\ Len(rx) \in Nat /\ rx'[Len(rx) + 1] = x
        /\ \A k \in 1 .. Len(rx) : rx'[k] = rx[k]
    BY <1>1, <1>3, AppendProperties, LenProperties DEF Paged
  <2>2. \A k \in 1 .. Len(rx) : rx[k].id \in SmcNumbers
    BY SmcTyped
  <2>3. ASSUME NEW k \in 1 .. Len(rx') PROVE rx'[k].id <= frames
    <3>1. CASE k = Len(rx) + 1
      BY <1>1, <1>3, <2>1, <3>1
    <3>2. CASE k # Len(rx) + 1
      <4>1. k \in 1 .. Len(rx)
        BY <2>1, <3>2
      <4> QED
        BY <1>2, <1>3, <2>1, <2>2, <4>1 DEF SmcNumbers
    <3> QED
      BY <3>1, <3>2
  <2> QED
    BY <1>2, <1>3, <2>3 DEF SmcKnown
<1>6. QueueStep
  <2>1. CASE x.good
    <3>1. /\ WaitingNow = Each(Smc!GoodOf(rx)) /\ WaitingNow' = Each(Append(Smc!GoodOf(rx), frames))
          /\ GotNow' = GotNow /\ OverrunNow' = OverrunNow
      BY <1>2, <1>4, <2>1, SmcSeen
    <3>2. driver # "ns8390"
      OBVIOUS
    <3> QED
      BY <1>3, <3>1, <3>2, OneMoreComes
  <2>2. CASE ~x.good
    BY <1>2, <1>4, <2>2, SmcSeen, Unmoved
  <2> QED
    BY <2>1, <2>2
<1> QED
  BY <1>5, <1>6

LEMMA SmcPassesOne ==
  ASSUME driver = "smc9000", driver' = "smc9000", SmcMemory, SmcKnown, rx # <<>>, rx' = Tail(rx),
         got' = IF Head(rx).good THEN Head(rx).id ELSE got, UNCHANGED <<incoming, frames>>
  PROVE  SmcKnown' /\ QueueStep
<1>1. \A k \in 1 .. Len(rx) : rx[k].id \in SmcNumbers
  BY SmcTyped
<1>2. SmcCame' = SmcCame /\ SmcCame \in Int /\ rx \in Paged
  BY SmcTyped DEF SmcCame
<1>3. /\ Head(rx) = rx[1] /\ Len(rx) \in Nat \ {0} /\ Len(rx') = Len(rx) - 1
      /\ \A k \in 1 .. Len(rx') : rx'[k] = rx[k + 1]
  BY <1>2, HeadTailProperties, LenProperties, EmptySeq DEF Paged
<1>4. Head(rx).id \in SmcNumbers
  BY <1>1, <1>3
<1>5. SmcKnown'
  <2>1. \A k \in 1 .. Len(rx') : rx'[k].id \in SmcNumbers
    BY <1>1, <1>3
  <2>2. \A k \in 1 .. Len(rx') : rx'[k].id <= SmcCame
    BY <1>2, <2>1 DEF SmcNumbers
  <2>3. got' \in Nat /\ got' <= SmcCame
    BY <1>2, <1>4 DEF SmcNumbers, SmcKnown
  <2> QED
    BY <1>2, <2>2, <2>3 DEF SmcKnown
<1>6. SmcNumbers \subseteq Nat
  BY <1>2 DEF SmcNumbers
<1>7. Smc!GoodOf(rx) \in Seq(Nat)
  <2>1. Smc!GoodOf(rx) \in Seq(SmcNumbers)
    BY <1>1, <1>2, GoodIn DEF Paged
  <2> QED
    BY <1>6, <2>1, SeqMonotonic
<1>8. /\ ~Head(rx).good => Smc!GoodOf(rx) = Smc!GoodOf(rx')
      /\ Head(rx).good => /\ Smc!GoodOf(rx) # <<>> /\ Head(Smc!GoodOf(rx)) = Head(rx).id
                          /\ Tail(Smc!GoodOf(rx)) = Smc!GoodOf(rx')
  <2>1. PICK R : rx \in Seq(R)
    BY <1>2 DEF Paged
  <2>2. /\ ~Head(rx).good => Smc!GoodOf(rx) = Smc!GoodOf(Tail(rx))
        /\ Head(rx).good => /\ Smc!GoodOf(rx) # <<>> /\ Head(Smc!GoodOf(rx)) = Head(rx).id
                            /\ Tail(Smc!GoodOf(rx)) = Smc!GoodOf(Tail(rx))
    BY <1>1, <2>1, GoodOfTail
  <2> QED
    BY <2>2
<1>9. CASE Head(rx).good
  <2>1. /\ WaitingNow # <<>> /\ GotNow' = Head(WaitingNow) /\ WaitingNow' = Tail(WaitingNow)
        /\ OverrunNow' = OverrunNow
    BY <1>7, <1>8, <1>9, EachGoes, SmcSeen
  <2> QED
    BY <1>5, <2>1, IsPassedOn
<1>10. CASE ~Head(rx).good
  BY <1>5, <1>8, <1>10, SmcSeen, Unmoved
<1> QED
  BY <1>9, <1>10

LEMMA SmcPassesOn ==
  ASSUME driver = "smc9000", driver' = "smc9000", SmcMemory, SmcKnown, Smc!Next
  PROVE  SmcKnown' /\ QueueStep
<1>0. /\ frames \in Nat /\ SmcCame \in Int /\ SmcCame <= frames
      /\ incoming \in [id : 0 .. SmcFrames, len : Lens \cup {0}, stored : Nat]
      /\ incoming # Smc!NoFrame => incoming.id = frames /\ incoming.id # 0
  BY SmcTyped DEF SmcMemory, SmcTypes, SmcKnown
<1>1. CASE UNCHANGED <<rx, frames, got, incoming>>
  <2>1. SmcCame' = SmcCame /\ (incoming' # Smc!NoFrame => incoming'.id = frames')
    BY <1>0, <1>1 DEF SmcCame
  <2> QED
    BY <1>0, <1>1, <2>1, SmcUnmoved
<1>2. CASE Smc!FrameComes
  <2>1. /\ rx' = rx /\ got' = got /\ frames' = frames + 1 /\ incoming = Smc!NoFrame
        /\ incoming'.id = frames'
    BY <1>2 DEF Smc!FrameComes
  <2>2. incoming' # Smc!NoFrame
    BY <1>0, <2>1 DEF Smc!NoFrame
  <2>3. SmcCame' = SmcCame
    BY <1>0, <2>1, <2>2 DEF SmcCame
  <2> QED
    BY <1>0, <2>1, <2>3, SmcUnmoved
<1>3. CASE Smc!PageStored
  <2>1. rx' = rx /\ got' = got /\ frames' = frames
    BY <1>3 DEF Smc!PageStored
  <2>2. CASE incoming' = Smc!NoFrame
    <3>1. SmcCame' = frames
      BY <2>1, <2>2 DEF SmcCame
    <3> QED
      BY <1>0, <2>1, <2>2, <3>1, SmcUnmoved
  <2>3. CASE incoming' # Smc!NoFrame
    <3>1. incoming' = [incoming EXCEPT !.stored = @ + 1] /\ incoming.stored < incoming.len
      BY <1>3, <2>3 DEF Smc!PageStored
    <3>2. incoming # Smc!NoFrame /\ incoming'.id = incoming.id
      BY <1>0, <3>1 DEF Smc!NoFrame
    <3>3. SmcCame' = SmcCame
      BY <2>1, <2>3, <3>2 DEF SmcCame
    <3> QED
      BY <1>0, <2>1, <3>2, <3>3, SmcUnmoved
  <2> QED
    BY <2>2, <2>3
<1>4. CASE Smc!FrameEnds
  BY <1>4, SmcComes
<1>5. CASE Smc!MmuReset /\ UNCHANGED <<frames, got>>
  BY <1>5, SmcIsReset
<1>6. CASE Smc!Poll /\ ~UNCHANGED <<rx, frames, got, incoming>>
  <2>1. /\ rx # <<>> /\ rx' = Tail(rx) /\ UNCHANGED <<incoming, frames>>
        /\ got' = IF Head(rx).good THEN Head(rx).id ELSE got
    BY <1>6 DEF Smc!Poll, Smc!NullCall, Smc!memory
  <2> QED
    BY <2>1, SmcPassesOne
<1>7. CASE Smc!Allocated \/ Smc!Sent
  BY <1>1, <1>7 DEF Smc!Allocated, Smc!Sent
<1>8. CASE Smc!Call
  <2>1. CASE Smc!Poll
    BY <1>1, <1>6, <2>1
  <2>2. CASE Smc!NodeAddr \/ Smc!SetNodeAddr
    BY <1>1, <1>5, <2>2 DEF Smc!NodeAddr, Smc!SetNodeAddr, Smc!ProbeFails, Smc!Probed, Smc!memory
  <2>3. CASE Smc!Start \/ Smc!StartFails
    BY <1>1, <1>5, <2>3 DEF Smc!Start, Smc!StartFails, Smc!ProbeFails, Smc!Probed, Smc!memory, Smc!smc_reset
  <2>4. CASE Smc!Stop
    BY <1>1, <1>5, <2>4 DEF Smc!Stop, Smc!NullCall, Smc!memory, Smc!smc_reset
  <2>5. ASSUME NEW s \in Sizes, Smc!Transmit(s) PROVE SmcKnown' /\ QueueStep
    BY <1>1, <2>5 DEF Smc!Transmit, Smc!NullCall, Smc!memory
  <2> QED
    BY <1>8, <2>1, <2>2, <2>3, <2>4, <2>5 DEF Smc!Call
<1>9. CASE Smc!Driver
  BY <1>1, <1>5, <1>9 DEF Smc!Driver, Smc!Allocate, Smc!AllocationTimesOut, Smc!Enqueue, Smc!Finished,
     Smc!SendTimesOut, Smc!smc_reset
<1> QED
  BY <1>2, <1>3, <1>4, <1>7, <1>8, <1>9 DEF Smc!Next, Smc!Chip

----------------------------------------------------------------------------
(* The 8390 *)

\* What the page n pages after BOUND has.
NsMark(n) == <<NsAt(n).id, NsAt(n).part>>

\* The pages behind the headers have the parts of their frames, in order.
NsFilled == \A k \in 1 .. Len(queue) : \A j \in 1 .. queue[k].len :
              NsMark(NsReach(k - 1) + j) = <<queue[k].id, j>>

NsFilling == \A j \in 1 .. incoming.stored : NsMark(NsReach(Len(queue)) + j) = <<incoming.id, j>>

\* The frames that have come: all but the one that is coming.
NsCame == IF incoming = Ns!NoFrame THEN frames ELSE frames - 1

NsKnown ==
  /\ incoming # Ns!NoFrame => incoming.id = frames
  /\ \A k \in 1 .. Len(queue) : queue[k].id <= NsCame
  /\ got = <<>> \/ \E g \in 1 .. NsCame : \E l \in Lens : got = Ns!Whole(g, l)

\* What eth_receive_1 has copied.
NsBuffer ==
  /\ pc = "poll" => ~clearing
  /\ pc = "ack" => clearing
  /\ pc = "second" /\ ~clearing => Ns!Frag(next) < queue[1].len /\ buf = Ns!Whole(queue[1].id, Ns!Frag(next))
  /\ pc = "bound" /\ ~clearing => buf = Ns!Whole(queue[1].id, queue[1].len)

NsHolds == NsFilled /\ NsFilling

\* Where these pages are.
LEMMA NsSpots ==
  ASSUME NsInStep
  PROVE  /\ \A k \in 1 .. Len(queue) : \A j \in 1 .. queue[k].len :
              /\ NsReach(k - 1) + j \in 1 .. NsReach(Len(queue)) /\ NsReach(k - 1) \in Nat
              /\ NsReach(k - 1) + j \in 1 .. Ns!Size - 1
         /\ \A j \in 1 .. incoming.stored : NsReach(Len(queue)) + j \in 1 .. Ns!Size - 1
         /\ NsReach(Len(queue)) \in Nat /\ NsReach(Len(queue)) < Ns!Size
<1>1. /\ NsReach(Len(queue)) \in Nat /\ incoming.stored \in Nat /\ NsReach(Len(queue)) + incoming.stored < Ns!Size
  BY NsDistances DEF NsInStep, NsRoom, NsTypes
<1>2. ASSUME NEW k \in 1 .. Len(queue), NEW j \in 1 .. queue[k].len
      PROVE  NsReach(k - 1) + j \in 1 .. NsReach(Len(queue)) /\ NsReach(k - 1) \in Nat
  <2>1. Len(queue) \in Nat /\ k \in 0 .. Len(queue) /\ k - 1 \in 0 .. Len(queue)
    BY NsDistances DEF NsInStep
  <2>2. NsReach(k) \in Nat /\ NsReach(k) <= NsReach(Len(queue)) /\ NsReach(k - 1) \in Nat
    BY <2>1, NsDistances DEF NsInStep
  <2>3. NsReach(k) = NsReach(k - 1) + queue[k].len /\ queue[k].len \in Nat
    BY NsDistances DEF NsInStep
  <2> QED
    BY <1>1, <2>2, <2>3
<1>3. ASSUME NEW k \in 1 .. Len(queue), NEW j \in 1 .. queue[k].len
      PROVE  NsReach(k - 1) + j \in 1 .. Ns!Size - 1
  BY <1>1, <1>2, NsConstants
<1>4. ASSUME NEW j \in 1 .. incoming.stored PROVE NsReach(Len(queue)) + j \in 1 .. Ns!Size - 1
  BY <1>1, NsConstants
<1>5. NsReach(Len(queue)) < Ns!Size
  BY <1>1, NsConstants
<1> QED
  BY <1>1, <1>2, <1>3, <1>4, <1>5

LEMMA NsSpotIn ==
  ASSUME NsInStep, NEW m \in 1 .. Ns!Size - 1
  PROVE  Ns!After(BOUND, m) \in Ns!Ring
<1>1. m \in 0 .. Ns!Size
  BY NsConstants
<1> QED
  BY <1>1, AfterIs DEF NsInStep, NsTypes

\* Nothing moves in the ring.
LEMMA NsHoldsOn ==
  ASSUME NsInStep, NsHolds, UNCHANGED <<BOUND, queue>>,
         \A r \in Ns!Ring : page'[r].id = page[r].id /\ page'[r].part = page[r].part,
         incoming' = incoming \/ incoming'.stored = 0
  PROVE  NsHolds'
<1>1. ASSUME NEW m \in 1 .. Ns!Size - 1 PROVE NsMark(m)' = NsMark(m)
  <2>1. Ns!After(BOUND, m) \in Ns!Ring
    BY NsSpotIn
  <2> QED
    BY <2>1 DEF NsMark, NsAt
<1>2. NsFilled'
  <2> SUFFICES ASSUME NEW k \in 1 .. Len(queue), NEW j \in 1 .. queue[k].len
               PROVE  NsMark(NsReach(k - 1) + j)' = <<queue[k].id, j>>
    BY DEF NsFilled, NsReach, NsMark, NsAt
  <2>1. NsReach(k - 1) + j \in 1 .. Ns!Size - 1
    BY NsSpots
  <2>2. NsMark(NsReach(k - 1) + j) = <<queue[k].id, j>>
    BY DEF NsHolds, NsFilled
  <2>3. NsReach(k - 1)' = NsReach(k - 1)
    BY DEF NsReach
  <2> QED
    BY <1>1, <2>1, <2>2, <2>3
<1>3. NsFilling'
  <2>1. CASE incoming'.stored = 0
    BY <2>1 DEF NsFilling
  <2>2. CASE incoming' = incoming
    <3> SUFFICES ASSUME NEW j \in 1 .. incoming.stored
                 PROVE  NsMark(NsReach(Len(queue)) + j)' = <<incoming.id, j>>
      BY <2>2 DEF NsFilling, NsReach, NsMark, NsAt
    <3>1. NsReach(Len(queue)) + j \in 1 .. Ns!Size - 1
      BY NsSpots
    <3>2. NsMark(NsReach(Len(queue)) + j) = <<incoming.id, j>>
      BY DEF NsHolds, NsFilling
    <3>3. NsMark(NsReach(Len(queue)) + j)' = NsMark(NsReach(Len(queue)) + j)
      <4>1. NsReach(Len(queue))' = NsReach(Len(queue))
        BY DEF NsReach
      <4> QED
        BY <1>1, <3>1, <4>1
    <3> QED
      BY <3>2, <3>3
  <2> QED
    BY <2>1, <2>2
<1> QED
  BY <1>2, <1>3 DEF NsHolds

LEMMA NsPageFills ==
  ASSUME NsInStep, NsHolds, Ns!PageStored
  PROVE  NsHolds'
<1>0. UNCHANGED <<BOUND, queue>>
  BY DEF Ns!PageStored
<1>1. CASE incoming' = Ns!NoFrame
  <2>1. page' = page /\ incoming'.stored = 0
    BY <1>1 DEF Ns!PageStored, Ns!NoFrame, NsInStep, NsTypes
  <2> QED
    BY <1>0, <2>1, NsHoldsOn
<1>2. CASE incoming' # Ns!NoFrame
  <2>0. PICK R, s, c : R = NsReach(Len(queue)) /\ s = incoming.stored /\ c = 1 + R + s
    OBVIOUS
  <2>1. /\ incoming' = [incoming EXCEPT !.stored = @ + 1]
        /\ c \in 1 .. Ns!Size - 1
        /\ page' = [page EXCEPT ![Ns!After(BOUND, c)].id = incoming.id, ![Ns!After(BOUND, c)].part = s + 1]
    BY <1>2, <2>0, NsStores
  <2>2. R \in Nat /\ s \in Nat /\ BOUND \in Ns!Ring /\ c = 1 + R + s
    BY <2>0, NsSpots DEF NsInStep, NsTypes
  <2>3. incoming'.stored = s + 1 /\ incoming'.id = incoming.id
    BY <2>0, <2>1 DEF NsInStep, NsTypes
  <2>4. PICK p \in Ns!Ring : p = Ns!After(BOUND, c)
    BY <2>1, NsSpotIn
  <2>5. page \in [Ns!Ring -> Ns!Page]
    BY DEF NsInStep, NsTypes
  <2>6. /\ page'[p].id = incoming.id /\ page'[p].part = s + 1
        /\ \A r \in Ns!Ring : r # p => page'[r] = page[r]
    BY <2>1, <2>4, <2>5 DEF Ns!Page
  <2>7. ASSUME NEW m \in 1 .. Ns!Size - 1, m # c PROVE NsMark(m)' = NsMark(m)
    <3>1. Ns!After(BOUND, m) \in Ns!Ring
      BY NsSpotIn
    <3>2. m \in 1 .. Ns!Size /\ c \in 1 .. Ns!Size
      BY <2>1, NsConstants
    <3>3. Ns!After(BOUND, m) # p
      BY <2>2, <2>4, <2>7, <3>2, AfterDiffers
    <3> QED
      BY <1>0, <2>6, <3>1, <3>3 DEF NsMark, NsAt
  <2>8. NsMark(c)' = <<incoming.id, s + 1>>
    BY <1>0, <2>4, <2>6 DEF NsMark, NsAt
  <2>9. NsReach(Len(queue))' = NsReach(Len(queue)) /\ \A k : NsReach(k)' = NsReach(k)
    BY <1>0 DEF NsReach
  <2>10. NsFilled'
    <3> SUFFICES ASSUME NEW k \in 1 .. Len(queue), NEW j \in 1 .. queue[k].len
                 PROVE  NsMark(NsReach(k - 1) + j)' = <<queue[k].id, j>>
      BY <1>0 DEF NsFilled, NsReach, NsMark, NsAt
    <3>0. PICK m : m = NsReach(k - 1) + j
      OBVIOUS
    <3>1. m \in 1 .. Ns!Size - 1 /\ m <= R
      BY <2>0, <3>0, NsSpots
    <3>2. NsMark(m) = <<queue[k].id, j>>
      BY <3>0 DEF NsHolds, NsFilled
    <3>3. m # c
      BY <2>2, <3>1
    <3>4. NsMark(m)' = <<queue[k].id, j>>
      BY <2>7, <3>1, <3>2, <3>3
    <3>5. NsReach(k - 1)' = NsReach(k - 1)
      BY <2>9
    <3> QED
      BY <3>0, <3>4, <3>5
  <2>11. NsFilling'
    <3>1. ASSUME NEW j \in 1 .. s + 1 PROVE NsMark(R + j)' = <<incoming.id, j>>
      <4>1. CASE j = s + 1
        <5>1. R + j = c
          BY <2>2, <4>1
        <5> QED
          BY <2>8, <4>1, <5>1
      <4>2. CASE j # s + 1
        <5>0. PICK m : m = R + j
          OBVIOUS
        <5>1. j \in 1 .. s
          BY <2>2, <4>2
        <5>2. m \in 1 .. Ns!Size - 1
          BY <2>0, <5>0, <5>1, NsSpots
        <5>3. m # c
          BY <2>2, <5>0, <5>1
        <5>4. NsMark(m) = <<incoming.id, j>>
          BY <2>0, <5>0, <5>1 DEF NsHolds, NsFilling
        <5>5. NsMark(m)' = <<incoming.id, j>>
          BY <2>7, <5>2, <5>3, <5>4
        <5> QED
          BY <5>0, <5>5
      <4> QED
        BY <4>1, <4>2
    <3>2. NsReach(Len(queue))' = R
      BY <2>0, <2>9
    <3>3. \A j \in 1 .. incoming'.stored : NsMark(NsReach(Len(queue)) + j)' = <<incoming'.id, j>>
      BY <2>3, <3>1, <3>2
    <3> QED
      BY <3>3 DEF NsFilling
  <2> QED
    BY <2>10, <2>11 DEF NsHolds
<1> QED
  BY <1>1, <1>2

LEMMA NsEndFills ==
  ASSUME NsInStep, NsHolds, Ns!FrameEnds
  PROVE  NsHolds'
<1>0. /\ BOUND' = BOUND /\ incoming'.stored = 0 /\ incoming.stored = incoming.len
      /\ page \in [Ns!Ring -> Ns!Page] /\ CURR \in Ns!Ring
  BY DEF Ns!FrameEnds, Ns!NoFrame, NsInStep, NsTypes
<1>1. \A r \in Ns!Ring : page'[r].id = page[r].id /\ page'[r].part = page[r].part
  <2>1. page' = page \/ \E h : page' = [page EXCEPT ![CURR].hdr = h]
    BY DEF Ns!FrameEnds
  <2> QED
    BY <1>0, <2>1 DEF Ns!Page
<1>2. CASE queue' = queue
  BY <1>0, <1>1, <1>2, NsHoldsOn
<1>3. CASE queue' # queue
  <2>0. PICK n : n = Len(queue)
    OBVIOUS
  <2>1. PICK good \in BOOLEAN : NsJoins(n, good)
    BY <1>3, <2>0, NsEnds
  <2>2. PICK x : x = [id |-> incoming.id, len |-> incoming.len, good |-> good]
    OBVIOUS
  <2>3. /\ queue' = Append(queue, x) /\ x \in NsFrame /\ x.id = incoming.id /\ x.len = incoming.len
        /\ Len(queue') = n + 1 /\ \A k \in 0 .. n : NsReach(k)' = NsReach(k)
    BY <2>1, <2>2 DEF NsJoins
  <2>4. queue \in Seq(NsFrame) /\ n \in Nat /\ n = Len(queue)
    BY <2>0, LenProperties DEF NsInStep, NsTypes
  <2>5. queue'[n + 1] = x /\ \A k \in 1 .. n : queue'[k] = queue[k]
    BY <2>3, <2>4, LengthToAppend
  <2>6. ASSUME NEW m \in 1 .. Ns!Size - 1 PROVE NsMark(m)' = NsMark(m)
    <3>1. Ns!After(BOUND, m) \in Ns!Ring
      BY NsSpotIn
    <3> QED
      BY <1>0, <1>1, <3>1 DEF NsMark, NsAt
  <2>7. ASSUME NEW k \in 1 .. n + 1, NEW j \in 1 .. queue'[k].len
        PROVE  NsMark(NsReach(k - 1) + j)' = <<queue'[k].id, j>>
    <3>0. PICK m : m = NsReach(k - 1) + j
      OBVIOUS
    <3>1. k - 1 \in 0 .. n
      BY <2>4
    <3>2. NsReach(k - 1)' = NsReach(k - 1)
      BY <2>3, <3>1
    <3>3. CASE k \in 1 .. n
      <4>1. queue'[k] = queue[k]
        BY <2>5, <3>3
      <4>2. m \in 1 .. Ns!Size - 1 /\ NsMark(m) = <<queue[k].id, j>>
        BY <2>4, <3>0, <3>3, <4>1, NsSpots DEF NsHolds, NsFilled
      <4>3. NsMark(m)' = <<queue'[k].id, j>>
        BY <2>6, <4>1, <4>2
      <4> QED
        BY <3>0, <3>2, <4>3
    <3>4. CASE k = n + 1
      <4>1. queue'[k] = x /\ k - 1 = n /\ j \in 1 .. incoming.stored
        BY <1>0, <2>3, <2>4, <2>5, <3>4
      <4>2. m = NsReach(Len(queue)) + j
        BY <2>4, <3>0, <4>1
      <4>3. m \in 1 .. Ns!Size - 1 /\ NsMark(m) = <<incoming.id, j>>
        BY <4>1, <4>2, NsSpots DEF NsHolds, NsFilling
      <4>4. NsMark(m)' = <<queue'[k].id, j>>
        BY <2>3, <2>6, <4>1, <4>3
      <4> QED
        BY <3>0, <3>2, <4>4
    <3> QED
      BY <2>4, <3>3, <3>4
  <2>8. NsFilled'
    BY <2>3, <2>7 DEF NsFilled
  <2>9. NsFilling'
    BY <1>0 DEF NsFilling
  <2> QED
    BY <2>8, <2>9 DEF NsHolds
<1> QED
  BY <1>2, <1>3

LEMMA NsBoundFills ==
  ASSUME NsInStep, NsHolds, Ns!SetBound
  PROVE  NsHolds'
<1>0. UNCHANGED <<page, incoming>>
  BY DEF Ns!SetBound, Ns!adapter
<1>1. PICK n : n = Len(queue')
  OBVIOUS
<1>2. /\ queue' \in Seq(NsFrame) /\ n \in Nat /\ Len(queue) = n + 1
      /\ \A k \in 1 .. n : queue'[k] = queue[k + 1]
  BY <1>1, NsGivesBack
<1>3. /\ NsReach(1) \in Nat \ {0} /\ NsReach(n + 1) < Ns!Size /\ NsReach(n + 1) \in Nat
  BY <1>1, NsGivesBack
<1>4. \A k \in 0 .. n : /\ NsReach(k + 1) = NsReach(1) + NsReach(k)'
                        /\ NsReach(k)' \in Nat /\ NsReach(k)' <= NsReach(n)'
  BY <1>1, NsGivesBack
<1>5. ASSUME NEW b \in Nat \ {0}, NEW m, m = NsReach(1) + b, m \in 1 .. Ns!Size - 1 PROVE NsMark(b)' = NsMark(m)
  <2>1. PICK a \in Nat : b = 1 + a
    <3>1. b - 1 \in Nat /\ b = 1 + (b - 1)
      OBVIOUS
    <3> QED
      BY <3>1
  <2>2. NsReach(1) + a < Ns!Size
    BY <1>3, <1>5, <2>1, NsConstants
  <2>3. Ns!After(BOUND', 1 + a) = Ns!After(BOUND, 1 + (NsReach(1) + a))
    BY <1>1, <2>2, NsGivesBack
  <2>4. 1 + (NsReach(1) + a) = m
    BY <1>3, <1>5, <2>1
  <2>5. Ns!After(BOUND', b) = Ns!After(BOUND, m)
    BY <2>1, <2>3, <2>4
  <2> QED
    BY <1>0, <2>5 DEF NsMark, NsAt
<1>6. ASSUME NEW k \in 1 .. n, NEW j \in 1 .. queue'[k].len
      PROVE  NsMark(NsReach(k - 1) + j)' = <<queue'[k].id, j>>
  <2>1. /\ k - 1 \in 0 .. n /\ (k - 1) + 1 = k /\ k + 1 \in 1 .. Len(queue) /\ (k + 1) - 1 = k
        /\ queue'[k] = queue[k + 1]
    BY <1>2
  <2>2. NsReach(k) = NsReach(1) + NsReach(k - 1)' /\ NsReach(k - 1)' \in Nat
    BY <1>4, <2>1
  <2>3. j \in 1 .. queue[k + 1].len
    BY <2>1
  <2>4. PICK b : b = NsReach(k - 1)' + j
    OBVIOUS
  <2>5. PICK m : m = NsReach(k) + j
    OBVIOUS
  <2>6. m \in 1 .. Ns!Size - 1 /\ NsMark(m) = <<queue[k + 1].id, j>>
    <3>1. PICK l \in 1 .. Len(queue) : l = k + 1 /\ l - 1 = k
      BY <2>1
    <3>2. j \in 1 .. queue[l].len /\ m = NsReach(l - 1) + j
      BY <2>3, <2>5, <3>1
    <3>3. m \in 1 .. Ns!Size - 1 /\ NsMark(m) = <<queue[l].id, j>>
      BY <3>2, NsSpots DEF NsHolds, NsFilled
    <3> QED
      BY <3>1, <3>3
  <2>7. b \in Nat \ {0} /\ m = NsReach(1) + b
    <3>1. queue[k + 1].len \in Nat
      BY <2>1, NsDistances DEF NsInStep
    <3> QED
      BY <1>3, <2>2, <2>3, <2>4, <2>5, <3>1
  <2>8. NsMark(b)' = NsMark(m)
    BY <1>5, <2>6, <2>7
  <2>9. NsMark(b)' = <<queue'[k].id, j>>
    BY <2>1, <2>6, <2>8
  <2> QED
    BY <2>4, <2>9
<1>7. NsFilled'
  BY <1>1, <1>6 DEF NsFilled
<1>8. NsFilling'
  <2>1. ASSUME NEW j \in 1 .. incoming.stored
        PROVE  NsMark(NsReach(n) + j)' = <<incoming.id, j>>
    <3>1. /\ NsReach(n + 1) = NsReach(1) + NsReach(n)' /\ NsReach(n)' \in Nat
      BY <1>2, <1>4
    <3>2. PICK b : b = NsReach(n)' + j
      OBVIOUS
    <3>3. PICK m : m = NsReach(Len(queue)) + j
      OBVIOUS
    <3>4. m \in 1 .. Ns!Size - 1 /\ NsMark(m) = <<incoming.id, j>>
      BY <3>3, NsSpots DEF NsHolds, NsFilling
    <3>5. incoming.stored \in Nat
      BY DEF NsInStep, NsTypes
    <3>6. m = NsReach(n + 1) + j
      BY <1>2, <3>3
    <3>7. b \in Nat \ {0} /\ m = NsReach(1) + b
      BY <1>3, <3>1, <3>2, <3>5, <3>6
    <3>8. NsMark(b)' = <<incoming.id, j>>
      BY <1>5, <3>4, <3>7
    <3> QED
      BY <3>2, <3>8
  <2>2. NsReach(Len(queue))' = NsReach(n)'
    BY <1>1 DEF NsReach
  <2> QED
    BY <1>0, <2>1, <2>2 DEF NsFilling, NsMark, NsAt
<1> QED
  BY <1>7, <1>8 DEF NsHolds

LEMMA NsStaysFilled ==
  ASSUME NsInStep, NsHolds, Ns!Next
  PROVE  NsHolds'
<1> USE DEF Ns!adapter
<1>1. CASE Ns!FrameComes
  <2>1. UNCHANGED <<page, BOUND, queue>> /\ incoming'.stored = 0
    BY <1>1 DEF Ns!FrameComes
  <2> QED
    BY <2>1, NsHoldsOn
<1>2. CASE Ns!PageStored \/ Ns!FrameEnds
  BY <1>2, NsPageFills, NsEndFills
<1>3. CASE Ns!SetBound
  BY <1>3, NsBoundFills
<1>4. CASE Ns!Driver /\ ~Ns!SetBound
  <2>1. UNCHANGED <<page, BOUND, queue>> /\ (incoming' = incoming \/ incoming' = Ns!NoFrame)
    BY <1>4 DEF Ns!Driver, Ns!Poll, Ns!ReadRsr, Ns!ReadCurr, Ns!ReadHeader, Ns!ReadFirst, Ns!ReadSecond, Ns!LeaveOverrun
  <2>2. incoming' = incoming \/ incoming'.stored = 0
    BY <2>1 DEF Ns!NoFrame
  <2> QED
    BY <2>1, <2>2, NsHoldsOn
<1>5. CASE Ns!Reset
  <2>1. Len(queue') = 0 /\ incoming'.stored = 0
    BY <1>5, EmptySeq DEF Ns!Reset, Ns!NoFrame
  <2> QED
    BY <2>1 DEF NsHolds, NsFilled, NsFilling
<1> QED
  BY <1>1, <1>2, <1>3, <1>4, <1>5 DEF Ns!Next, Ns!Adapter

NsWhole == [x \in NsFrame |-> Ns!Whole(x.id, x.len)]

LEMMA NsWaits ==
  ASSUME NEW q \in Seq(NsFrame)
  PROVE  [k \in 1 .. Len(q) |-> Ns!Whole(q[k].id, q[k].len)] = Made(NsWhole, q)
<1>1. \A k \in 1 .. Len(q) : NsWhole[q[k]] = Ns!Whole(q[k].id, q[k].len)
  BY ElementOfSeq DEF NsWhole
<1> QED
  BY <1>1 DEF Made

LEMMA NsSeen ==
  ASSUME driver = "ns8390", driver' = "ns8390", queue \in Seq(NsFrame), queue' \in Seq(NsFrame)
  PROVE  /\ WaitingNow = Made(NsWhole, queue) /\ WaitingNow' = Made(NsWhole, queue')
         /\ GotNow = got /\ GotNow' = got'
<1>1. WaitingNow = [k \in 1 .. Len(queue) |-> Ns!Whole(queue[k].id, queue[k].len)]
  BY DEF WaitingNow, Ns!Waiting
<1>2. WaitingNow' = [k \in 1 .. Len(queue') |-> Ns!Whole(queue'[k].id, queue'[k].len)]
  BY DEF WaitingNow, Ns!Waiting
<1>3. GotNow = got /\ GotNow' = got'
  BY DEF GotNow
<1> QED
  BY <1>1, <1>2, <1>3, NsWaits

LEMMA NsUnmoved ==
  ASSUME driver = "ns8390", driver' = "ns8390", UNCHANGED <<queue, got>>
  PROVE  WaitingNow' = WaitingNow /\ GotNow' = GotNow /\ (clearing' = clearing => OverrunNow' = OverrunNow)
<1>1. WaitingNow' = WaitingNow
  BY DEF WaitingNow, Ns!Waiting
<1>2. GotNow' = GotNow /\ (clearing' = clearing => OverrunNow' = OverrunNow)
  BY DEF GotNow, OverrunNow
<1> QED
  BY <1>1, <1>2

LEMMA NsTyped ==
  ASSUME NsInStep
  PROVE  /\ frames \in Nat /\ frames <= NsFrames /\ NsFrames \in Nat /\ NsFrames <= Most /\ Most \in Nat
         /\ NsCame \in Int /\ NsCame <= frames
         /\ queue \in Seq(NsFrame) /\ Len(queue) \in Nat
         /\ \A k \in 1 .. Len(queue) : queue[k].id \in Nat \ {0} /\ queue[k].len \in Nat \ {0} /\ queue[k].len \in Lens
<1>1. /\ frames \in Nat /\ frames <= NsFrames /\ NsFrames \in Nat /\ NsFrames <= Most /\ Most \in Nat
      /\ queue \in Seq(NsFrame)
  BY NsConstants, MostIs DEF NsInStep, NsTypes
<1>2. NsCame \in Int /\ NsCame <= frames
  BY <1>1 DEF NsCame
<1>3. Len(queue) \in Nat /\ \A k \in 1 .. Len(queue) : queue[k] \in NsFrame
  BY <1>1, LenProperties, ElementOfSeq
<1>4. \A k \in 1 .. Len(queue) : queue[k].id \in Nat \ {0} /\ queue[k].len \in Nat \ {0} /\ queue[k].len \in Lens
  <2>1. Lens \subseteq Nat \ {0} /\ \A x \in NsFrame : x.id \in 1 .. NsFrames /\ x.len \in Lens
    BY NsConstants DEF NsFrame
  <2>2. \A j \in 1 .. NsFrames : j \in Nat \ {0}
    BY <1>1
  <2>3. ASSUME NEW k \in 1 .. Len(queue) PROVE queue[k].id \in Nat \ {0} /\ queue[k].len \in Nat \ {0} /\ queue[k].len \in Lens
    <3>1. queue[k] \in NsFrame
      BY <1>3
    <3> QED
      BY <2>1, <2>2, <3>1
  <2> QED
    BY <2>3
<1> QED
  BY <1>1, <1>2, <1>3, <1>4

\* No frame but the one that is coming.
LEMMA NsKnownOn ==
  ASSUME NsInStep, NsKnown, UNCHANGED <<queue, got>>, NsCame' \in Int, NsCame <= NsCame',
         incoming' # Ns!NoFrame => incoming'.id = frames'
  PROVE  NsKnown'
<1>1. \A k \in 1 .. Len(queue) : queue[k].id \in Nat /\ queue[k].id <= NsCame
  BY NsTyped DEF NsKnown
<1>2. NsCame \in Int
  BY NsTyped
<1>3. \A k \in 1 .. Len(queue') : queue'[k].id <= NsCame'
  BY <1>1, <1>2
<1>4. got' = <<>> \/ \E g \in 1 .. NsCame' : \E l \in Lens : got' = Ns!Whole(g, l)
  <2>1. CASE got = <<>>
    BY <2>1
  <2>2. CASE \E g \in 1 .. NsCame : \E l \in Lens : got = Ns!Whole(g, l)
    <3>1. PICK g \in 1 .. NsCame, l \in Lens : got = Ns!Whole(g, l)
      BY <2>2
    <3>2. g \in 1 .. NsCame'
      BY <1>2
    <3> QED
      BY <3>1, <3>2
  <2> QED
    BY <2>1, <2>2 DEF NsKnown
<1> QED
  BY <1>3, <1>4 DEF NsKnown

LEMMA NsEndKnown ==
  ASSUME driver = "ns8390", driver' = "ns8390", NsInStep, NsInStep', NsKnown, Ns!FrameEnds
  PROVE  NsKnown' /\ QueueStep
<1>0. /\ incoming # Ns!NoFrame /\ incoming' = Ns!NoFrame /\ frames' = frames /\ got' = got /\ clearing' = clearing
      /\ incoming.id = frames /\ incoming.id # 0 /\ incoming.len \in Lens
  BY DEF Ns!FrameEnds, NsKnown, NsInStep, NsTypes
<1>1. NsCame = frames - 1 /\ NsCame' = frames
  BY <1>0 DEF NsCame
<1>2. frames \in Nat \ {0} /\ frames <= Most /\ incoming.len \in Nat \ {0} /\ Lens \subseteq Nat \ {0}
  <2>1. frames \in Nat /\ frames <= NsFrames /\ NsFrames <= Most /\ NsFrames \in Nat /\ Most \in Nat
    BY NsTyped
  <2>2. Lens \subseteq Nat \ {0}
    BY NsConstants
  <2>3. frames # 0 /\ incoming.len \in Lens
    BY <1>0, Zenon
  <2>4. frames \in Nat \ {0} /\ frames <= Most
    BY <2>1, <2>3
  <2>5. incoming.len \in Nat \ {0}
    BY <2>2, <2>3
  <2> QED
    BY <2>2, <2>4, <2>5
<1>3. CASE queue' = queue
  <2>1. NsKnown'
    BY <1>0, <1>1, <1>2, <1>3, NsKnownOn
  <2> QED
    BY <1>0, <1>3, <2>1, NsUnmoved, Unmoved
<1>4. CASE queue' # queue
  <2>1. PICK x : /\ queue' = Append(queue, x) /\ x \in NsFrame /\ x.id = frames /\ x.len = incoming.len
    <3>1. \E good \in BOOLEAN : NsJoins(Len(queue), good)
      BY <1>4, NsEnds
    <3> QED
      BY <1>0, <3>1 DEF NsJoins
  <2>2. queue \in Seq(NsFrame) /\ queue' \in Seq(NsFrame) /\ Len(queue) \in Nat
    BY NsTyped DEF NsInStep, NsTypes
  <2>3. /\ Len(queue') = Len(queue) + 1 /\ queue'[Len(queue) + 1] = x
        /\ \A k \in 1 .. Len(queue) : queue'[k] = queue[k]
    BY <2>1, <2>2, AppendProperties
  <2>4. \A k \in 1 .. Len(queue) : queue[k].id \in Nat /\ queue[k].id <= frames - 1
    BY <1>1, NsTyped DEF NsKnown
  <2>5. NsKnown'
    <3>1. \A k \in 1 .. Len(queue') : queue'[k].id <= frames
      BY <1>2, <2>1, <2>2, <2>3, <2>4
    <3>2. got' = <<>> \/ \E g \in 1 .. frames : \E l \in Lens : got' = Ns!Whole(g, l)
      <4>1. got = <<>> \/ \E g \in 1 .. frames - 1 : \E l \in Lens : got = Ns!Whole(g, l)
        BY <1>1 DEF NsKnown
      <4>2. \A g \in 1 .. frames - 1 : g \in 1 .. frames
        BY <1>2
      <4> QED
        BY <1>0, <4>1, <4>2
    <3> QED
      BY <1>0, <1>1, <3>1, <3>2 DEF NsKnown
  <2>6. PICK f : f = Ns!Whole(frames, incoming.len)
    OBVIOUS
  <2>7. f \in Whole
    BY <1>0, <1>2, <2>6 DEF Whole
  <2>8. WaitingNow = Made(NsWhole, queue) /\ WaitingNow' = Made(NsWhole, queue') /\ GotNow = got /\ GotNow' = got'
    BY <2>2, NsSeen
  <2>9. f # GotNow
    <3>1. CASE got = <<>>
      BY <1>2, <2>6, <2>8, <3>1, WholeDiffers
    <3>2. CASE \E g \in 1 .. frames - 1 : \E l \in Lens : got = Ns!Whole(g, l)
      <4>1. PICK g \in 1 .. frames - 1, l \in Lens : got = Ns!Whole(g, l)
        BY <3>2
      <4>2. g \in Nat /\ frames # g /\ l \in Nat
        BY <1>2
      <4> QED
        BY <1>2, <2>6, <2>8, <4>1, <4>2, WholeDiffers
    <3> QED
      BY <1>1, <3>1, <3>2 DEF NsKnown
  <2>10. ASSUME NEW k \in 1 .. Len(WaitingNow) PROVE WaitingNow[k] # f
    <3>1. k \in 1 .. Len(queue) /\ WaitingNow[k] = Ns!Whole(queue[k].id, queue[k].len)
      <4>1. Len(WaitingNow) = Len(queue)
        BY <2>2, <2>8, MadeSeq
      <4>2. k \in 1 .. Len(queue) /\ queue[k] \in NsFrame
        BY <2>2, <4>1, ElementOfSeq
      <4>3. WaitingNow[k] = NsWhole[queue[k]]
        BY <2>8, <4>2, MadeIs
      <4> QED
        BY <4>2, <4>3 DEF NsWhole
    <3>2. queue[k].id \in Nat /\ frames # queue[k].id /\ queue[k].len \in Nat
      BY <1>2, <2>4, <3>1, NsTyped
    <3> QED
      BY <1>2, <2>6, <3>1, <3>2, WholeDiffers
  <2>11. WaitingNow' = Append(WaitingNow, f)
    <3>1. Made(NsWhole, Append(queue, x)) = Append(Made(NsWhole, queue), NsWhole[x])
      BY <2>1, <2>2, MadeAppend
    <3>2. NsWhole[x] = f
      BY <2>1, <2>6 DEF NsWhole
    <3> QED
      BY <2>1, <2>8, <3>1, <3>2
  <2>12. OverrunNow' = OverrunNow
    BY <1>0 DEF OverrunNow
  <2>13. QueueStep
    BY <1>0, <2>7, <2>8, <2>9, <2>10, <2>11, <2>12, Comes
  <2> QED
    BY <2>5, <2>13
<1> QED
  BY <1>3, <1>4

\* The pages of the oldest frame, as eth_receive_1 reads them.
LEMMA NsOldestFilled ==
  ASSUME NsInStep, NsHolds, queue # <<>>
  PROVE  /\ queue[1].len \in Nat \ {0} /\ queue[1].len < Ns!Size
         /\ \A j \in 1 .. queue[1].len : NsMark(j) = <<queue[1].id, j>>
<1>1. /\ 1 \in 1 .. Len(queue) /\ queue[1].len \in Nat \ {0} /\ NsReach(1) = queue[1].len
      /\ NsReach(1) <= NsReach(Len(queue)) /\ NsReach(Len(queue)) < Ns!Size
  BY NsOldest
<1>2. NsReach(Len(queue)) \in Nat /\ NsReach(1 - 1) = 0 /\ Ns!Size \in Nat
  BY NsDistances, NsConstants DEF NsInStep
<1>3. queue[1].len < Ns!Size
  BY <1>1, <1>2
<1>4. ASSUME NEW j \in 1 .. queue[1].len PROVE NsMark(j) = <<queue[1].id, j>>
  <2>1. NsMark(NsReach(1 - 1) + j) = <<queue[1].id, j>>
    BY <1>1 DEF NsHolds, NsFilled
  <2>2. NsReach(1 - 1) + j = j
    BY <1>2
  <2> QED
    BY <2>1, <2>2
<1> QED
  BY <1>1, <1>3, <1>4

LEMMA NsFirstPages ==
  ASSUME NsInStep, NsHolds, queue # <<>>, next = Ns!After(BOUND, 1),
         NEW n \in Nat, n <= Ns!Frag(next), n <= queue[1].len
  PROVE  Ns!Copy(next, n) = Ns!Whole(queue[1].id, n)
<1>0. BOUND \in Ns!Ring /\ next \in Ns!Ring
  BY DEF NsInStep, NsTypes
<1>1. ASSUME NEW j \in 1 .. n PROVE <<page[next + j - 1].id, page[next + j - 1].part>> = <<queue[1].id, j>>
  <2>1. queue[1].len \in Nat \ {0} /\ queue[1].len < Ns!Size /\ j \in 1 .. queue[1].len
    BY NsOldestFilled
  <2>2. NsMark(j) = <<queue[1].id, j>>
    BY <2>1, NsOldestFilled
  <2>3. PICK a \in Nat : j = 1 + a
    <3>1. j - 1 \in Nat /\ j = 1 + (j - 1)
      OBVIOUS
    <3> QED
      BY <3>1
  <2>4. Ns!After(BOUND, j) = Ns!After(next, a)
    <3>1. 1 + a <= Ns!Size
      BY <2>1, <2>3, NsConstants
    <3>2. Ns!After(Ns!After(BOUND, 1), a) = Ns!After(BOUND, 1 + a)
      BY <1>0, <3>1, AfterAfter
    <3> QED
      BY <2>3, <3>2
  <2>5. Ns!After(next, a) = next + j - 1
    <3>1. a \in 0 .. Ns!Size /\ next + a < STOP_PG /\ next + a = next + j - 1
      BY <1>0, <2>1, <2>3, NsConstants DEF Ns!Frag, Ns!Ring
    <3>2. Ns!After(next, a) = IF next + a < STOP_PG THEN next + a ELSE next + a - Ns!Size
      BY <1>0, <3>1, AfterIs
    <3> QED
      BY <3>1, <3>2
  <2>6. NsMark(j) = <<page[next + j - 1].id, page[next + j - 1].part>>
    BY <2>4, <2>5 DEF NsMark, NsAt
  <2> QED
    BY <2>2, <2>6
<1> QED
  BY <1>1 DEF Ns!Copy, Ns!Whole

LEMMA NsOtherPages ==
  ASSUME NsInStep, NsHolds, queue # <<>>, next = Ns!After(BOUND, 1),
         NEW F \in Nat, F = Ns!Frag(next), F < queue[1].len
  PROVE  Ns!Copy(RX_START, queue[1].len - F) = [j \in 1 .. queue[1].len - F |-> <<queue[1].id, F + j>>]
<1>0. BOUND \in Ns!Ring /\ next \in Ns!Ring /\ queue[1].len \in Nat \ {0} /\ queue[1].len < Ns!Size
  BY NsOldestFilled DEF NsInStep, NsTypes
<1>1. ASSUME NEW j \in 1 .. queue[1].len - F
      PROVE  <<page[RX_START + j - 1].id, page[RX_START + j - 1].part>> = <<queue[1].id, F + j>>
  <2>1. F + j \in 1 .. queue[1].len
    BY <1>0
  <2>2. NsMark(F + j) = <<queue[1].id, F + j>>
    BY <2>1, NsOldestFilled
  <2>3. PICK a \in Nat : F + j = 1 + a
    <3>1. F + j - 1 \in Nat /\ F + j = 1 + (F + j - 1)
      OBVIOUS
    <3> QED
      BY <3>1
  <2>4. Ns!After(BOUND, F + j) = Ns!After(next, a)
    <3>1. 1 + a <= Ns!Size
      BY <1>0, <2>1, <2>3, NsConstants
    <3>2. Ns!After(Ns!After(BOUND, 1), a) = Ns!After(BOUND, 1 + a)
      BY <1>0, <3>1, AfterAfter
    <3> QED
      BY <2>3, <3>2
  <2>5. Ns!After(next, a) = RX_START + j - 1
    <3>1. a \in 0 .. Ns!Size /\ ~(next + a < STOP_PG) /\ next + a - Ns!Size = RX_START + j - 1
      <4>1. F = STOP_PG - next
        BY DEF Ns!Frag
      <4>2. next \in Nat
        BY <1>0, NsConstants DEF Ns!Ring
      <4>3. a \in 0 .. Ns!Size
        BY <1>0, <2>1, <2>3, NsConstants
      <4>4. STOP_PG = RX_START + Ns!Size /\ RX_START \in Nat /\ Ns!Size \in Nat
        BY NsConstants
      <4>5. j \in Nat /\ j >= 1
        BY <1>0
      <4> QED
        BY <2>3, <4>1, <4>2, <4>3, <4>4, <4>5
    <3>2. Ns!After(next, a) = IF next + a < STOP_PG THEN next + a ELSE next + a - Ns!Size
      BY <1>0, <3>1, AfterIs
    <3> QED
      BY <3>1, <3>2
  <2>6. NsMark(F + j) = <<page[RX_START + j - 1].id, page[RX_START + j - 1].part>>
    BY <2>4, <2>5 DEF NsMark, NsAt
  <2> QED
    BY <2>2, <2>6
<1> QED
  BY <1>1 DEF Ns!Copy

\* The two parts of a frame make it whole.
LEMMA WholeOfParts ==
  ASSUME NEW k, NEW a \in Nat, NEW n \in Nat, a <= n
  PROVE  Ns!Whole(k, a) \o [j \in 1 .. n - a |-> <<k, a + j>>] = Ns!Whole(k, n)
<1>1. PICK S : S = {k} \X Nat
  OBVIOUS
<1>2. PICK s : s = Ns!Whole(k, a)
  OBVIOUS
<1>3. PICK t : t = [j \in 1 .. n - a |-> <<k, a + j>>]
  OBVIOUS
<1>4. PICK w : w = Ns!Whole(k, n)
  OBVIOUS
<1>5. s \in [1 .. a -> S] /\ \A j \in 1 .. a : s[j] = <<k, j>>
  BY <1>1, <1>2 DEF Ns!Whole
<1>6. t \in [1 .. n - a -> S] /\ \A j \in 1 .. n - a : t[j] = <<k, a + j>>
  BY <1>1, <1>3
<1>7. w \in [1 .. n -> S] /\ \A j \in 1 .. n : w[j] = <<k, j>>
  BY <1>1, <1>4 DEF Ns!Whole
<1>8. n - a \in Nat
  OBVIOUS
<1>9. s \in Seq(S) /\ t \in Seq(S) /\ w \in Seq(S)
  BY <1>5, <1>6, <1>7, <1>8, SeqDef
<1>10. Len(s) = a /\ Len(t) = n - a /\ Len(w) = n
  BY <1>5, <1>6, <1>7, <1>8, <1>9, LenProperties
<1>11. /\ s \o t \in Seq(S) /\ Len(s \o t) = Len(s) + Len(t)
       /\ \A j \in 1 .. Len(s) + Len(t) : (s \o t)[j] = IF j <= Len(s) THEN s[j] ELSE t[j - Len(s)]
  BY <1>9, ConcatProperties
<1>12. PICK c : c = s \o t
  OBVIOUS
<1>13. c \in Seq(S) /\ Len(c) = n /\ \A j \in 1 .. n : c[j] = IF j <= a THEN s[j] ELSE t[j - a]
  BY <1>10, <1>11, <1>12
<1>14. ASSUME NEW j \in 1 .. n PROVE c[j] = w[j]
  <2>1. CASE j <= a
    <3>1. j \in 1 .. a
      BY <2>1
    <3> QED
      BY <1>5, <1>7, <1>13, <2>1, <3>1
  <2>2. CASE ~(j <= a)
    <3>1. j - a \in 1 .. n - a /\ a + (j - a) = j
      BY <2>2
    <3> QED
      BY <1>6, <1>7, <1>13, <2>2, <3>1
  <2> QED
    BY <2>1, <2>2
<1>15. c = w
  BY <1>9, <1>10, <1>13, <1>14, SeqEqual
<1> QED
  BY <1>2, <1>3, <1>4, <1>12, <1>15

\* The driver reads: nothing comes or goes.
LEMMA NsMoves ==
  ASSUME driver = "ns8390", driver' = "ns8390", NsInStep, NsKnown, UNCHANGED <<queue, got, frames>>,
         incoming' = incoming \/ incoming' = Ns!NoFrame,
         clearing' = clearing \/ OverrunNow' = ~OverrunNow
  PROVE  NsKnown' /\ QueueStep
<1>1. NsCame' \in Int /\ NsCame <= NsCame' /\ (incoming' # Ns!NoFrame => incoming'.id = frames')
  BY NsTyped DEF NsCame, NsKnown
<1>2. NsKnown'
  BY <1>1, NsKnownOn
<1>3. QueueStep
  BY NsUnmoved, Unmoved, Overruns
<1> QED
  BY <1>2, <1>3

LEMMA NsBufferOn ==
  ASSUME NsInStep, NsBuffer, UNCHANGED <<pc, clearing, next, buf>>, queue # <<>> => queue'[1] = queue[1]
  PROVE  NsBuffer'
<1>1. pc \in {"second", "bound"} => queue # <<>>
  BY DEF NsInStep, NsPlace
<1> QED
  BY <1>1 DEF NsBuffer, Ns!Frag

LEMMA NsReadsPart ==
  ASSUME driver = "ns8390", driver' = "ns8390", NsInStep, NsHolds, NsKnown, NsBuffer, Ns!ReadFirst \/ Ns!ReadSecond
  PROVE  NsBuffer' /\ NsKnown' /\ QueueStep
<1> USE DEF Ns!adapter, Ns!Goto
<1>1. /\ UNCHANGED <<queue, got, frames, incoming, clearing, next>> /\ pc \in {"first", "second"}
      /\ pc' \in {"second", "bound"}
  BY DEF Ns!ReadFirst, Ns!ReadSecond
<1>2. NsKnown' /\ QueueStep
  BY <1>1, NsMoves
<1>3. CASE clearing
  BY <1>1, <1>2, <1>3 DEF NsBuffer
<1>4. CASE ~clearing
  <2>1. /\ next = Ns!After(BOUND, 1) /\ queue # <<>> /\ pkthdr = NsHeader(1) /\ next \in Ns!Ring
    BY <1>1 DEF NsInStep, NsPlace, NsTypes
  <2>2. pkthdr.len = queue[1].len /\ queue[1].len \in Nat \ {0} /\ queue[1].len < Ns!Size
    BY <2>1, NsOldestFilled DEF NsHeader
  <2>3. Ns!Frag(next) \in Nat
    BY <2>1, NsConstants DEF Ns!Ring, Ns!Frag
  <2>4. CASE Ns!ReadFirst
    <3>1. CASE queue[1].len > Ns!Frag(next)
      <4>1. buf' = Ns!Copy(next, Ns!Frag(next)) /\ pc' = "second" /\ Ns!Frag(next) < queue[1].len
        BY <1>4, <2>2, <2>3, <2>4, <3>1 DEF Ns!ReadFirst
      <4>2. Ns!Copy(next, Ns!Frag(next)) = Ns!Whole(queue[1].id, Ns!Frag(next))
        BY <2>1, <2>2, <2>3, <3>1, NsFirstPages
      <4> QED
        BY <1>1, <1>2, <4>1, <4>2 DEF NsBuffer, Ns!Frag
    <3>2. CASE ~(queue[1].len > Ns!Frag(next))
      <4>1. buf' = Ns!Copy(next, queue[1].len) /\ pc' = "bound"
        BY <1>4, <2>2, <2>3, <2>4, <3>2 DEF Ns!ReadFirst
      <4>2. Ns!Copy(next, queue[1].len) = Ns!Whole(queue[1].id, queue[1].len)
        BY <2>1, <2>2, <2>3, <3>2, NsFirstPages
      <4> QED
        BY <1>1, <1>2, <4>1, <4>2 DEF NsBuffer
    <3> QED
      BY <3>1, <3>2
  <2>5. CASE Ns!ReadSecond
    <3>1. PICK F : F = Ns!Frag(next)
      OBVIOUS
    <3>2. /\ pc' = "bound" /\ buf' = buf \o Ns!Copy(RX_START, queue[1].len - F)
          /\ F < queue[1].len /\ buf = Ns!Whole(queue[1].id, F) /\ F \in Nat
      BY <1>4, <2>2, <2>3, <2>5, <3>1 DEF Ns!ReadSecond, NsBuffer
    <3>3. Ns!Copy(RX_START, queue[1].len - F) = [j \in 1 .. queue[1].len - F |-> <<queue[1].id, F + j>>]
      BY <2>1, <3>1, <3>2, NsOtherPages
    <3>4. Ns!Whole(queue[1].id, F) \o [j \in 1 .. queue[1].len - F |-> <<queue[1].id, F + j>>]
            = Ns!Whole(queue[1].id, queue[1].len)
      <4>1. queue[1].len \in Nat /\ F \in Nat /\ F <= queue[1].len
        BY <2>2, <3>2
      <4> QED
        BY <4>1, WholeOfParts, Zenon
    <3>5. buf' = Ns!Whole(queue[1].id, queue[1].len)
      BY <3>2, <3>3, <3>4
    <3> QED
      BY <1>1, <1>2, <3>2, <3>5 DEF NsBuffer
  <2> QED
    BY <2>4, <2>5
<1> QED
  BY <1>3, <1>4

LEMMA NsDriverMoves ==
  ASSUME driver = "ns8390", driver' = "ns8390", NsInStep, NsHolds, NsKnown, NsBuffer, Ns!Driver, ~Ns!SetBound
  PROVE  NsBuffer' /\ NsKnown' /\ QueueStep
<1> USE DEF Ns!adapter, Ns!Goto, Ns!Nothing
<1>1. CASE Ns!Poll
  <2>1. /\ UNCHANGED <<queue, got, frames>> /\ (incoming' = incoming \/ incoming' = Ns!NoFrame)
        /\ pc = "poll" /\ pc' = "rsr" /\ clearing' = OVW /\ ~clearing
    BY <1>1 DEF Ns!Poll, NsBuffer
  <2>2. NsBuffer'
    BY <2>1 DEF NsBuffer
  <2>3. CASE OVW
    <3>1. OverrunNow' = ~OverrunNow
      BY <2>1, <2>3 DEF OverrunNow
    <3> QED
      BY <2>1, <2>2, <3>1, NsMoves
  <2>4. CASE ~OVW
    <3>1. OverrunNow' = OverrunNow
      BY <2>1, <2>4 DEF OverrunNow
    <3>2. WaitingNow' = WaitingNow /\ GotNow' = GotNow
      BY <2>1, NsUnmoved
    <3>3. QueueStep
      BY <3>1, <3>2, Unmoved
    <3>4. NsCame' \in Int /\ NsCame <= NsCame' /\ (incoming' # Ns!NoFrame => incoming'.id = frames')
      BY <2>1, NsTyped DEF NsCame, NsKnown
    <3>5. NsKnown'
      BY <2>1, <3>4, NsKnownOn
    <3> QED
      BY <2>2, <3>3, <3>5
  <2> QED
    BY <2>3, <2>4
<1>2. CASE Ns!ReadRsr \/ Ns!ReadCurr \/ Ns!ReadHeader
  <2>1. /\ UNCHANGED <<queue, got, frames, incoming, clearing>>
        /\ pc' \in {"curr", "header", "first"} \/ pc' = (IF clearing THEN "ack" ELSE "poll")
    BY <1>2 DEF Ns!ReadRsr, Ns!ReadCurr, Ns!ReadHeader
  <2>2. NsBuffer'
    BY <2>1 DEF NsBuffer
  <2>3. NsKnown' /\ QueueStep
    BY <2>1, NsMoves
  <2> QED
    BY <2>2, <2>3
<1>3. CASE Ns!ReadFirst \/ Ns!ReadSecond
  BY <1>3, NsReadsPart
<1>4. CASE Ns!LeaveOverrun
  <2>1. /\ UNCHANGED <<queue, got, frames, incoming>> /\ pc' = "poll" /\ clearing' = FALSE /\ clearing
    BY <1>4 DEF Ns!LeaveOverrun, NsBuffer
  <2>2. NsBuffer'
    BY <2>1 DEF NsBuffer
  <2>3. OverrunNow' = ~OverrunNow
    BY <2>1 DEF OverrunNow
  <2> QED
    BY <2>1, <2>2, <2>3, NsMoves
<1> QED
  BY <1>1, <1>2, <1>3, <1>4 DEF Ns!Driver

\* The oldest frame is passed on, or lost while the ring is cleared.
LEMMA NsPassesOne ==
  ASSUME driver = "ns8390", driver' = "ns8390", NsInStep, NsInStep', NsKnown, NsBuffer, Ns!SetBound
  PROVE  NsBuffer' /\ NsKnown' /\ QueueStep
<1>1. /\ pc = "bound" /\ UNCHANGED <<frames, incoming, clearing>>
      /\ pc' = (IF clearing THEN "rsr" ELSE "poll") /\ got' = (IF clearing THEN got ELSE buf)
  BY DEF Ns!SetBound, Ns!Goto, Ns!adapter
<1>2. NsBuffer'
  BY <1>1 DEF NsBuffer
<1>3. PICK n : n = Len(queue')
  OBVIOUS
<1>4. /\ queue # <<>> /\ queue \in Seq(NsFrame) /\ queue' \in Seq(NsFrame) /\ queue' = Tail(queue)
      /\ n \in Nat /\ Len(queue) = n + 1 /\ \A k \in 1 .. n : queue'[k] = queue[k + 1]
  BY <1>3, NsGivesBack
<1>5. NsCame' = NsCame /\ (incoming' # Ns!NoFrame => incoming'.id = frames')
  BY <1>1 DEF NsCame, NsKnown
<1>6. \A k \in 1 .. Len(queue') : queue'[k].id <= NsCame
  BY <1>3, <1>4 DEF NsKnown
<1>7. /\ WaitingNow = Made(NsWhole, queue) /\ WaitingNow' = Made(NsWhole, queue')
      /\ GotNow = got /\ GotNow' = got'
  BY <1>4, NsSeen
<1>8. /\ WaitingNow # <<>> /\ Head(WaitingNow) = NsWhole[Head(queue)] /\ WaitingNow' = Tail(WaitingNow)
  <2>1. /\ Made(NsWhole, queue) # <<>> /\ Head(Made(NsWhole, queue)) = NsWhole[Head(queue)]
        /\ Made(NsWhole, Tail(queue)) = Tail(Made(NsWhole, queue))
    BY <1>4, MadeTail
  <2> QED
    BY <1>4, <1>7, <2>1
<1>9. OverrunNow' = OverrunNow
  BY <1>1 DEF OverrunNow
<1>10. CASE clearing
  <2>1. got' = got
    BY <1>1, <1>10
  <2>2. NsKnown'
    BY <1>5, <1>6, <2>1 DEF NsKnown
  <2>3. OverrunNow
    BY <1>10 DEF OverrunNow
  <2> QED
    BY <1>2, <1>7, <1>8, <1>9, <2>1, <2>2, <2>3, LosesOldest
<1>11. CASE ~clearing
  <2>1. got' = Ns!Whole(queue[1].id, queue[1].len)
    BY <1>1, <1>11 DEF NsBuffer
  <2>2. 1 \in 1 .. Len(queue) /\ Head(queue) = queue[1] /\ queue[1] \in NsFrame
    BY <1>4, ElementOfSeq
  <2>3. GotNow' = Head(WaitingNow)
    BY <1>7, <1>8, <2>1, <2>2 DEF NsWhole
  <2>4. queue[1].id \in 1 .. NsCame /\ queue[1].len \in Lens
    BY <2>2, NsTyped DEF NsKnown
  <2>5. NsKnown'
    BY <1>5, <1>6, <2>1, <2>4 DEF NsKnown
  <2> QED
    BY <1>2, <1>8, <1>9, <2>3, <2>5, IsPassedOn
<1> QED
  BY <1>10, <1>11

LEMMA NsPassesOn ==
  ASSUME driver = "ns8390", driver' = "ns8390", NsInStep, NsInStep', NsHolds, NsKnown, NsBuffer, Ns!Next
  PROVE  NsBuffer' /\ NsKnown' /\ QueueStep
<1>1. CASE Ns!FrameComes
  <2>1. /\ UNCHANGED <<queue, got, pc, clearing, next, buf>> /\ incoming = Ns!NoFrame /\ frames' = frames + 1
        /\ incoming'.id = frames'
    BY <1>1 DEF Ns!FrameComes
  <2>2. incoming' # Ns!NoFrame
    BY <2>1, NsTyped DEF Ns!NoFrame
  <2>3. NsCame' = NsCame /\ NsCame \in Int
    BY <2>1, <2>2, NsTyped DEF NsCame
  <2>4. NsKnown'
    BY <2>1, <2>3, NsKnownOn
  <2>5. NsBuffer'
    BY <2>1, NsBufferOn
  <2> QED
    BY <2>1, <2>4, <2>5, NsUnmoved, Unmoved
<1>2. CASE Ns!PageStored
  <2>1. UNCHANGED <<queue, got, frames, pc, clearing, next, buf>> /\ incoming # Ns!NoFrame
    BY <1>2 DEF Ns!PageStored
  <2>2. incoming' = Ns!NoFrame \/ incoming'.id = incoming.id
    BY <1>2 DEF Ns!PageStored, NsInStep, NsTypes
  <2>3. NsCame' \in Int /\ NsCame <= NsCame' /\ (incoming' # Ns!NoFrame => incoming'.id = frames')
    BY <2>1, <2>2, NsTyped DEF NsCame, NsKnown
  <2>4. NsKnown' /\ NsBuffer'
    BY <2>1, <2>3, NsKnownOn, NsBufferOn
  <2> QED
    BY <2>1, <2>4, NsUnmoved, Unmoved
<1>3. CASE Ns!FrameEnds
  <2>1. UNCHANGED <<pc, clearing, next, buf>> /\ (queue' = queue \/ \E x : queue' = Append(queue, x) /\ x \in NsFrame)
    <3>1. UNCHANGED <<pc, clearing, next, buf>>
      BY <1>3 DEF Ns!FrameEnds
    <3>2. queue' # queue => \E x : queue' = Append(queue, x) /\ x \in NsFrame
      <4>1. queue' # queue => \E good \in BOOLEAN : NsJoins(Len(queue), good)
        BY <1>3, NsEnds
      <4> QED
        BY <4>1 DEF NsJoins
    <3> QED
      BY <3>1, <3>2
  <2>2. queue # <<>> => queue'[1] = queue[1]
    <3>1. queue \in Seq(NsFrame)
      BY NsTyped
    <3>2. ASSUME queue # <<>>, NEW x \in NsFrame PROVE Append(queue, x)[1] = queue[1]
      <4>1. 1 \in 1 .. Len(queue)
        BY <3>1, <3>2, EmptySeq
      <4> QED
        BY <3>1, <4>1, AppendProperties
    <3> QED
      BY <2>1, <3>2
  <2> QED
    BY <1>3, <2>1, <2>2, NsBufferOn, NsEndKnown
<1>4. CASE Ns!SetBound
  BY <1>4, NsPassesOne
<1>5. CASE Ns!Driver /\ ~Ns!SetBound
  BY <1>5, NsDriverMoves
<1>6. CASE Ns!Reset
  <2>1. /\ pc = "poll" /\ UNCHANGED <<pc, clearing, got, frames>> /\ incoming' = Ns!NoFrame /\ queue' = <<>>
    BY <1>6 DEF Ns!Reset
  <2>2. NsBuffer' /\ ~clearing'
    BY <2>1 DEF NsBuffer
  <2>3. NsCame' = frames /\ frames \in Int /\ NsCame <= frames /\ NsCame \in Int
    BY <2>1, NsTyped DEF NsCame
  <2>4. NsKnown'
    <3>1. Len(queue') = 0
      BY <2>1, EmptySeq
    <3>2. got' = <<>> \/ \E g \in 1 .. frames : \E l \in Lens : got' = Ns!Whole(g, l)
      <4>1. \A g \in 1 .. NsCame : g \in 1 .. frames
        BY <2>3
      <4> QED
        BY <2>1, <4>1 DEF NsKnown
    <3> QED
      BY <2>1, <2>3, <3>1, <3>2 DEF NsKnown
  <2>5. WaitingNow' = <<>>
    <3>1. queue \in Seq(NsFrame) /\ queue' \in Seq(NsFrame)
      BY <2>1, NsTyped
    <3>2. WaitingNow' = Made(NsWhole, queue')
      BY <3>1, NsSeen
    <3> QED
      BY <2>1, <3>2 DEF Made
  <2>6. GotNow' = GotNow /\ OverrunNow' = FALSE
    BY <2>1, <2>2 DEF GotNow, OverrunNow
  <2> QED
    BY <2>2, <2>4, <2>5, <2>6, IsSetUp
<1> QED
  BY <1>1, <1>2, <1>3, <1>4, <1>5, <1>6 DEF Ns!Next, Ns!Adapter

----------------------------------------------------------------------------
(* All of them *)

NsPromise == NsInStep /\ NsHolds /\ NsKnown /\ NsBuffer
PcnetPromise == RxFollows /\ PcnetKnown
SmcPromise == SmcMemory /\ SmcKnown

QueueInv ==
  /\ driver = "ns8390" => NsPromise
  /\ driver = "pcnet32" => PcnetPromise
  /\ driver = "smc9000" => SmcPromise
  /\ driver = "cs89x0" => CsKnown

LEMMA QueueInvStarts ==
  ASSUME Init
  PROVE  QueueInv /\ Queue!QueueInit
<1>1. CASE driver = "ns8390" /\ Ns!Init
  <2>1. /\ incoming = Ns!NoFrame /\ frames = 0 /\ pc = "poll" /\ clearing = FALSE /\ got = <<>> /\ queue = <<>>
        /\ Len(<<>>) = 0
    BY <1>1, EmptySeq DEF Ns!Init
  <2>2. NsInStep
    BY <1>1, NsStarts
  <2>3. NsHolds
    BY <2>1 DEF NsHolds, NsFilled, NsFilling, Ns!NoFrame
  <2>4. NsKnown /\ NsBuffer
    BY <2>1 DEF NsKnown, NsBuffer
  <2>5. WaitingNow = <<>> /\ GotNow = <<>> /\ OverrunNow = FALSE
    BY <1>1, <2>1 DEF WaitingNow, Ns!Waiting, GotNow, OverrunNow
  <2> QED
    BY <1>1, <2>2, <2>3, <2>4, <2>5 DEF QueueInv, NsPromise, Queue!QueueInit
<1>2. CASE driver = "pcnet32" /\ Pcnet!Init
  <2>1. arrived = <<>> /\ got = 0 /\ rxFrames = 0 /\ Len(<<>>) = 0
    BY <1>2, EmptySeq DEF Pcnet!Init
  <2>2. PcnetKnown
    BY <2>1 DEF PcnetKnown
  <2>3. RxFollows
    BY <1>2, RxBegins
  <2>4. WaitingNow = <<>> /\ GotNow = <<>> /\ OverrunNow = FALSE
    BY <1>2, <2>1, PcnetSeen, EachOfNone DEF One
  <2> QED
    BY <1>2, <2>2, <2>3, <2>4 DEF QueueInv, PcnetPromise, Queue!QueueInit
<1>3. CASE driver = "smc9000" /\ Smc!Init
  <2>1. rx = <<>> /\ got = 0 /\ frames = 0 /\ incoming = Smc!NoFrame /\ Len(<<>>) = 0
    BY <1>3, EmptySeq DEF Smc!Init
  <2>2. SmcKnown
    BY <2>1 DEF SmcKnown, SmcCame
  <2>3. SmcMemory
    BY <1>3, SmcBegins
  <2>4. WaitingNow = <<>> /\ GotNow = <<>> /\ OverrunNow = FALSE
    BY <1>3, <2>1, SmcSeen, GoodOfNone, EachOfNone DEF One
  <2> QED
    BY <1>3, <2>2, <2>3, <2>4 DEF QueueInv, SmcPromise, Queue!QueueInit
<1>4. CASE driver = "cs89x0" /\ Cs!Init
  <2>1. rx = [p \in Ports |-> <<>>] /\ got = 0 /\ frames = 0 /\ eth_nic_base = NoPort /\ Len(<<>>) = 0
    BY <1>4, EmptySeq DEF Cs!Init
  <2>2. CsFrames \in Nat
    BY EthernetConstantsOK DEF Cs!Cs89x0ConstantsOK
  <2>3. CsKnown
    <3>1. rx \in [Ports -> Seq(Nat)] /\ \A p \in Ports : Len(rx[p]) = 0
      BY <2>1, EmptySeq
    <3> QED
      BY <2>1, <2>2, <3>1 DEF CsKnown
  <2>4. WaitingNow = <<>> /\ GotNow = <<>> /\ OverrunNow = FALSE
    BY <1>4, <2>1, CsSeen, EachOfNone DEF One, Cs!Waiting
  <2> QED
    BY <1>4, <2>3, <2>4 DEF QueueInv, Queue!QueueInit
<1> QED
  BY <1>1, <1>2, <1>3, <1>4 DEF Init

LEMMA NothingMoves ==
  ASSUME QueueInv, UNCHANGED vars
  PROVE  QueueInv' /\ QueueStep
<1> USE DEF vars, nsVars, pcnetVars, smcVars, csVars
<1>1. NsPromise' = NsPromise
  BY DEF NsPromise, NsInStep, NsTypes, NsRoom, NsHeaders, NsHeader, NsAt, NsReach, NsPlace,
         NsHolds, NsFilled, NsFilling, NsMark, NsKnown, NsCame, NsBuffer
<1>2. RxFollows => RxFollows'
  BY RxUnmoved
<1>3. PcnetPromise => PcnetPromise'
  BY <1>2 DEF PcnetPromise, PcnetKnown
<1>4. SmcPromise' = SmcPromise
  BY DEF SmcPromise, SmcMemory, SmcTypes, SmcPacket, SmcPages, Held, SmcKnown, SmcCame
<1>5. CsKnown' = CsKnown
  BY DEF CsKnown
<1>6. WaitingNow' = WaitingNow /\ GotNow' = GotNow /\ OverrunNow' = OverrunNow
  BY DEF WaitingNow, Ns!Waiting, Smc!Waiting, Cs!Waiting, GotNow, OverrunNow
<1>7. QueueInv'
  BY <1>1, <1>3, <1>4, <1>5 DEF QueueInv
<1> QED
  BY <1>6, <1>7, Unmoved

LEMMA QueueInvHolds ==
  ASSUME QueueInv, Next
  PROVE  QueueInv' /\ QueueStep
<1>1. CASE OnlyNs /\ Ns!Next
  <2>1. driver = "ns8390" /\ driver' = "ns8390"
    BY <1>1 DEF OnlyNs, Only
  <2>2. NsPromise
    BY <2>1 DEF QueueInv
  <2>3. NsInStep' /\ NsHolds'
    BY <1>1, <2>2, NsStaysInStep, NsStaysFilled DEF NsPromise
  <2>4. NsBuffer' /\ NsKnown' /\ QueueStep
    BY <1>1, <2>1, <2>2, <2>3, NsPassesOn DEF NsPromise
  <2> QED
    BY <2>1, <2>3, <2>4 DEF QueueInv, NsPromise
<1>2. CASE OnlyPcnet /\ Pcnet!Next
  <2>1. driver = "pcnet32" /\ driver' = "pcnet32"
    BY <1>2 DEF OnlyPcnet, Only
  <2>2. PcnetPromise
    BY <2>1 DEF QueueInv
  <2>3. RxFollows' /\ PcnetKnown' /\ QueueStep
    BY <1>2, <2>1, <2>2, RxStaysInStep, PcnetPassesOn DEF PcnetPromise
  <2> QED
    BY <2>1, <2>3 DEF QueueInv, PcnetPromise
<1>3. CASE OnlySmc /\ Smc!Next
  <2>1. driver = "smc9000" /\ driver' = "smc9000"
    BY <1>3 DEF OnlySmc, Only
  <2>2. SmcPromise
    BY <2>1 DEF QueueInv
  <2>3. SmcMemory'
    BY <1>3, <2>2, SmcChipKeeps, SmcCallKeeps, SmcDriverKeeps DEF SmcPromise, Smc!Next
  <2>4. SmcKnown' /\ QueueStep
    BY <1>3, <2>1, <2>2, SmcPassesOn DEF SmcPromise
  <2> QED
    BY <2>1, <2>3, <2>4 DEF QueueInv, SmcPromise
<1>4. CASE OnlyCs /\ Cs!Next
  <2>1. driver = "cs89x0" /\ driver' = "cs89x0"
    BY <1>4 DEF OnlyCs, Only
  <2>2. CsKnown' /\ QueueStep
    BY <1>4, <2>1, CsPassesOn DEF QueueInv
  <2> QED
    BY <2>1, <2>2 DEF QueueInv
<1> QED
  BY <1>1, <1>2, <1>3, <1>4 DEF Next

\* Every driver passes on what its adapter receives, in order, each frame once and whole;
\* what waits goes only when the adapter is set up afresh, or the oldest in an overrun.
THEOREM FramesArePassedOn == Spec => KeepsFrameQueue
<1>1. Init => QueueInv /\ Queue!QueueInit
  BY QueueInvStarts
<1>2. QueueInv /\ [Next]_vars => QueueInv'
  BY NothingMoves, QueueInvHolds
<1>3. QueueInv /\ [Next]_vars => [Queue!QueueNext]_<<WaitingNow, GotNow, OverrunNow>>
  BY NothingMoves, QueueInvHolds DEF QueueStep
<1> QED
  BY <1>1, <1>2, <1>3, PTL DEF Spec, KeepsFrameQueue, Queue!QueueSpec
=============================================================================
