------------------------------- MODULE Ns8390 -------------------------------
(***************************************************************************)
(* ns8390.c: the driver of an NE2000-like adapter and its ring of receive  *)
(* pages.  The adapter (external) stores frames page by page and moves     *)
(* CURR; the driver polls, reads what is behind BOUND and moves BOUND; the  *)
(* two run at the same time.  Lengths are counted in pages.                *)
(***************************************************************************)
EXTENDS Integers, Sequences

CONSTANTS
  RX_START, STOP_PG,    \* the ring is the pages from the one to before the other
  Lens,                 \* lengths of frames
  MaxFrames             \* bound: frames that come

RingConstantsOK ==
  /\ RX_START \in Nat /\ STOP_PG \in Nat /\ RX_START + 1 < STOP_PG
  /\ Lens \subseteq Nat \ {0}
  /\ MaxFrames \in Nat

VARIABLES
  page,                 \* external: what is in each page of the ring
  CURR, BOUND,
  PRX, OVW,             \* in RSR: the last frame was good; in ISR: the ring was full
  mode,                 \* external: the adapter receives, is stopped, or loops back
  incoming,             \* external: the frame being stored, and pages stored so far
  frames,               \* frames that have come
  pc, clearing,         \* the driver: where it is, whether in eth_rx_overrun
  next, pkthdr, buf,    \* its variables; the pages it has copied
  stray,                \* history: it has written where its p pointed after p = 0
  got,                  \* the pages of the packet passed on last
  queue                 \* history: the frames in the ring, oldest first

adapter == <<page, CURR, mode, incoming, frames>>
vars == <<adapter, BOUND, PRX, OVW, pc, clearing, next, pkthdr, buf, stray, got, queue>>

Ring == RX_START .. STOP_PG - 1
Size == STOP_PG - RX_START
NoFrame == [id |-> 0, len |-> 0, stored |-> 0]

\* A page has a part of a frame; and, the first, the header the adapter wrote.
Header == [next : Ring, len : Nat, good : BOOLEAN]
NoHeader == [next |-> RX_START, len |-> 0, good |-> FALSE]
Page == [id : 0 .. MaxFrames, part : Nat, hdr : Header]

TypeOK ==
  /\ page \in [Ring -> Page]
  /\ CURR \in Ring /\ BOUND \in Ring
  /\ PRX \in BOOLEAN /\ OVW \in BOOLEAN
  /\ mode \in {"run", "stop", "loop"}
  /\ incoming \in [id : 0 .. MaxFrames, len : Nat, stored : Nat]
  /\ frames \in 0 .. MaxFrames
  /\ pc \in {"poll", "rsr", "curr", "header", "first", "second", "bound", "ack"}
  /\ clearing \in BOOLEAN /\ stray \in BOOLEAN
  /\ next \in Ring /\ pkthdr \in Header
  /\ buf \in Seq((0 .. MaxFrames) \X Nat) /\ got \in Seq((0 .. MaxFrames) \X Nat)
  /\ queue \in Seq([id : 1 .. MaxFrames, len : Nat, good : BOOLEAN])

\* The page n pages after p.
After(p, n) == RX_START + ((p - RX_START + n) % Size)

----------------------------------------------------------------------------
(* The adapter *)

FrameComes ==
  /\ mode = "run" /\ incoming = NoFrame /\ frames < MaxFrames
  /\ frames' = frames + 1
  /\ \E n \in Lens : incoming' = [id |-> frames + 1, len |-> n, stored |-> 0]
  /\ UNCHANGED <<page, CURR, mode, BOUND, PRX, OVW, pc, clearing, next, pkthdr, buf, stray, got, queue>>

\* One more page, or no page left: the ring is full when it meets BOUND.
PageStored ==
  LET p == After(CURR, incoming.stored)
  IN /\ incoming # NoFrame /\ incoming.stored < incoming.len
     /\ IF p = BOUND
          THEN /\ OVW' = TRUE /\ PRX' \in BOOLEAN
               /\ incoming' = NoFrame /\ UNCHANGED page
          ELSE /\ page' = [page EXCEPT ![p].id = incoming.id, ![p].part = incoming.stored + 1]
               /\ incoming' = [incoming EXCEPT !.stored = @ + 1]
               /\ UNCHANGED <<PRX, OVW>>
     /\ UNCHANGED <<CURR, mode, frames, BOUND, pc, clearing, next, pkthdr, buf, stray, got, queue>>

\* The end of a frame: with a CRC error it is dropped, otherwise the header is
\* written, which may be bogus, and CURR moves past it.
FrameEnds ==
  /\ incoming # NoFrame /\ incoming.stored = incoming.len /\ incoming' = NoFrame
  /\ \/ PRX' = FALSE /\ UNCHANGED <<page, CURR, queue>>
     \/ \E good \in BOOLEAN :
          LET end == After(CURR, incoming.len)
          IN /\ PRX' = TRUE /\ CURR' = end
             /\ page' = [page EXCEPT ![CURR].hdr = [next |-> end, len |-> incoming.len, good |-> good]]
             /\ queue' = Append(queue, [id |-> incoming.id, len |-> incoming.len, good |-> good])
  /\ UNCHANGED <<mode, frames, BOUND, OVW, pc, clearing, next, pkthdr, buf, stray, got>>

Adapter == FrameComes \/ PageStored \/ FrameEnds

----------------------------------------------------------------------------
(* eth_receive, eth_receive_1 and eth_rx_overrun *)

Goto(l) == pc' = l /\ UNCHANGED clearing

\* eth_receive_1 returns 0: to the caller, or to the end of the clearing loop.
Nothing == Goto(IF clearing THEN "ack" ELSE "poll")

\* On an overrun the adapter is stopped and restarted in loopback, where it
\* stores nothing; what it was receiving is gone.
Poll ==
  /\ pc = "poll"
  /\ pc' = "rsr" /\ clearing' = OVW
  /\ IF OVW THEN mode' = "loop" /\ incoming' = NoFrame ELSE UNCHANGED <<mode, incoming>>
  /\ UNCHANGED <<page, CURR, frames, BOUND, PRX, OVW, next, pkthdr, buf, stray, got, queue>>

NextPage(b) == IF b + 1 >= STOP_PG THEN RX_START ELSE b + 1

\* RSR is that of the last frame, not of the one at hand.
ReadRsr ==
  /\ pc = "rsr"
  /\ IF PRX THEN Goto("curr") /\ next' = NextPage(BOUND)
     ELSE Nothing /\ UNCHANGED next
  /\ UNCHANGED <<adapter, BOUND, PRX, OVW, pkthdr, buf, stray, got, queue>>

ReadCurr ==
  /\ pc = "curr"
  /\ IF CURR # next THEN Goto("header") ELSE Nothing
  /\ UNCHANGED <<adapter, BOUND, PRX, OVW, next, pkthdr, buf, stray, got, queue>>

\* A bogus packet is not taken, and not passed over either.
ReadHeader ==
  /\ pc = "header"
  /\ pkthdr' = page[next].hdr /\ buf' = <<>>
  /\ IF page[next].hdr.good THEN Goto("first") ELSE Nothing
  /\ UNCHANGED <<adapter, BOUND, PRX, OVW, next, stray, got, queue>>

Copy(p, n) == [i \in 1 .. n |-> <<page[p + i - 1].id, page[p + i - 1].part>>]

\* A mutant that counts the pages up to the end of the ring one short.
FragShort(p) == STOP_PG - p - 1

Frag(p) == STOP_PG - p

\* Up to the end of the ring, and from its start; without a buffer nothing is
\* copied of the first part.
ReadFirst ==
  LET n == IF pkthdr.len > Frag(next) THEN Frag(next) ELSE pkthdr.len
  IN /\ pc = "first"
     /\ buf' = IF clearing THEN <<>> ELSE Copy(next, n)
     /\ Goto(IF n < pkthdr.len THEN "second" ELSE "bound")
     /\ UNCHANGED <<adapter, BOUND, PRX, OVW, next, pkthdr, stray, got, queue>>

\* A mutant that returns without moving BOUND, and the code.
ReadSecondReturns ==
  /\ pc = "second" /\ Goto(IF clearing THEN "rsr" ELSE "poll")
  /\ IF clearing THEN stray' = TRUE /\ UNCHANGED buf
     ELSE buf' = buf \o Copy(RX_START, pkthdr.len - Frag(next)) /\ UNCHANGED stray
  /\ UNCHANGED <<adapter, BOUND, PRX, OVW, next, pkthdr, got, queue>>

ReadSecond ==
  /\ pc = "second" /\ Goto("bound")
  /\ IF clearing THEN stray' = TRUE /\ UNCHANGED buf
     ELSE buf' = buf \o Copy(RX_START, pkthdr.len - Frag(next)) /\ UNCHANGED stray
  /\ UNCHANGED <<adapter, BOUND, PRX, OVW, next, pkthdr, got, queue>>

\* A mutant that never gives the pages back.
KeepBound(p) == BOUND

Before(p) == (IF p = RX_START THEN STOP_PG ELSE p) - 1

\* The packet is passed on, or dropped while the ring is cleared; the loop that clears the ring goes round.
SetBound ==
  /\ pc = "bound"
  /\ BOUND' = Before(pkthdr.next)
  /\ queue' = Tail(queue)
  /\ Goto(IF clearing THEN "rsr" ELSE "poll")
  /\ got' = (IF clearing THEN got ELSE buf) /\ buf' = <<>>
  /\ UNCHANGED <<adapter, PRX, OVW, next, pkthdr, stray>>

\* The end of eth_rx_overrun.
LeaveOverrun ==
  /\ pc = "ack"
  /\ OVW' = FALSE /\ mode' = "run"
  /\ pc' = "poll" /\ clearing' = FALSE
  /\ UNCHANGED <<page, CURR, incoming, frames, BOUND, PRX, next, pkthdr, buf, stray, got, queue>>

\* eth_reset, also when eth_pio_write in eth_transmit waits in vain.
Reset ==
  /\ pc = "poll"
  /\ BOUND' = STOP_PG - 1 /\ CURR' = RX_START
  /\ OVW' = FALSE /\ mode' = "run" /\ incoming' = NoFrame
  /\ queue' = <<>>
  /\ UNCHANGED <<page, frames, PRX, pc, clearing, next, pkthdr, buf, stray, got>>

Driver ==
  \/ Poll \/ ReadRsr \/ ReadCurr \/ ReadHeader \/ ReadFirst \/ ReadSecond \/ SetBound
  \/ LeaveOverrun

Next == Adapter \/ Driver \/ Reset

Init ==
  /\ page = [p \in Ring |-> [id |-> 0, part |-> 0, hdr |-> NoHeader]]
  /\ CURR = RX_START /\ BOUND = STOP_PG - 1
  /\ PRX = FALSE /\ OVW = FALSE
  /\ mode = "run" /\ incoming = NoFrame /\ frames = 0
  /\ pc = "poll" /\ clearing = FALSE
  /\ next = RX_START /\ pkthdr = NoHeader /\ buf = <<>> /\ stray = FALSE
  /\ got = <<>> /\ queue = <<>>

Spec == Init /\ [][Next]_vars

----------------------------------------------------------------------------
(* Properties *)

\* How far into the ring the first frames of q reach.
LengthTo(q) ==
  LET sum[i \in 0 .. Len(q)] == IF i = 0 THEN 0 ELSE sum[i - 1] + q[i].len
  IN sum

\* The adapter's and the driver's ends of the ring are as far apart as the
\* frames between them are long: none is skipped, read twice or overwritten, and
\* a full ring is not taken for an empty one.
RingAgrees ==
  LET length == LengthTo(queue)[Len(queue)]
  IN length < Size /\ CURR = After(BOUND, 1 + length)

\* The pages a frame is made of, and those of the frames that wait.
Whole(id, len) == [i \in 1 .. len |-> <<id, i>>]
Waiting == [i \in 1 .. Len(queue) |-> Whole(queue[i].id, queue[i].len)]

\* What is in the way of the oldest frame: the last to come was damaged, which hides
\* those before it, or its own header is bogus.
Hidden == ~PRX \/ (queue # <<>> /\ ~Head(queue).good)
=============================================================================
