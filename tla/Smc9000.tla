------------------------------ MODULE Smc9000 ------------------------------
(***************************************************************************)
(* smc9000.c: the driver of an SMC91xx adapter.  Its packet memory is      *)
(* shared between what it receives and what it is given to send; its       *)
(* registers are seen through a bank, which a routine selects or finds     *)
(* selected.  The chip (external) works on its own.                        *)
(***************************************************************************)
EXTENDS Integers, Sequences

CONSTANTS
  PAGES,        \* pages of packet memory
  Lens,         \* lengths of the frames that come, in pages
  Sizes,        \* sizes of what is sent, in bytes
  TRIES,        \* allocations tried (30 in the code)
  MaxFrames     \* bound: frames that come

SmcConstantsOK ==
  /\ PAGES \in Nat \ {0} /\ TRIES \in Nat \ {0} /\ MaxFrames \in Nat
  /\ Lens \subseteq Nat \ {0} /\ Sizes \subseteq Nat

VARIABLES
  found,                \* external: there is an adapter
  bank, rcr, tcr,       \* the selected bank; the receiver and transmitter are on
  ia,                   \* bank 1: the address is as it was
  free, rx, incoming,   \* pages free; received; being received, with pages so far
  frames,               \* frames that have come
  tx, done,             \* the packet to send; IM_TX_INT
  node_addr, poll,      \* of nic: it is marked as initialized; its functions are set
  pc, i, want,          \* the driver: where it is, failed tries, pages to allocate
  got,                  \* the frame eth_receive has returned last
  excused               \* history: the receiver was turned off; see Listening

registers == <<bank, rcr, tcr, ia>>
memory == <<free, rx, incoming, tx>>
nic == <<node_addr, poll>>
loop == <<pc, i, want>>
vars == <<found, registers, memory, frames, done, nic, loop, got, excused>>

NoFrame == [id |-> 0, len |-> 0, stored |-> 0]
NoPacket == [pages |-> 0, state |-> "none"]

TypeOK ==
  /\ found \in BOOLEAN
  /\ bank \in 0 .. 3 /\ rcr \in BOOLEAN /\ tcr \in BOOLEAN /\ ia \in BOOLEAN
  /\ free \in 0 .. PAGES
  /\ rx \in Seq([id : 1 .. MaxFrames, pages : Lens, good : BOOLEAN]) /\ frames \in 0 .. MaxFrames
  /\ incoming \in [id : 0 .. MaxFrames, len : Lens \cup {0}, stored : 0 .. PAGES]
  /\ tx \in [pages : 0 .. 8, state : {"none", "wanted", "held", "queued", "sent", "failed"}]
  /\ done \in BOOLEAN
  /\ node_addr \in BOOLEAN /\ poll \in BOOLEAN
  /\ pc \in {"idle", "allocate", "wait", "send", "wild"}
  /\ i \in 0 .. TRIES /\ want \in 0 .. 8
  /\ got \in 0 .. MaxFrames /\ excused \in BOOLEAN

----------------------------------------------------------------------------
(* The chip *)

FrameComes ==
  /\ rcr /\ incoming = NoFrame /\ frames < MaxFrames /\ frames' = frames + 1
  /\ \E n \in Lens : incoming' = [id |-> frames + 1, len |-> n, stored |-> 0]
  /\ UNCHANGED <<found, registers, free, rx, tx, done, nic, loop, got, excused>>

\* One more page; with none left the frame is dropped.
PageStored ==
  /\ incoming.stored < incoming.len
  /\ IF free > 0
       THEN free' = free - 1 /\ incoming' = [incoming EXCEPT !.stored = @ + 1]
       ELSE free' = incoming.stored /\ incoming' = NoFrame
  /\ UNCHANGED <<found, registers, rx, tx, frames, done, nic, loop, got, excused>>

FrameEnds ==
  /\ incoming # NoFrame /\ incoming.stored = incoming.len /\ incoming' = NoFrame
  /\ \E good \in BOOLEAN : rx' = Append(rx, [id |-> incoming.id, pages |-> incoming.len, good |-> good])
  /\ UNCHANGED <<found, registers, free, tx, frames, done, nic, loop, got, excused>>

Allocated ==
  /\ tx.state = "wanted" /\ free >= tx.pages
  /\ free' = free - tx.pages /\ tx' = [tx EXCEPT !.state = "held"]
  /\ UNCHANGED <<found, registers, rx, incoming, frames, done, nic, loop, got, excused>>

\* A frame that cannot be sent turns the transmitter off.
Sent ==
  /\ tx.state = "queued" /\ tcr /\ done' = TRUE
  /\ \E ok \in BOOLEAN :
       tcr' = ok /\ tx' = [tx EXCEPT !.state = IF ok THEN "sent" ELSE "failed"]
  /\ UNCHANGED <<found, bank, rcr, ia, free, rx, incoming, frames, nic, loop, got, excused>>

Chip == FrameComes \/ PageStored \/ FrameEnds \/ Allocated \/ Sent

\* MC_RESET: every packet is gone.
MmuReset == free' = PAGES /\ rx' = <<>> /\ incoming' = NoFrame /\ tx' = NoPacket

----------------------------------------------------------------------------
(* eth_reset and eth_node_addr *)

\* RCR_SOFTRESET, RCR_CLEAR, and MC_RESET; the address is left alone.
smc_reset == rcr' = FALSE /\ tcr' = FALSE /\ done' = FALSE /\ MmuReset

\* eth_probe, with and without an adapter.  It sets nic.node_addr first; without an
\* adapter nic's functions stay null.
Probed ==
  /\ found /\ node_addr' = TRUE /\ poll' = TRUE
  /\ rcr' = TRUE /\ tcr' = TRUE /\ done' = FALSE /\ MmuReset /\ excused' = FALSE

ProbeFails ==
  /\ ~found /\ node_addr' = TRUE
  /\ UNCHANGED <<registers, memory, done, poll, loop, got, excused>>

\* A call through a function pointer of nic that is null.
NullCall ==
  /\ ~poll /\ pc' = "wild"
  /\ UNCHANGED <<registers, memory, done, nic, i, want, got, excused>>

NodeAddr ==
  /\ pc = "idle" /\ UNCHANGED <<found, frames>>
  /\ \/ node_addr /\ UNCHANGED <<registers, memory, done, nic, loop, got, excused>>
     \/ ~node_addr /\ ProbeFails
     \/ ~node_addr /\ Probed /\ bank' = 1 /\ UNCHANGED <<ia, loop, got>>

\* The address is written, and bank 1 stays selected.
SetNodeAddr ==
  /\ pc = "idle" /\ bank' = 1 /\ ia' = TRUE
  /\ UNCHANGED <<found, rcr, tcr, memory, frames, done, nic, loop, got, excused>>

\* What eth_reset writes to 0x304 to reset the chip goes to the bank it finds: RCR in
\* bank 0, the address in bank 1, nothing that matters in the others.
Start ==
  /\ pc = "idle" /\ bank' = 0 /\ UNCHANGED <<found, frames, loop, got>>
  /\ \/ ~node_addr /\ Probed /\ ia' = FALSE
     \/ /\ node_addr /\ UNCHANGED nic
        /\ \/ bank = 0 /\ smc_reset /\ excused' = TRUE /\ UNCHANGED ia
           \/ /\ bank # 0 /\ ia' = (ia /\ bank # 1)
              /\ UNCHANGED <<rcr, tcr, memory, done, excused>>

StartFails ==
  /\ pc = "idle" /\ ~node_addr /\ ProbeFails /\ UNCHANGED <<found, frames>>

\* A mutant that does not mark the adapter as not initialized.
StopKeepsMark ==
  /\ pc = "idle" /\ UNCHANGED <<found, frames>>
  /\ \/ node_addr /\ NullCall
     \/ /\ IF node_addr THEN poll ELSE found
        /\ poll' = TRUE /\ UNCHANGED node_addr /\ bank' = 0 /\ smc_reset
        /\ UNCHANGED <<ia, loop, got, excused>>

\* nic.reset selects bank 2, where 0x304 cannot be written.
Stop ==
  /\ pc = "idle" /\ UNCHANGED <<found, frames>>
  /\ \/ node_addr /\ NullCall
     \/ /\ IF node_addr THEN poll ELSE found
        /\ poll' = TRUE /\ node_addr' = FALSE /\ bank' = 0 /\ smc_reset
        /\ UNCHANGED <<ia, loop, got, excused>>

----------------------------------------------------------------------------
(* eth_transmit and eth_receive *)

\* In bytes with the header, rounded up; pages less one.
Length(s) == ((s + 15) \div 2) * 2
NumPages(s) == Length(s) \div 256

Transmit(s) ==
  /\ pc = "idle" /\ UNCHANGED <<found, frames>>
  /\ \/ NullCall
     \/ poll /\ NumPages(s) > 7 /\ UNCHANGED <<registers, memory, done, nic, loop, got, excused>>
     \/ /\ poll /\ NumPages(s) <= 7
        /\ tcr' = TRUE /\ bank' = 0
        /\ pc' = "allocate" /\ i' = 0 /\ want' = NumPages(s) + 1
        /\ UNCHANGED <<rcr, ia, memory, done, nic, got, excused>>

Allocate ==
  /\ pc = "allocate" /\ pc' = "wait" /\ bank' = 2
  /\ tx' = [pages |-> want, state |-> "wanted"]
  /\ UNCHANGED <<found, rcr, tcr, ia, free, rx, incoming, frames, done, nic, i, want, got, excused>>

\* A mutant that tries as long as the memory is full.
AllocateForEver ==
  /\ pc = "wait" /\ pc' = "allocate" /\ MmuReset
  /\ UNCHANGED <<found, registers, frames, done, nic, i, want, got, excused>>

\* The memory is cleared, of what was received too, and the last try is given up.
AllocationTimesOut ==
  /\ pc = "wait" /\ MmuReset
  /\ i' = i + 1 /\ pc' = IF i' < TRIES THEN "allocate" ELSE "idle"
  /\ UNCHANGED <<found, registers, frames, done, nic, want, got, excused>>

Enqueue ==
  /\ pc = "wait" /\ tx.state = "held"
  /\ pc' = "send" /\ tx' = [tx EXCEPT !.state = "queued"]
  /\ UNCHANGED <<found, registers, free, rx, incoming, frames, done, nic, i, want, got, excused>>

\* A mutant that does not kill the packet it could not send.
FinishedLeaks ==
  /\ pc = "send" /\ done /\ pc' = "idle" /\ done' = FALSE
  /\ free' = (IF tx.state = "sent" THEN free + tx.pages ELSE free) /\ tx' = NoPacket
  /\ tcr' = TRUE /\ bank' = 2
  /\ UNCHANGED <<found, rcr, ia, rx, incoming, frames, nic, i, want, got, excused>>

\* Sent or not, the packet is killed; the transmitter is turned on again.
Finished ==
  /\ pc = "send" /\ done /\ pc' = "idle" /\ done' = FALSE
  /\ free' = free + tx.pages /\ tx' = NoPacket
  /\ tcr' = TRUE /\ bank' = 2
  /\ UNCHANGED <<found, rcr, ia, rx, incoming, frames, nic, i, want, got, excused>>

\* "resetting board": the receiver too, which nothing turns on again.
SendTimesOut ==
  /\ pc = "send" /\ pc' = "idle" /\ bank' = 2 /\ smc_reset /\ excused' = TRUE
  /\ UNCHANGED <<found, ia, frames, nic, i, want, got>>

\* smc9000_poll: a frame, good or in error, is taken from the chip.
Poll ==
  /\ pc = "idle" /\ UNCHANGED <<found, frames>>
  /\ \/ NullCall
     \/ /\ poll /\ bank' = 2
        /\ IF rx = <<>> THEN UNCHANGED <<free, rx, got>>
           ELSE /\ free' = free + Head(rx).pages /\ rx' = Tail(rx)
                /\ got' = IF Head(rx).good THEN Head(rx).id ELSE got
        /\ UNCHANGED <<rcr, tcr, ia, incoming, tx, done, nic, loop, excused>>

Call ==
  \/ NodeAddr \/ SetNodeAddr \/ Start \/ StartFails \/ Stop
  \/ \E s \in Sizes : Transmit(s)
  \/ Poll

Driver == Allocate \/ AllocationTimesOut \/ Enqueue \/ Finished \/ SendTimesOut

Next == Chip \/ Call \/ Driver

Init ==
  /\ found \in BOOLEAN
  /\ bank \in 0 .. 3 /\ rcr = FALSE /\ tcr = FALSE /\ ia = TRUE
  /\ free = PAGES /\ rx = <<>> /\ incoming = NoFrame /\ frames = 0
  /\ tx = NoPacket /\ done = FALSE
  /\ node_addr = FALSE /\ poll = FALSE
  /\ pc = "idle" /\ i = 0 /\ want = 0 /\ got = 0 /\ excused = FALSE

Spec == Init /\ [][Next]_vars

----------------------------------------------------------------------------
(* Properties *)

\* The packet memory that the frames of q take.
PagesOf(q) ==
  LET sum[k \in 0 .. Len(q)] == IF k = 0 THEN 0 ELSE sum[k - 1] + q[k].pages
  IN sum[Len(q)]

\* Between calls all of the packet memory is the receiver's: no call leaves pages
\* behind, whether the frame was sent, failed, or was given up at any point.
MemoryKept == pc = "idle" => tx = NoPacket /\ free + incoming.stored + PagesOf(rx) = PAGES

\* An adapter that is marked as initialized receives, after any calls in any order,
\* unless a transmission timed out or eth_reset found bank 0 selected (an eth_reset
\* before it leaves it so), which turn the receiver off for good.
Listening == node_addr /\ poll /\ ~excused => rcr

Sending == pc \in {"allocate", "wait", "send"}

\* The good ones of the frames of q.
GoodOf(q) ==
  LET good[k \in 0 .. Len(q)] ==
        IF k = 0 THEN <<>>
        ELSE IF q[k].good THEN Append(good[k - 1], q[k].id) ELSE good[k - 1]
  IN good[Len(q)]

Waiting == GoodOf(rx)
=============================================================================
