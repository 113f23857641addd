------------------------------ MODULE FrameQueue ------------------------------
(***************************************************************************)
(* What the eth_receive of every Ethernet driver promises its caller: the  *)
(* frames come in the order they came in, each once and whole.  Those that *)
(* wait go when the adapter is set up afresh, and the oldest of them while *)
(* the adapter is brought out of an overrun; none goes at any other time.  *)
(***************************************************************************)
EXTENDS Naturals, Sequences

CONSTANTS
  Frame,      \* whole frames
  NoFrame     \* before the first

VARIABLES
  waiting,    \* frames that have come, oldest first
  got,        \* the frame passed on last
  overrun     \* the adapter is being brought out of an overrun

QueueInit == waiting = <<>> /\ got = NoFrame /\ overrun = FALSE

Come ==
  /\ \E f \in Frame :
       /\ f # got /\ \A i \in 1 .. Len(waiting) : waiting[i] # f
       /\ waiting' = Append(waiting, f)
  /\ UNCHANGED <<got, overrun>>

PassOn ==
  /\ waiting # <<>>
  /\ got' = Head(waiting) /\ waiting' = Tail(waiting)
  /\ UNCHANGED overrun

Overrun == overrun' = ~overrun /\ UNCHANGED <<waiting, got>>

LoseOldest ==
  /\ overrun /\ waiting # <<>>
  /\ waiting' = Tail(waiting) /\ UNCHANGED <<got, overrun>>

SetUp == waiting' = <<>> /\ overrun' = FALSE /\ UNCHANGED got

QueueNext == Come \/ PassOn \/ Overrun \/ LoseOldest \/ SetUp

QueueSpec == QueueInit /\ [][QueueNext]_<<waiting, got, overrun>>
=============================================================================
