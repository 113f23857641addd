---------------------------------- MODULE Rtc ----------------------------------
(***************************************************************************)
(* rtc.c: ticks of 1/128 s from a counter of the processor (external).     *)
(* The counter counts down from TCNTMAX and starts there again; cnt is how *)
(* far it has come.  get_tick stops it, moves what is more than a tick to  *)
(* the variable tick, and starts it again.  While the code runs the        *)
(* counter gets at most LAG further between two steps, less than a tick;   *)
(* while an NMI or gdb holds the processor, as far as it likes.            *)
(***************************************************************************)
EXTENDS Integers

CONSTANTS
  COUNTS,          \* TCNTMAX + 1: 2^32 in the code
  WRAP,            \* range of tick: 2^32 in the code
  CNT_PER_TICK,
  Counts,          \* arguments of sleep128
  LAG              \* bound: of the counter between two steps

ASSUME RtcConstantsOK ==
  /\ CNT_PER_TICK \in Nat \ {0} /\ LAG \in 1 .. CNT_PER_TICK - 1
  /\ COUNTS \in Nat /\ COUNTS > CNT_PER_TICK + 2 * LAG
  /\ WRAP \in Nat \ {0} /\ WRAP % 2 = 0 /\ Counts \subseteq 0 .. WRAP - 1

VARIABLES
  cnt,             \* external: TCNTMAX - TCNT0
  tick,
  pc,              \* where get_tick is called from: for a caller, or in one of the loops
  seen,            \* the cnt of get_tick, if it has to start the counter again
  start, count,    \* of sleep128; of a wait until get_tick() + count
  lag,             \* the counter's way since the last step
  held, late,      \* the processor is held; it has been in this wait
  waited           \* history: counts since start was read, up to Long

wait == <<start, count, waited, late>>
vars == <<cnt, tick, pc, seen, wait, lag, held>>

NotSeen == -1

\* A tick, with what the start of the counter loses; and more than the longest wait.
Bound(c) == (c + 1) * (CNT_PER_TICK + LAG)
Long == Bound(CHOOSE c \in Counts : \A d \in Counts : d <= c) + 1

TypeOK ==
  /\ cnt \in 0 .. COUNTS - 1 /\ seen \in NotSeen .. COUNTS - 1 /\ tick \in 0 .. WRAP - 1
  /\ pc \in {"idle", "get", "first", "sleep", "wait"}
  /\ start \in 0 .. WRAP - 1 /\ count \in 0 .. WRAP - 1
  /\ lag \in 0 .. LAG /\ held \in BOOLEAN /\ late \in BOOLEAN /\ waited \in 0 .. Long

Waiting == pc \in {"sleep", "wait"}

----------------------------------------------------------------------------
(* Time *)

Passes(n) == IF waited + n < Long THEN waited + n ELSE Long

\* The counter counts, when there is still room before the next step of the code.
Counts1 ==
  /\ lag < LAG \/ held
  /\ lag' = IF held THEN lag ELSE lag + 1
  /\ cnt' = (cnt + 1) % COUNTS
  /\ waited' = IF Waiting THEN Passes(1) ELSE waited
  /\ UNCHANGED <<tick, pc, seen, start, count, held, late>>

Hold == ~held /\ held' = TRUE /\ late' = Waiting
        /\ UNCHANGED <<cnt, tick, pc, seen, start, count, waited, lag>>
Go == held /\ held' = FALSE /\ UNCHANGED <<cnt, tick, pc, seen, wait, lag>>

----------------------------------------------------------------------------
(* The calls of rtc() *)

Steps == ~held /\ lag' = 0 /\ UNCHANGED held

Called == pc = "idle" /\ Steps

\* 0 starts the counter, and 5 resets the tick as well.
StartRtc ==
  /\ Called /\ cnt' = 0
  /\ UNCHANGED <<tick, pc, seen, wait>>

ResetTick ==
  /\ Called /\ cnt' = 0 /\ tick' = 0
  /\ UNCHANGED <<pc, seen, wait>>

GetTick == Called /\ pc' = "get" /\ UNCHANGED <<cnt, tick, seen, wait>>

Sleep128(c) ==
  /\ Called /\ pc' = "first" /\ count' = c
  /\ UNCHANGED <<cnt, tick, seen, start, waited, late>>

----------------------------------------------------------------------------
(* get_tick, and what its callers do with what it returns *)

Signed(t) == IF t >= WRAP \div 2 THEN t - WRAP ELSE t

\* start + count and its comparison are unsigned, the other one is signed.
GoesOn(now) ==
  /\ now < (start + count) % WRAP
  /\ pc = "sleep" => Signed(start) <= Signed(now)

\* The drivers and the boot loader wait in the same way, without the second comparison.
Returns(t) ==
  \/ pc = "get" /\ pc' = "idle" /\ UNCHANGED wait
  \/ pc = "first" /\ start' = t /\ pc' \in {"sleep", "wait"} /\ UNCHANGED <<count, waited, late>>
  \/ Waiting /\ GoesOn(t) /\ UNCHANGED <<pc, wait>>
  \/ /\ Waiting /\ ~GoesOn(t) /\ pc' = "idle"
     /\ start' = 0 /\ count' = 0 /\ waited' = 0 /\ late' = FALSE

\* A mutant starts the counter again at every call.
BehindAlways(c) == c >= 0
Behind(c) == c > CNT_PER_TICK

ReadCounter ==
  /\ pc # "idle" /\ seen = NotSeen /\ Steps
  /\ IF Behind(cnt) THEN seen' = cnt /\ UNCHANGED <<pc, wait>>
     ELSE Returns(tick) /\ UNCHANGED seen
  /\ UNCHANGED <<cnt, tick>>

\* Mutants that round up, and that drop the rest.
TicksUp(c) == (c + CNT_PER_TICK - 1) \div CNT_PER_TICK
Ticks(c) == c \div CNT_PER_TICK
RestDropped(c) == 0 * c
Rest(c) == c % CNT_PER_TICK

\* What was counted since the counter was read is lost.
Restart ==
  /\ seen # NotSeen /\ Steps
  /\ cnt' = Rest(seen) /\ tick' = (tick + Ticks(seen)) % WRAP
  /\ seen' = NotSeen /\ Returns(tick')

Code == ReadCounter \/ Restart

Next ==
  \/ Counts1 \/ Hold \/ Go
  \/ StartRtc \/ ResetTick \/ GetTick \/ (\E c \in Counts : Sleep128(c))
  \/ Code

\* The monitor starts the counter; a reset has cleared tick.
Init ==
  /\ cnt = 0 /\ tick = 0 /\ pc = "idle" /\ seen = NotSeen
  /\ start = 0 /\ count = 0 /\ waited = 0 /\ late = FALSE
  /\ lag = 0 /\ held = FALSE

Spec == Init /\ [][Next]_vars

\* The counter counts, and the processor goes on when it is not held.
FairSpec == Spec /\ WF_vars(Counts1) /\ WF_vars(Code)

----------------------------------------------------------------------------
(* Properties *)

\* start + count runs over; and start and the end of the sleep have different signs.
Overflows == start + count >= WRAP
ChangesSign == pc = "sleep" /\ start < WRAP \div 2 /\ start + count > WRAP \div 2

\* A sleep of n ticks, or a wait, lasts at least n - 1 of them by the counter, however
\* long the processor is held: the one tick is lost because the clock may be just
\* before the next.  This fails when the sum overflows, or the sign changes.
WaitsLongEnough ==
  [][Waiting /\ pc' = "idle" /\ ~Overflows /\ ~ChangesSign
       => count = 0 \/ waited >= (count - 1) * CNT_PER_TICK]_vars

\* And at most n + 1, with what each start of the counter loses, unless the processor was held.
\* A sleep over a change of sign ends with it; one of no ticks that begins at the last value
\* of tick may miss its end.
Misses == count = 0 /\ start = WRAP - 1
WaitsNotTooLong == Waiting /\ ~late /\ ~Misses => waited <= Bound(count)

\* A wait ends, once the processor is left alone, even if it has been held past the end
\* and the tick has to come round once more.
WaitEnds == Waiting ~> (~Waiting \/ held)
=============================================================================
