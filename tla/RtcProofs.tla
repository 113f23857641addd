------------------------------ MODULE RtcProofs ------------------------------
(***************************************************************************)
(* Proofs about Rtc: how long the waits are by the counter, whatever the   *)
(* range of the counter and of tick, the length of a tick, and the wait.   *)
(***************************************************************************)
EXTENDS Rtc, TLAPS, WellFoundedInduction

T == CNT_PER_TICK
TL == CNT_PER_TICK + LAG

LEMMA Constants ==
  /\ T \in Nat \ {0} /\ LAG \in Nat \ {0} /\ LAG < T /\ TL \in Nat /\ TL = T + LAG
  /\ COUNTS \in Nat \ {0} /\ COUNTS > T + 2 * LAG
  /\ WRAP \in Nat \ {0} /\ WRAP % 2 = 0 /\ Counts \subseteq 0 .. WRAP - 1
  BY RtcConstantsOK DEF T, TL

----------------------------------------------------------------------------
(* Numbers *)

LEMMA OneOn ==
  ASSUME NEW S \in Nat \ {0}, NEW x \in 0 .. S - 1, NEW y \in 0 .. S
  PROVE  (x + y) % S = IF x + y < S THEN x + y ELSE x + y - S
OBVIOUS

LEMMA Longer ==
  ASSUME NEW a \in Int, NEW b \in Int, a <= b, NEW c \in Nat
  PROVE  a * c <= b * c
<1>1. PICK d \in Nat : b = a + d
  <2>1. b - a \in Nat /\ b = a + (b - a)
    OBVIOUS
  <2> QED
    BY <2>1
<1>2. b * c = a * c + d * c /\ d * c \in Nat
  BY <1>1
<1>3. a * c \in Int
  OBVIOUS
<1> QED
  BY <1>2, <1>3

LEMMA Product ==
  ASSUME NEW a \in Nat, NEW b \in Nat
  PROVE  a * b \in Nat
OBVIOUS

\* Where a sum of unsigned numbers is when it has run over.
LEMMA RunsOver ==
  ASSUME NEW S \in Nat \ {0}, NEW x \in Nat, NEW n \in Nat
  PROVE  /\ ((x + n) % S) \in 0 .. S - 1
         /\ ((x + n) % S) = x + n \/ ((x + n) % S) <= x + n - S
<1> PICK s \in Nat : s = x + n
  OBVIOUS
<1>1. (s % S) = s - S * (s \div S) /\ s \div S \in Int /\ (s % S) \in 0 .. S - 1
  OBVIOUS
<1>2. PICK q \in Int, r \in 0 .. S - 1 : r = (s % S) /\ r = s - S * q
  BY <1>1
<1>3. CASE q = 0
  BY <1>2, <1>3
<1>4. CASE q >= 1
  <2>1. PICK d \in Nat : q = d + 1
    <3>1. q - 1 \in Nat /\ q = (q - 1) + 1
      BY <1>4
    <3> QED
      BY <3>1
  <2>2. S * q = S * d + S /\ S * d \in Nat
    BY <2>1
  <2>3. r <= s - S
    BY <1>2, <2>2
  <2> QED
    BY <1>2, <2>3
<1>5. CASE q <= -1
  <2>1. PICK d \in Nat : q = -1 - d
    <3>1. -1 - q \in Nat /\ q = -1 - (-1 - q)
      BY <1>5
    <3> QED
      BY <3>1
  <2>2. S * q = (-S) - S * d /\ S * d \in Nat
    BY <2>1
  <2>3. r >= s + S
    BY <1>2, <2>2
  <2> QED
    BY <1>2, <2>3
<1> QED
  BY <1>3, <1>4, <1>5

LEMMA Divided ==
  ASSUME NEW S \in Nat \ {0}, NEW x \in Nat
  PROVE  (x \div S) \in Nat /\ (x % S) \in 0 .. S - 1 /\ x = (x \div S) * S + (x % S)
<1>1. (x % S) = x - S * (x \div S) /\ x \div S \in Int /\ (x % S) \in 0 .. S - 1
  OBVIOUS
<1>2. PICK q \in Int, r \in 0 .. S - 1 : r = (x % S) /\ q = (x \div S) /\ r = x - S * q
  BY <1>1
<1>3. q * S = S * q /\ S * q \in Int
  OBVIOUS
<1>4. x = q * S + r
  BY <1>2, <1>3
<1>5. q \in Nat
  BY <1>4
<1> QED
  BY <1>2, <1>4, <1>5, Zenon

----------------------------------------------------------------------------
(* Types *)

Types ==
  /\ cnt \in 0 .. COUNTS - 1 /\ seen \in {NotSeen} \cup 0 .. COUNTS - 1 /\ tick \in 0 .. WRAP - 1
  /\ pc \in {"idle", "get", "first", "sleep", "wait"}
  /\ start \in 0 .. WRAP - 1 /\ count \in 0 .. WRAP - 1
  /\ lag \in 0 .. LAG /\ waited \in Nat
  /\ Waiting \/ pc = "first" => count \in Counts
  /\ ~Waiting => waited = 0
  /\ seen # NotSeen => T < seen /\ pc # "idle"
  /\ held /\ Waiting => late

\* The longest wait is longer than any.
LEMMA LongIs ==
  ASSUME NEW c \in Counts
  PROVE  Long \in Nat /\ Long > Bound(c)
<1> DEFINE M == {WRAP - d : d \in Counts}
<1>1. M \subseteq Nat /\ M # {}
  BY Constants
<1>0. /\ \A d \in Counts : WRAP - d \in M
      /\ \A x \in M : \E d \in Counts : x = WRAP - d
  OBVIOUS
<1> HIDE DEF M
<1>2. PICK x \in M : \A y \in M : ~ (<<y, x>> \in OpToRel(<, Nat))
  BY <1>1, NatLessThanWellFounded, WFMin, Zenon
<1>3. \A y \in M : ~ (y < x)
  BY <1>1, <1>2 DEF OpToRel
<1>4. PICK m \in Counts : x = WRAP - m
  BY <1>0
<1>5. ASSUME NEW d \in Counts PROVE d <= m
  <2>1. WRAP - d \in M
    BY <1>0
  <2>2. ~ (WRAP - d < WRAP - m)
    BY <1>3, <1>4, <2>1
  <2> QED
    BY <2>2, Constants
<1> DEFINE most == CHOOSE e \in Counts : \A d \in Counts : d <= e
<1>6. most \in Counts /\ \A d \in Counts : d <= most
  BY <1>4, <1>5
<1> HIDE DEF most
<1>7. c <= most /\ c \in Nat /\ most \in Nat
  BY <1>6, Constants
<1>8. (c + 1) * TL <= (most + 1) * TL
  BY <1>7, Constants, Longer
<1>9. (c + 1) * TL \in Nat /\ (most + 1) * TL \in Nat
  BY <1>7, Constants
<1>10. Long = (most + 1) * TL + 1 /\ Bound(c) = (c + 1) * TL
  BY DEF Long, Bound, most, TL
<1> QED
  BY <1>8, <1>9, <1>10

\* What Returns does, with what it leaves alone.
LEMMA TypesKept ==
  ASSUME Types, Next
  PROVE  Types'
<1> USE Constants
<1>1. CASE Counts1
  <2>1. cnt' \in 0 .. COUNTS - 1
    <3>1. cnt \in 0 .. COUNTS - 1 /\ cnt' = (cnt + 1) % COUNTS /\ 1 \in 0 .. COUNTS
      BY <1>1 DEF Counts1, Types
    <3> QED
      BY <3>1, OneOn
  <2>2. waited' \in Nat /\ (~Waiting => waited' = 0)
    <3>1. CASE Waiting
      <4>1. Long \in Nat
        BY <3>1, LongIs DEF Types
      <4> QED
        BY <1>1, <3>1, <4>1 DEF Counts1, Passes, Types
    <3>2. CASE ~Waiting
      BY <1>1, <3>2 DEF Counts1, Types
    <3> QED
      BY <3>1, <3>2
  <2>3. lag' \in 0 .. LAG
    BY <1>1 DEF Counts1, Types
  <2> QED
    BY <1>1, <2>1, <2>2, <2>3 DEF Counts1, Types, Waiting
<1>2. CASE Hold
  BY <1>2 DEF Hold, wait, Types, Waiting
<1>3. CASE Go
  BY <1>3 DEF Go, wait, Types, Waiting
<1>4. CASE StartRtc
  BY <1>4 DEF StartRtc, Called, Steps, wait, Types, Waiting
<1>5. CASE ResetTick
  BY <1>5 DEF ResetTick, Called, Steps, wait, Types, Waiting
<1>6. CASE GetTick
  BY <1>6 DEF GetTick, Called, Steps, wait, Types, Waiting
<1>7. CASE \E c \in Counts : Sleep128(c)
  BY <1>7 DEF Sleep128, Called, Steps, Types, Waiting
<1>8. ASSUME NEW t \in 0 .. WRAP - 1, Returns(t), pc # "idle", seen' = NotSeen, ~held, Steps,
             tick' \in 0 .. WRAP - 1, cnt' \in 0 .. COUNTS - 1
      PROVE  Types'
  BY <1>8 DEF Returns, Steps, wait, Types, Waiting
<1>9. CASE ReadCounter
  <2>1. CASE Behind(cnt)
    BY <1>9, <2>1 DEF ReadCounter, Behind, Steps, wait, Types, Waiting, T, NotSeen
  <2>2. CASE ~Behind(cnt)
    BY <1>8, <1>9, <2>2 DEF ReadCounter, Steps, Types
  <2> QED
    BY <2>1, <2>2
<1>10. CASE Restart
  <2>1. seen \in Nat /\ seen <= COUNTS - 1 /\ seen > T /\ pc # "idle"
    BY <1>10 DEF Restart, Types
  <2>2. Rest(seen) \in 0 .. T - 1 /\ Ticks(seen) \in Nat
    BY <2>1, Divided DEF Rest, Ticks, T
  <2>3. tick' \in 0 .. WRAP - 1
    <3>1. tick \in Nat /\ tick' = (tick + Ticks(seen)) % WRAP
      BY <1>10 DEF Restart, Types
    <3> QED
      BY <2>2, <3>1, RunsOver
  <2>4. cnt' \in 0 .. COUNTS - 1
    BY <1>10, <2>2 DEF Restart
  <2> QED
    BY <1>8, <1>10, <2>1, <2>3, <2>4 DEF Restart, Steps
<1> QED
  BY <1>1, <1>2, <1>3, <1>4, <1>5, <1>6, <1>7, <1>9, <1>10 DEF Next, Code

----------------------------------------------------------------------------
(* No wait is too short *)

\* The ticks since start was read, as far as tick shows them.
Elapsed == IF tick >= start THEN tick - start ELSE tick + WRAP - start

\* How far the counter is, as get_tick will take it into account.
Taken == IF seen = NotSeen THEN cnt ELSE seen

\* What is waited is not less than the ticks, and what is on the counter of the next one;
\* but for the tick that was about to end when start was read.
NotLess == Waiting => waited = Long \/ Elapsed * T + Taken - T <= waited

LEMMA ElapsedIs == ASSUME Types PROVE Elapsed \in 0 .. WRAP - 1
  BY Constants DEF Types, Elapsed

\* The ticks that are added make the difference at most that much greater.
LEMMA ElapsedGrows ==
  ASSUME Types, NEW n \in Nat, tick' = (tick + n) % WRAP, start' = start
  PROVE  Elapsed' \in Nat /\ Elapsed' <= Elapsed + n
<1>1. /\ tick \in Nat /\ tick < WRAP /\ start \in Nat /\ start < WRAP /\ WRAP \in Nat \ {0}
  BY Constants DEF Types
<1>2. tick' \in 0 .. WRAP - 1 /\ (tick' = tick + n \/ tick' <= tick + n - WRAP)
  BY <1>1, RunsOver
<1> QED
  BY <1>1, <1>2 DEF Elapsed

LEMMA RestartTakes ==
  ASSUME Types, Restart
  PROVE  /\ seen \in Nat /\ Ticks(seen) \in Nat /\ Rest(seen) \in 0 .. T - 1
         /\ seen = Ticks(seen) * T + Rest(seen) /\ seen > T
<1>1. seen \in Nat /\ seen > T
  BY Constants DEF Restart, Types
<1> QED
  BY <1>1, Divided, Constants DEF Ticks, Rest, T

\* While it goes on after a restart.
LEMMA RestartNotLess ==
  ASSUME Types, NotLess, Restart, Waiting
  PROVE  waited = Long \/ (Elapsed + Ticks(seen)) * T + Rest(seen) - T <= waited
<1>1. /\ seen \in Nat /\ Ticks(seen) \in Nat /\ Rest(seen) \in 0 .. T - 1
      /\ seen = Ticks(seen) * T + Rest(seen)
  BY RestartTakes
<1>2. waited = Long \/ Elapsed * T + seen - T <= waited
  BY DEF NotLess, Taken, Restart
<1>3. Elapsed \in Nat /\ T \in Nat
  BY ElapsedIs, Constants
<1>4. (Elapsed + Ticks(seen)) * T = Elapsed * T + Ticks(seen) * T
  BY <1>1, <1>3
<1>9. Elapsed * T \in Nat /\ Ticks(seen) * T \in Nat /\ Rest(seen) \in Nat
  BY <1>1, <1>3, Product
<1>5. PICK e \in Nat, f \in Nat, r \in Nat : e = Elapsed * T /\ f = Ticks(seen) * T /\ r = Rest(seen)
  BY <1>9, Zenon
<1>6. waited = Long \/ e + seen - T <= waited
  BY <1>2, <1>5
<1>7. seen = f + r /\ (Elapsed + Ticks(seen)) * T = e + f
  BY <1>1, <1>4, <1>5
<1>8. waited = Long \/ (e + f) + r - T <= waited
  <2> HIDE DEF Long
  <2> QED
    BY <1>3, <1>6, <1>7
<1> QED
  BY <1>5, <1>7, <1>8

LEMMA NotLessKept ==
  ASSUME Types, NotLess, Next
  PROVE  NotLess'
<1>10. WRAP \in Nat \ {0} /\ COUNTS \in Nat \ {0} /\ T \in Nat \ {0}
  BY Constants
<1>11. Elapsed \in Nat /\ T \in Nat
  BY <1>10, ElapsedIs
<1>0. Elapsed * T \in Nat
  BY <1>11, Product
<1>1. CASE Counts1
  <2> SUFFICES ASSUME Waiting PROVE NotLess'
    BY <1>1 DEF Counts1, NotLess, Waiting
  <2>1. UNCHANGED <<tick, pc, seen, start, count>> /\ waited' = Passes(1) /\ cnt' = (cnt + 1) % COUNTS
    BY <1>1 DEF Counts1
  <2>2. Elapsed' = Elapsed /\ Long' = Long
    BY <2>1 DEF Elapsed, Long, Bound
  <2>3. cnt' <= cnt + 1 /\ cnt' \in Nat /\ cnt \in Nat
    <3>1. cnt \in 0 .. COUNTS - 1 /\ 1 \in 0 .. COUNTS
      BY <1>10 DEF Types
    <3>2. (cnt + 1) % COUNTS = IF cnt + 1 < COUNTS THEN cnt + 1 ELSE cnt + 1 - COUNTS
      BY <1>10, <3>1, OneOn
    <3> QED
      BY <1>10, <2>1, <3>1, <3>2
  <2>4. Taken' <= Taken + 1 /\ Taken \in Int /\ Taken' \in Int
    BY <2>1, <2>3 DEF Taken, Types, NotSeen
  <2>5. Long \in Nat /\ waited \in Nat
    BY LongIs DEF Types
  <2>6. PICK e \in Nat : e = Elapsed * T
    BY <1>0
  <2>7. waited = Long \/ e + Taken - T <= waited
    BY <2>6 DEF NotLess
  <2>8. waited' = Long \/ e + Taken' - T <= waited'
    <3>1. CASE waited + 1 < Long
      <4>1. waited' = waited + 1 /\ waited # Long
        BY <2>1, <2>5, <3>1 DEF Passes
      <4>2. e + Taken - T <= waited
        BY <2>7, <4>1
      <4>3. e + Taken' - T <= waited + 1
        <5>1. PICK a \in Int, b \in Int, u \in Nat, w \in Nat :
                a = Taken /\ b = Taken' /\ u = T /\ w = waited
          BY <1>11, <2>4, <2>5, Zenon
        <5>2. b <= a + 1 /\ e + a - u <= w
          BY <2>4, <4>2, <5>1, Zenon
        <5>3. e + b - u <= w + 1
          BY <5>2
        <5> QED
          BY <5>1, <5>3, Zenon
      <4> QED
        BY <4>1, <4>3
    <3>2. CASE ~(waited + 1 < Long)
      BY <2>1, <3>2 DEF Passes
    <3> QED
      BY <3>1, <3>2
  <2> QED
    BY <2>1, <2>2, <2>6, <2>8 DEF NotLess
<1>2. CASE ReadCounter
  <2>1. cnt' = cnt /\ tick' = tick /\ seen = NotSeen /\ pc # "idle"
    BY <1>2 DEF ReadCounter
  <2>2. CASE Behind(cnt)
    <3>1. seen' = cnt /\ UNCHANGED <<pc, start, count, waited>>
      BY <1>2, <2>2 DEF ReadCounter, wait
    <3>2. Taken' = Taken
      BY <2>1, <3>1 DEF Taken
    <3> QED
      BY <2>1, <3>1, <3>2 DEF NotLess, Elapsed, Waiting, Long, Bound
  <2>3. CASE ~Behind(cnt)
    <3>1. Returns(tick) /\ seen' = seen /\ cnt <= T /\ cnt \in Nat
      BY <1>2, <1>10, <2>3 DEF ReadCounter, Behind, Types, T
    <3>2. CASE ~Waiting' \/ (UNCHANGED <<pc, wait>>)
      BY <2>1, <3>1, <3>2 DEF NotLess, Elapsed, Waiting, Long, Bound, Taken, wait
    <3>3. CASE pc = "first" /\ start' = tick /\ waited' = waited
      <4>1. Elapsed' = 0 /\ Taken' = cnt /\ waited' = 0
        BY <1>10, <2>1, <3>1, <3>3 DEF Elapsed, Taken, Types, Waiting
      <4>2. 0 * T + cnt - T <= 0
        BY <1>10, <3>1
      <4> QED
        BY <4>1, <4>2 DEF NotLess
    <3> QED
      BY <3>1, <3>2, <3>3 DEF Returns, Waiting
  <2> QED
    BY <2>2, <2>3
<1>3. CASE Restart
  <2>1. /\ cnt' = Rest(seen) /\ tick' = (tick + Ticks(seen)) % WRAP /\ seen' = NotSeen /\ Returns(tick')
        /\ seen # NotSeen
    BY <1>3 DEF Restart
  <2>2. /\ seen \in Nat /\ Ticks(seen) \in Nat /\ Rest(seen) \in 0 .. T - 1
    BY <1>3, RestartTakes
  <2>3. Taken' = Rest(seen)
    BY <2>1 DEF Taken
  <2>4. CASE ~Waiting'
    BY <2>4 DEF NotLess
  <2>5. CASE Waiting /\ UNCHANGED <<pc, wait>>
    <3>1. waited = Long \/ (Elapsed + Ticks(seen)) * T + Rest(seen) - T <= waited
      BY <1>3, <2>5, RestartNotLess
    <3>2. Elapsed' \in Nat /\ Elapsed' <= Elapsed + Ticks(seen)
      BY <2>1, <2>2, <2>5, ElapsedGrows DEF wait
    <3>3. Elapsed' * T <= (Elapsed + Ticks(seen)) * T
      BY <1>11, <2>2, <3>2, Longer
    <3>8. Elapsed' \in Nat /\ Elapsed + Ticks(seen) \in Nat
      BY <1>11, <2>2, <3>2
    <3>7. Elapsed' * T \in Nat /\ (Elapsed + Ticks(seen)) * T \in Nat
      BY <1>11, <3>8, Product
    <3>4. PICK e \in Nat, f \in Nat : e = Elapsed' * T /\ f = (Elapsed + Ticks(seen)) * T
      BY <3>7, Zenon
    <3>5. Long' = Long /\ waited' = waited /\ waited \in Nat
      BY <2>5 DEF Long, Bound, wait, Types
    <3>6. waited' = Long' \/ e + Taken' - T <= waited'
      <4>1. f + Rest(seen) - T <= waited \/ waited = Long
        BY <3>1, <3>4
      <4>2. e <= f
        BY <3>3, <3>4
      <4> QED
        BY <1>11, <2>2, <2>3, <3>5, <4>1, <4>2
    <3> QED
      BY <3>4, <3>6 DEF NotLess
  <2>6. CASE pc = "first" /\ start' = tick' /\ waited' = waited
    <3>1. Elapsed' = 0 /\ waited' = 0
      <4>2. tick \in Nat
        BY <1>10 DEF Types
      <4>1. tick' \in Nat
        <5>1. ((tick + Ticks(seen)) % WRAP) \in 0 .. WRAP - 1
          BY <1>10, <2>2, <4>2, RunsOver
        <5>2. tick' = (tick + Ticks(seen)) % WRAP
          BY <2>1
        <5>3. tick' \in 0 .. WRAP - 1
          BY <5>1, <5>2, Zenon
        <5> QED
          BY <1>10, <5>3
      <4> QED
        <5>1. tick' >= start' /\ tick' - start' = 0
          <6>1. PICK a \in Nat : a = tick'
            BY <4>1, Zenon
          <6>2. a >= a /\ a - a = 0
            OBVIOUS
          <6> QED
            BY <2>6, <6>1, <6>2, Zenon
        <5>2. waited = 0
          BY <2>6 DEF Types, Waiting
        <5> QED
          BY <2>6, <5>1, <5>2 DEF Elapsed
    <3>2. 0 * T + Rest(seen) - T <= 0
      BY <1>10, <2>2
    <3> QED
      BY <2>3, <3>1, <3>2 DEF NotLess
  <2> QED
    BY <2>1, <2>4, <2>5, <2>6 DEF Returns, Waiting
<1>4. CASE Hold \/ Go \/ StartRtc \/ ResetTick \/ GetTick \/ (\E c \in Counts : Sleep128(c))
  <2>1. CASE Hold \/ Go
    BY <2>1 DEF Hold, Go, wait, NotLess, Elapsed, Taken, Waiting, Long, Bound
  <2>2. CASE StartRtc \/ ResetTick \/ GetTick \/ (\E c \in Counts : Sleep128(c))
    BY <2>2 DEF StartRtc, ResetTick, GetTick, Sleep128, Called, NotLess, Waiting
  <2> QED
    BY <1>4, <2>1, <2>2
<1> QED
  BY <1>1, <1>2, <1>3, <1>4 DEF Next, Code

\* A wait that is over has had its ticks.
LEMMA TicksAreOver ==
  ASSUME Types, NEW t \in 0 .. WRAP - 1, ~GoesOn(t), ~Overflows, ~ChangesSign, NEW k \in Int,
         k = IF t >= start THEN t - start ELSE t + WRAP - start
  PROVE  count <= k
<1>1. PICK h \in Int : h = WRAP \div 2
  BY Constants
<1>2. start \in Nat /\ count \in Nat /\ start < WRAP /\ WRAP \in Nat /\ t \in Nat
  BY Constants DEF Types
<1>3. start + count < WRAP /\ (start + count) % WRAP = start + count
  <2>1. start + count < WRAP
    BY <1>2 DEF Overflows
  <2> QED
    BY <1>2, <2>1
<1>4. CASE ~(t < start + count)
  BY <1>2, <1>4
<1>5. CASE pc = "sleep" /\ ~(Signed(start) <= Signed(t))
  <2>1. start >= h \/ start + count <= h
    BY <1>1, <1>2, <1>5 DEF ChangesSign
  <2>2. /\ Signed(start) = IF start >= h THEN start - WRAP ELSE start
        /\ Signed(t) = IF t >= h THEN t - WRAP ELSE t
    BY <1>1 DEF Signed
  <2>3. CASE start >= h
    <3>1. Signed(start) = start - WRAP
      BY <2>2, <2>3
    <3>2. t >= h /\ Signed(t) = t - WRAP
      BY <1>2, <1>5, <2>2, <3>1
    <3>3. t < start
      BY <1>2, <1>5, <3>1, <3>2
    <3> QED
      BY <1>2, <1>3, <3>3
  <2>4. CASE start < h /\ start + count <= h
    <3>1. Signed(start) = start
      BY <1>1, <1>2, <2>2, <2>4
    <3>2. CASE t >= h
      BY <1>1, <1>2, <2>4, <3>2
    <3>3. CASE t < h
      <4>1. Signed(t) = t
        BY <1>1, <1>2, <2>2, <3>3
      <4>2. t < start
        BY <1>2, <1>5, <3>1, <4>1
      <4> QED
        BY <1>2, <1>3, <4>2
    <3> QED
      BY <1>1, <1>2, <3>2, <3>3
  <2> QED
    BY <1>1, <1>2, <2>1, <2>3, <2>4
<1> QED
  BY <1>3, <1>4, <1>5 DEF GoesOn

\* So it has been waited for that long.
LEMMA EnoughWaited ==
  ASSUME Types, NEW k \in Nat, count <= k, count # 0, Waiting, waited = Long \/ k * T - T <= waited
  PROVE  waited >= (count - 1) * T
<1>1. count \in Nat \ {0} /\ count \in Counts /\ T \in Nat /\ LAG \in Nat /\ TL = T + LAG /\ waited \in Nat
  BY Constants DEF Types
<1>2. CASE k * T - T <= waited
  <2>1. count * T <= k * T
    BY <1>1, Longer
  <2>2. count * T \in Nat /\ k * T \in Nat
    BY <1>1, Product
  <2>3. (count - 1) * T = count * T - T
    BY <1>1
  <2>4. PICK e \in Nat, f \in Nat : e = count * T /\ f = k * T
    BY <2>2, Zenon
  <2>5. e <= f /\ f - T <= waited
    BY <1>2, <2>1, <2>4, Zenon
  <2>6. e - T <= waited
    BY <1>1, <2>5
  <2> QED
    <3>1. (count - 1) * T <= waited
      BY <2>3, <2>4, <2>6, Zenon
    <3>2. (count - 1) * T \in Int
      BY <1>1, <2>2, <2>3
    <3> QED
      BY <1>1, <3>1, <3>2
<1>3. CASE waited = Long
  <2>1. waited > Bound(count)
    BY <1>1, <1>3, LongIs
  <2>2. Bound(count) = (count + 1) * T + (count + 1) * LAG
    BY <1>1 DEF Bound, T
  <2>3. (count + 1) * T \in Nat /\ (count + 1) * LAG \in Nat
    BY <1>1, Product
  <2>4. (count - 1) * T <= (count + 1) * T
    BY <1>1, Longer
  <2>5. (count - 1) * T \in Nat
    BY <1>1, Product
  <2>6. PICK e \in Nat, f \in Nat, g \in Nat :
          e = (count - 1) * T /\ f = (count + 1) * T /\ g = (count + 1) * LAG
    BY <2>3, <2>5, Zenon
  <2>7. waited > f + g /\ e <= f
    BY <2>1, <2>2, <2>4, <2>6, Zenon
  <2>8. waited >= e
    BY <1>1, <2>7
  <2> QED
    BY <2>6, <2>8, Zenon
<1> QED
  BY <1>2, <1>3

\* What a step that ends a wait has in its hand.
LEMMA EndsLate ==
  ASSUME Types, NotLess, Next, Waiting, pc' = "idle", ~Overflows, ~ChangesSign, count # 0
  PROVE  waited >= (count - 1) * T
<1>0. WRAP \in Nat \ {0} /\ T \in Nat \ {0} /\ start \in Nat /\ tick \in 0 .. WRAP - 1 /\ waited \in Nat
  BY Constants DEF Types
<1>1. CASE ReadCounter
  <2>1. Returns(tick) /\ seen = NotSeen
    BY <1>1 DEF ReadCounter, Waiting
  <2>2. ~GoesOn(tick)
    BY <2>1 DEF Returns, Waiting
  <2>3. Elapsed \in Nat
    BY <1>0, ElapsedIs
  <2>4. count <= Elapsed
    BY <1>0, <2>2, <2>3, TicksAreOver DEF Elapsed
  <2>5. Taken = cnt /\ cnt \in Nat
    BY <2>1, Constants DEF Taken, Types
  <2>6. PICK e \in Nat : e = Elapsed * T
    <3>1. Elapsed * T \in Nat
      BY <1>0, <2>3, Product
    <3> QED
      BY <3>1, Zenon
  <2>7. waited = Long \/ e + cnt - T <= waited
    BY <2>5, <2>6 DEF NotLess
  <2>8. waited = Long \/ e - T <= waited
    BY <1>0, <2>5, <2>7
  <2> QED
    BY <2>3, <2>4, <2>6, <2>8, EnoughWaited
<1>2. CASE Restart
  <2>1. Returns(tick') /\ tick' = (tick + Ticks(seen)) % WRAP
    BY <1>2 DEF Restart
  <2>2. ~GoesOn(tick')
    BY <2>1 DEF Returns, Waiting
  <2>3. Elapsed \in Nat /\ Ticks(seen) \in Nat /\ Rest(seen) \in Nat
    BY <1>0, <1>2, ElapsedIs, RestartTakes
  <2>4. tick' \in 0 .. WRAP - 1 /\ (tick' = tick + Ticks(seen) \/ tick' <= tick + Ticks(seen) - WRAP)
    <3>1. tick \in Nat
      BY <1>0
    <3>2. /\ ((tick + Ticks(seen)) % WRAP) \in 0 .. WRAP - 1
          /\ \/ ((tick + Ticks(seen)) % WRAP) = tick + Ticks(seen)
             \/ ((tick + Ticks(seen)) % WRAP) <= tick + Ticks(seen) - WRAP
      BY <1>0, <2>3, <3>1, RunsOver
    <3> QED
      BY <2>1, <3>2, Zenon
  <2>14. PICK t \in 0 .. WRAP - 1, n \in Nat :
           t = tick' /\ n = Ticks(seen) /\ (t = tick + n \/ t <= tick + n - WRAP)
    BY <2>3, <2>4, Zenon
  <2>16. t \in Nat /\ WRAP \in Nat /\ tick \in Nat /\ start \in Nat /\ start < WRAP
    BY <1>0, <2>14 DEF Types
  <2>15. PICK k \in Int : k = IF t >= start THEN t - start ELSE t + WRAP - start
    <3>1. (IF t >= start THEN t - start ELSE t + WRAP - start) \in Int
      BY <2>16
    <3> QED
      BY <3>1, Zenon
  <2>5. k = IF tick' >= start THEN tick' - start ELSE tick' + WRAP - start
    BY <2>14, <2>15, Zenon
  <2>6. count <= k
    BY <2>2, <2>4, <2>5, TicksAreOver
  <2>7. k <= Elapsed + Ticks(seen) /\ k \in Nat
    <3>1. Elapsed = IF tick >= start THEN tick - start ELSE tick + WRAP - start
      BY DEF Elapsed
    <3>3. n \in Nat /\ t < WRAP /\ tick < WRAP /\ (t = tick + n \/ t <= tick + n - WRAP)
      BY <1>0, <2>14
    <3>2. k <= Elapsed + n /\ k \in Nat
      BY <2>15, <2>16, <3>1, <3>3
    <3> QED
      BY <2>14, <3>2, Zenon
  <2>8. waited = Long \/ (Elapsed + Ticks(seen)) * T + Rest(seen) - T <= waited
    BY <1>2, RestartNotLess
  <2>9. k * T <= (Elapsed + Ticks(seen)) * T
    BY <1>0, <2>3, <2>7, Longer
  <2>10. k * T \in Nat /\ (Elapsed + Ticks(seen)) * T \in Nat
    BY <1>0, <2>3, <2>7, Product
  <2>11. PICK e \in Nat, f \in Nat : e = k * T /\ f = (Elapsed + Ticks(seen)) * T
    BY <2>10, Zenon
  <2>12. e <= f /\ (waited = Long \/ f + Rest(seen) - T <= waited)
    BY <2>8, <2>9, <2>11, Zenon
  <2>13. waited = Long \/ e - T <= waited
    BY <1>0, <2>3, <2>12
  <2> QED
    BY <2>6, <2>7, <2>11, <2>13, EnoughWaited
<1>3. CASE Counts1 \/ Hold \/ Go
  BY <1>3 DEF Counts1, Hold, Go, Waiting
<1>4. CASE StartRtc \/ ResetTick \/ GetTick \/ (\E c \in Counts : Sleep128(c))
  BY <1>4 DEF StartRtc, ResetTick, GetTick, Sleep128, Called, Waiting
<1> QED
  BY <1>1, <1>2, <1>3, <1>4 DEF Next, Code

\* No sleep128 or wait of the drivers is shorter by the counter than its ticks but one,
\* however long the processor was held in between.
THEOREM LongEnough == Spec => WaitsLongEnough
<1>1. Init => Types /\ NotLess
  <2> SUFFICES ASSUME Init PROVE Types /\ NotLess
    OBVIOUS
  <2>1. pc = "idle" /\ ~Waiting
    BY DEF Init, Waiting
  <2>2. Types
    BY <2>1, Constants DEF Init, Types, Waiting
  <2> QED
    BY <2>1, <2>2 DEF NotLess
<1>2. Types /\ NotLess /\ [Next]_vars => Types' /\ NotLess'
  <2> SUFFICES ASSUME Types, NotLess, [Next]_vars PROVE Types' /\ NotLess'
    OBVIOUS
  <2>1. CASE Next
    BY <2>1, TypesKept, NotLessKept
  <2>2. CASE UNCHANGED vars
    BY <2>2 DEF vars, wait, Types, NotLess, Waiting, Elapsed, Taken, Long, Bound
  <2> QED
    BY <2>1, <2>2
<1>3. Types /\ NotLess /\ [Next]_vars =>
        [Waiting /\ pc' = "idle" /\ ~Overflows /\ ~ChangesSign
           => count = 0 \/ waited >= (count - 1) * CNT_PER_TICK]_vars
  BY EndsLate DEF T
<1> QED
  BY <1>1, <1>2, <1>3, PTL DEF Spec, WaitsLongEnough

----------------------------------------------------------------------------
(* No wait is too long *)

\* While the processor is not held, the counter gets at most LAG past the tick before
\* it is read, and at most LAG further before it is started again.
OnCounter == IF seen = NotSeen THEN cnt <= T + lag ELSE seen <= TL /\ cnt <= seen + lag

\* Before the first comparison, and after one that let the wait go on.
Fresh == tick = start /\ waited <= lag + (IF seen = NotSeen THEN 0 ELSE LAG)
Before(t) ==
  IF start + count < WRAP THEN start <= t /\ t < start + count ELSE t < start + count - WRAP

\* What is waited is not more than the ticks, with what starting the counter lost for
\* each, and the counter; and the end is not yet passed.
NotMore ==
  Waiting /\ ~late /\ ~Misses =>
    OnCounter /\ waited <= Elapsed * TL + cnt /\ (Fresh \/ Before(tick))

LEMMA EndIs ==
  ASSUME Types
  PROVE  (start + count) % WRAP = IF start + count < WRAP THEN start + count ELSE start + count - WRAP
<1>1. WRAP \in Nat \ {0} /\ start \in 0 .. WRAP - 1 /\ count \in 0 .. WRAP
  BY Constants DEF Types
<1> QED
  BY <1>1, OneOn

LEMMA GoesOnBefore ==
  ASSUME Types, NEW t \in 0 .. WRAP - 1, GoesOn(t), start + count < WRAP => start <= t
  PROVE  Before(t)
<1>1. t < IF start + count < WRAP THEN start + count ELSE start + count - WRAP
  BY EndIs DEF GoesOn
<1> QED
  BY <1>1 DEF Before

\* The counter is a tick on when it is started again, and not two.
LEMMA OneTick ==
  ASSUME Types, Restart, seen <= TL
  PROVE  Ticks(seen) = 1 /\ Rest(seen) = seen - T
<1>1. T \in Nat /\ T > 0 /\ TL < 2 * T /\ TL \in Nat
  BY Constants
<1>2. PICK q \in Nat, r \in Nat, n \in Nat :
        q = Ticks(seen) /\ r = Rest(seen) /\ n = seen /\ r < T /\ n = q * T + r /\ n > T
  <2>1. /\ seen \in Nat /\ Ticks(seen) \in Nat /\ Rest(seen) \in 0 .. T - 1
        /\ seen = Ticks(seen) * T + Rest(seen) /\ seen > T
    BY RestartTakes
  <2>2. Rest(seen) \in Nat /\ Rest(seen) < T
    BY <1>1, <2>1
  <2> QED
    BY <2>1, <2>2, Zenon
<1>3. n < 2 * T
  <2>1. n <= TL
    BY <1>2
  <2> QED
    BY <1>1, <2>1
<1>4. CASE q = 0
  BY <1>1, <1>2, <1>4
<1>5. CASE q >= 2
  <2>1. 2 * T <= q * T
    BY <1>1, <1>5, Longer
  <2>2. PICK e \in Nat : e = q * T
    <3>1. q * T \in Nat
      BY <1>1, Product
    <3> QED
      BY <3>1, Zenon
  <2>3. n = e + r
    BY <1>2, <2>2, Zenon
  <2>4. 2 * T <= e
    BY <2>1, <2>2, Zenon
  <2> QED
    BY <1>1, <1>3, <2>3, <2>4
<1>6. CASE q = 1
  <2>1. n = T + r
    BY <1>1, <1>2, <1>6
  <2>2. r = n - T
    BY <1>1, <2>1
  <2> QED
    BY <1>2, <1>6, <2>2, Zenon
<1> QED
  BY <1>4, <1>5, <1>6

\* Before the end of a wait, tick does not come round to start again.
LEMMA NextTick ==
  ASSUME Types, ~Misses, tick = start \/ Before(tick), NEW t \in 0 .. WRAP - 1, t = (tick + 1) % WRAP
  PROVE  /\ (IF t >= start THEN t - start ELSE t + WRAP - start) = Elapsed + 1
         /\ start + count < WRAP => start <= t
<1>1. /\ WRAP \in Nat /\ WRAP >= 2 /\ start \in Nat /\ start < WRAP /\ count \in Nat /\ count < WRAP
      /\ tick \in Nat /\ tick < WRAP
  <2>1. WRAP \in Nat \ {0} /\ WRAP # 1
    BY Constants
  <2> QED
    BY <2>1 DEF Types
<1>2. t = IF tick + 1 < WRAP THEN tick + 1 ELSE tick + 1 - WRAP
  <2>1. tick \in 0 .. WRAP - 1 /\ 1 \in 0 .. WRAP /\ WRAP \in Nat \ {0}
    BY <1>1
  <2> QED
    BY <2>1, OneOn
<1>3. Elapsed = IF tick >= start THEN tick - start ELSE tick + WRAP - start
  BY DEF Elapsed
<1>4. ~(count = 0 /\ start = WRAP - 1)
  BY DEF Misses
<1>5. CASE tick = start
  BY <1>1, <1>2, <1>3, <1>4, <1>5
<1>6. CASE start + count < WRAP /\ start <= tick /\ tick < start + count
  BY <1>1, <1>2, <1>3, <1>6
<1>7. CASE start + count >= WRAP /\ tick < start + count - WRAP
  BY <1>1, <1>2, <1>3, <1>7
<1> QED
  BY <1>1, <1>5, <1>6, <1>7 DEF Before

LEMMA NotMoreKept ==
  ASSUME Types, NotMore, Next
  PROVE  NotMore'
<1>0. /\ T \in Nat /\ T > 0 /\ LAG \in Nat /\ TL = T + LAG /\ TL \in Nat /\ COUNTS \in Nat
      /\ T + LAG + LAG < COUNTS /\ WRAP \in Nat \ {0}
  BY Constants
<1>1. /\ cnt \in Nat /\ cnt < COUNTS /\ lag \in Nat /\ lag <= LAG /\ waited \in Nat
      /\ seen \in {NotSeen} \cup Nat /\ NotSeen = -1 /\ tick \in 0 .. WRAP - 1
  BY <1>0 DEF Types, NotSeen
<1>2. Elapsed \in Nat /\ Elapsed * TL \in Nat
  <2>1. Elapsed \in Nat
    BY <1>0, ElapsedIs
  <2> QED
    BY <1>0, <2>1, Product
<1>3. PICK e \in Nat : e = Elapsed * TL
  BY <1>2, Zenon
\* A step that leaves a wait where it is.
<1>4. ASSUME Waiting, Waiting', ~late', ~Misses', UNCHANGED <<start, count, late>>, pc' = pc
      PROVE  ~late /\ ~Misses /\ OnCounter /\ waited <= e + cnt /\ (Fresh \/ Before(tick))
  BY <1>3, <1>4 DEF NotMore, Misses
<1>5. CASE Counts1
  <2> SUFFICES ASSUME Waiting', ~late', ~Misses' PROVE (OnCounter /\ waited <= Elapsed * TL + cnt /\ (Fresh \/ Before(tick)))'
    BY DEF NotMore
  <2>1. UNCHANGED <<tick, pc, seen, start, count, held, late>> /\ Waiting
    BY <1>5 DEF Counts1, Waiting
  <2>2. ~late /\ OnCounter /\ waited <= e + cnt /\ (Fresh \/ Before(tick))
    BY <1>4, <2>1
  <2>3. ~held
    BY <2>1, <2>2 DEF Types
  <2>4. lag' = lag + 1 /\ lag < LAG /\ waited' = Passes(1) /\ cnt' = (cnt + 1) % COUNTS
    BY <1>5, <2>1, <2>3 DEF Counts1
  <2>5. cnt' = cnt + 1
    <3>1. cnt + 1 < COUNTS
      BY <1>0, <1>1, <2>2, <2>4 DEF OnCounter
    <3>2. (cnt + 1) % COUNTS = cnt + 1
      BY <1>0, <1>1, <3>1
    <3> QED
      BY <2>4, <3>2
  <2>6. waited' <= waited + 1 /\ waited' \in Nat
    <3>1. Long \in Nat
      BY <2>1, LongIs DEF Types
    <3> QED
      BY <1>1, <2>4, <3>1 DEF Passes
  <2>7. OnCounter'
    BY <1>0, <1>1, <2>1, <2>2, <2>4, <2>5 DEF OnCounter
  <2>8. Elapsed' = Elapsed
    BY <2>1 DEF Elapsed
  <2>9. waited' <= e + cnt'
    BY <1>1, <2>2, <2>5, <2>6
  <2>10. CASE Fresh
    <3>1. Fresh'
      BY <1>0, <1>1, <2>1, <2>4, <2>6, <2>10 DEF Fresh
    <3> QED
      BY <1>3, <2>7, <2>8, <2>9, <3>1
  <2>11. CASE Before(tick)
    <3>1. Before(tick)'
      BY <2>1, <2>11 DEF Before
    <3> QED
      BY <1>3, <2>7, <2>8, <2>9, <3>1
  <2> QED
    BY <2>2, <2>10, <2>11
<1>6. CASE ReadCounter
  <2> SUFFICES ASSUME Waiting', ~late', ~Misses' PROVE (OnCounter /\ waited <= Elapsed * TL + cnt /\ (Fresh \/ Before(tick)))'
    BY DEF NotMore
  <2>1. cnt' = cnt /\ tick' = tick /\ seen = NotSeen /\ lag' = 0
    BY <1>6 DEF ReadCounter, Steps
  <2>2. CASE Behind(cnt)
    <3>1. seen' = cnt /\ UNCHANGED <<pc, start, count, waited, late>> /\ Waiting
      BY <1>6, <2>2 DEF ReadCounter, wait, Waiting
    <3>2. OnCounter /\ waited <= e + cnt /\ (Fresh \/ Before(tick))
      BY <1>4, <3>1
    <3>3. OnCounter'
      BY <1>0, <1>1, <2>1, <3>1, <3>2 DEF OnCounter
    <3>4. Elapsed' = Elapsed
      BY <2>1, <3>1 DEF Elapsed
    <3>5. Fresh => Fresh'
      BY <1>0, <1>1, <2>1, <3>1 DEF Fresh
    <3>6. Before(tick) => Before(tick)'
      BY <2>1, <3>1 DEF Before
    <3> QED
      BY <1>3, <2>1, <3>1, <3>2, <3>3, <3>4, <3>5, <3>6
  <2>3. CASE ~Behind(cnt)
    <3>1. Returns(tick) /\ seen' = seen /\ cnt <= T
      BY <1>0, <1>1, <1>6, <2>3 DEF ReadCounter, Behind, T
    <3>2. OnCounter'
      BY <1>0, <1>1, <2>1, <3>1 DEF OnCounter
    <3>3. CASE pc = "first" /\ start' = tick /\ waited' = waited
      <4>1. waited = 0
        BY <3>3 DEF Types, Waiting
      <4>2. Fresh'
        BY <1>0, <2>1, <3>1, <3>3, <4>1 DEF Fresh
      <4>3. Elapsed' = 0
        <5>1. PICK a \in Nat : a = tick
          BY <1>0, <1>1
        <5>2. a >= a /\ a - a = 0
          OBVIOUS
        <5> QED
          BY <2>1, <3>3, <5>1, <5>2, Zenon DEF Elapsed
      <4>4. 0 <= 0 * TL + cnt
        BY <1>0, <1>1
      <4>5. waited' <= Elapsed' * TL + cnt'
        BY <2>1, <3>3, <4>1, <4>3, <4>4, Zenon
      <4> QED
        BY <1>0, <3>2, <4>2, <4>5 DEF T, TL
    <3>4. CASE Waiting /\ GoesOn(tick) /\ UNCHANGED <<pc, wait>>
      <4>1. UNCHANGED <<start, count, waited, late>>
        BY <3>4 DEF wait
      <4>2. waited <= e + cnt /\ (Fresh \/ Before(tick))
        BY <1>4, <3>4, <4>1
      <4>3. start + count < WRAP => start <= tick
        <5>1. start \in Nat
          BY <1>0 DEF Types
        <5> QED
          BY <4>2, <5>1 DEF Fresh, Before
      <4>4. Before(tick)
        BY <1>1, <3>4, <4>3, GoesOnBefore
      <4>5. Before(tick)'
        BY <2>1, <4>1, <4>4 DEF Before
      <4>6. Elapsed' = Elapsed
        BY <2>1, <4>1 DEF Elapsed
      <4> QED
        BY <1>3, <2>1, <3>2, <4>1, <4>2, <4>5, <4>6
    <3> QED
      BY <3>1, <3>3, <3>4 DEF Returns, Waiting
  <2> QED
    BY <2>2, <2>3
<1>7. CASE Restart
  <2> SUFFICES ASSUME Waiting', ~late', ~Misses' PROVE (OnCounter /\ waited <= Elapsed * TL + cnt /\ (Fresh \/ Before(tick)))'
    BY DEF NotMore
  <2>1. /\ cnt' = Rest(seen) /\ tick' = (tick + Ticks(seen)) % WRAP /\ seen' = NotSeen /\ Returns(tick')
        /\ seen # NotSeen /\ lag' = 0
    BY <1>7 DEF Restart, Steps
  <2>2. Rest(seen) \in Nat /\ Rest(seen) < T /\ Ticks(seen) \in Nat /\ seen \in Nat
    BY <1>0, <1>7, RestartTakes
  <2>3. OnCounter'
    BY <1>0, <2>1, <2>2 DEF OnCounter
  <2>4. tick' \in 0 .. WRAP - 1
    <3>1. tick \in Nat
      BY <1>0, <1>1
    <3>2. ((tick + Ticks(seen)) % WRAP) \in 0 .. WRAP - 1
      BY <1>0, <2>2, <3>1, RunsOver
    <3> QED
      BY <2>1, <3>2, Zenon
  <2>5. CASE pc = "first" /\ start' = tick' /\ waited' = waited
    <3>1. waited = 0
      BY <2>5 DEF Types, Waiting
    <3>2. Fresh'
      BY <1>0, <2>1, <2>5, <3>1 DEF Fresh
    <3>3. Elapsed' = 0
      <4>1. PICK a \in Nat : a = tick'
        BY <1>0, <2>4
      <4>2. a >= a /\ a - a = 0
        OBVIOUS
      <4> QED
        BY <2>5, <4>1, <4>2, Zenon DEF Elapsed
    <3>4. 0 <= 0 * TL + Rest(seen)
      BY <1>0, <2>2
    <3>5. waited' <= Elapsed' * TL + cnt'
      BY <2>1, <2>5, <3>1, <3>3, <3>4, Zenon
    <3> QED
      BY <2>3, <3>2, <3>5 DEF T, TL
  <2>6. CASE Waiting /\ GoesOn(tick') /\ UNCHANGED <<pc, wait>>
    <3>1. UNCHANGED <<start, count, waited, late>>
      BY <2>6 DEF wait
    <3>2. ~Misses /\ OnCounter /\ waited <= e + cnt /\ (Fresh \/ Before(tick))
      BY <1>4, <2>6, <3>1
    <3>3. seen <= TL /\ cnt <= seen + lag
      BY <2>1, <3>2 DEF OnCounter
    <3>4. Ticks(seen) = 1 /\ Rest(seen) = seen - T
      BY <1>7, <3>3, OneTick
    <3>5. tick = start \/ Before(tick)
      BY <3>2 DEF Fresh
    <3>6. PICK t \in 0 .. WRAP - 1 : t = tick' /\ t = (tick + 1) % WRAP
      BY <2>1, <2>4, <3>4, Zenon
    <3>7. /\ (IF t >= start THEN t - start ELSE t + WRAP - start) = Elapsed + 1
          /\ start + count < WRAP => start <= t
      BY <3>2, <3>5, <3>6, NextTick
    <3>8. Before(t)
      BY <2>6, <3>6, <3>7, GoesOnBefore
    <3>9. Before(tick)'
      BY <3>1, <3>6, <3>8 DEF Before
    <3>10. Elapsed' = Elapsed + 1
      BY <3>1, <3>6, <3>7 DEF Elapsed
    <3>11. (Elapsed + 1) * TL = e + TL
      BY <1>0, <1>2, <1>3
    <3>12. waited <= e + TL + (seen - T)
      BY <1>0, <1>1, <2>2, <3>2, <3>3
    <3>13. waited' <= Elapsed' * TL + cnt'
      BY <2>1, <3>1, <3>4, <3>10, <3>11, <3>12, Zenon
    <3> QED
      BY <2>3, <3>9, <3>13 DEF T, TL
  <2> QED
    BY <2>1, <2>5, <2>6 DEF Returns, Waiting
<1>8. CASE Hold
  BY <1>8 DEF Hold, NotMore, Waiting
<1>9. CASE Go
  BY <1>9 DEF Go, wait, NotMore, Types, Waiting
<1>10. CASE StartRtc \/ ResetTick \/ GetTick \/ (\E c \in Counts : Sleep128(c))
  BY <1>10 DEF StartRtc, ResetTick, GetTick, Sleep128, Called, NotMore, Waiting
<1> QED
  BY <1>5, <1>6, <1>7, <1>8, <1>9, <1>10 DEF Next, Code

LEMMA NotMoreIsEnough ==
  ASSUME Types, NotMore
  PROVE  WaitsNotTooLong
<1> SUFFICES ASSUME Waiting, ~late, ~Misses PROVE waited <= Bound(count)
  BY DEF WaitsNotTooLong
<1>0. /\ T \in Nat /\ LAG \in Nat /\ LAG < T /\ TL = T + LAG /\ TL \in Nat /\ WRAP \in Nat
  BY Constants
<1>1. /\ cnt \in Nat /\ lag \in Nat /\ lag <= LAG /\ waited \in Nat /\ count \in Nat
      /\ seen \in {NotSeen} \cup Nat /\ NotSeen = -1 /\ tick \in Nat /\ start \in Nat /\ tick < WRAP
      /\ start < WRAP /\ count < WRAP
  BY <1>0, Constants DEF Types, NotSeen
<1>2. OnCounter /\ waited <= Elapsed * TL + cnt /\ (Fresh \/ Before(tick))
  BY DEF NotMore
<1>3. Bound(count) = (count + 1) * TL /\ (count + 1) * TL = count * TL + TL
  BY <1>0, <1>1 DEF Bound, TL
<1>4. PICK f \in Nat : f = count * TL
  <2>1. count * TL \in Nat
    BY <1>0, <1>1, Product
  <2> QED
    BY <2>1, Zenon
<1>5. CASE Fresh
  <2>1. waited <= LAG + LAG
    BY <1>0, <1>1, <1>5 DEF Fresh
  <2>2. waited <= f + TL
    BY <1>0, <1>1, <2>1
  <2> QED
    BY <1>3, <1>4, <2>2
<1>6. CASE Before(tick)
  <2>1. Elapsed \in Nat /\ Elapsed + 1 <= count
    BY <1>0, <1>1, <1>6 DEF Before, Elapsed
  <2>2. (Elapsed + 1) * TL <= count * TL /\ (Elapsed + 1) * TL = Elapsed * TL + TL
    BY <1>0, <1>1, <2>1, Longer
  <2>3. PICK e \in Nat : e = Elapsed * TL
    <3>1. Elapsed * TL \in Nat
      BY <1>0, <2>1, Product
    <3> QED
      BY <3>1, Zenon
  <2>4. e + TL <= f
    BY <1>4, <2>2, <2>3, Zenon
  <2>5. cnt <= TL + LAG
    BY <1>0, <1>1, <1>2 DEF OnCounter
  <2>6. waited <= e + cnt
    BY <1>2, <2>3
  <2>7. waited <= f + TL
    BY <1>0, <1>1, <2>4, <2>5, <2>6
  <2> QED
    BY <1>3, <1>4, <2>7
<1> QED
  BY <1>2, <1>5, <1>6

\* And while the processor is not held, no wait is longer than its ticks and one more, with
\* what each start of the counter loses.
THEOREM NotTooLong == Spec => []WaitsNotTooLong
<1>1. Init => Types /\ NotMore
  <2> SUFFICES ASSUME Init PROVE Types /\ NotMore
    OBVIOUS
  <2>1. pc = "idle" /\ ~Waiting
    BY DEF Init, Waiting
  <2>2. Types
    BY <2>1, Constants DEF Init, Types, Waiting
  <2> QED
    BY <2>1, <2>2 DEF NotMore
<1>2. Types /\ NotMore /\ [Next]_vars => Types' /\ NotMore'
  <2> SUFFICES ASSUME Types, NotMore, [Next]_vars PROVE Types' /\ NotMore'
    OBVIOUS
  <2>1. CASE Next
    BY <2>1, TypesKept, NotMoreKept
  <2>2. CASE UNCHANGED vars
    BY <2>2 DEF vars, wait, Types, NotMore, Waiting, Elapsed, Misses, OnCounter, Fresh, Before
  <2> QED
    BY <2>1, <2>2
<1>3. Types /\ NotMore => WaitsNotTooLong
  BY NotMoreIsEnough
<1> QED
  BY <1>1, <1>2, <1>3, PTL DEF Spec
=============================================================================
