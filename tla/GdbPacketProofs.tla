-------------------------- MODULE GdbPacketProofs --------------------------
(***************************************************************************)
(* Proofs about GdbPacket, for any requests, programs, buffers and noise.  *)
(***************************************************************************)
EXTENDS GdbPacket, TLAPS, SequenceTheorems, FiniteSetTheorems, WellFoundedInduction

----------------------------------------------------------------------------
(* Recursive functions *)

\* Induction, for a set of numbers: a set of numbers that is not empty has a least one.
LEMMA Induct ==
  ASSUME NEW S, 0 \in S, \A n \in Nat : n \in S => n + 1 \in S
  PROVE  Nat \subseteq S
<1> DEFINE T == Nat \ S
<1>1. SUFFICES ASSUME T # {} PROVE FALSE
  OBVIOUS
<1>2. PICK x \in T : \A y \in T : ~ (<<y, x>> \in OpToRel(<, Nat))
  <2>1. T \subseteq Nat
    OBVIOUS
  <2> QED BY <1>1, <2>1, NatLessThanWellFounded, WFMin, Zenon
<1>3. \A y \in T : ~ (y < x)
  BY <1>2 DEF OpToRel
<1>4. x # 0 /\ x - 1 \in Nat /\ x - 1 < x
  OBVIOUS
<1>5. x - 1 \in S
  BY <1>3, <1>4
<1> QED BY <1>4, <1>5

\* f begins with b, and goes on as G says.
Follows(f, n, b, G) == f[0] = b /\ \A k \in 1 .. n : f[k] = G[<<k, f[k - 1]>>]

LEMMA Recursion ==
  ASSUME NEW m \in Nat, NEW V, NEW b \in V, NEW G \in [(1 .. m) \X V -> V]
  PROVE  \E f \in [0 .. m -> V] : Follows(f, m, b, G)
<1> DEFINE S == {n \in Nat : n <= m => \E f \in [0 .. n -> V] : Follows(f, n, b, G)}
<1>1. 0 \in S
  <2> DEFINE f == [k \in 0 .. 0 |-> b]
  <2>1. f \in [0 .. 0 -> V] /\ Follows(f, 0, b, G)
    BY DEF Follows
  <2> HIDE DEF f
  <2> QED BY <2>1
<1>2. ASSUME NEW n \in Nat, n \in S PROVE n + 1 \in S
  <2>1. CASE n + 1 <= m
    <3>1. PICK f \in [0 .. n -> V] : Follows(f, n, b, G)
      BY <1>2, <2>1
    <3> DEFINE g == [k \in 0 .. n + 1 |-> IF k = n + 1 THEN G[<<n + 1, f[n]>>] ELSE f[k]]
    <3>2. G[<<n + 1, f[n]>>] \in V
      <4>1. <<n + 1, f[n]>> \in (1 .. m) \X V
        BY <2>1
      <4> QED BY <4>1
    <3>3. g \in [0 .. n + 1 -> V]
      BY <3>2
    <3>4. \A k \in 0 .. n : g[k] = f[k]
      OBVIOUS
    <3>5. g[n + 1] = G[<<n + 1, f[n]>>]
      OBVIOUS
    <3> HIDE DEF g
    <3>6. g[0] = b
      BY <3>1, <3>4 DEF Follows
    <3>7. ASSUME NEW k \in 1 .. n + 1 PROVE g[k] = G[<<k, g[k - 1]>>]
      <4>1. k - 1 \in 0 .. n /\ g[k - 1] = f[k - 1]
        BY <3>4
      <4>2. CASE k = n + 1
        BY <3>5, <4>1, <4>2
      <4>3. CASE k \in 1 .. n
        <5>1. f[k] = G[<<k, f[k - 1]>>]
          BY <3>1, <4>3 DEF Follows
        <5>2. g[k] = f[k]
          BY <3>4, <4>3
        <5> QED BY <4>1, <5>1, <5>2
      <4> QED BY <4>2, <4>3
    <3>8. Follows(g, n + 1, b, G)
      BY <3>6, <3>7 DEF Follows
    <3> QED BY <3>3, <3>8
  <2> QED BY <2>1
<1> HIDE DEF S
<1>3. Nat \subseteq S
  BY <1>1, <1>2, Induct
<1> QED BY <1>3 DEF S

\* What goes on as G says where it is of the type has the type.
Obeys(g, m, V, b, G) == g[0] = b /\ \A k \in 1 .. m : g[k - 1] \in V => g[k] = G[<<k, g[k - 1]>>]

LEMMA RecursionTyped ==
  ASSUME NEW m \in Nat, NEW V, NEW b \in V, NEW G \in [(1 .. m) \X V -> V], NEW g,
         Obeys(g, m, V, b, G)
  PROVE  \A k \in 0 .. m : g[k] \in V
<1> USE DEF Obeys
<1> DEFINE S == {n \in Nat : n <= m => g[n] \in V}
<1>1. 0 \in S
  OBVIOUS
<1>2. ASSUME NEW n \in Nat, n \in S PROVE n + 1 \in S
  <2>1. CASE n + 1 <= m
    <3>1. n + 1 \in 1 .. m /\ n + 1 - 1 = n /\ g[n] \in V
      BY <1>2, <2>1
    <3>2. g[n + 1] = G[<<n + 1, g[n]>>]
      BY <3>1
    <3>3. <<n + 1, g[n]>> \in (1 .. m) \X V
      BY <3>1
    <3> QED BY <3>2, <3>3
  <2> QED BY <2>1
<1> HIDE DEF S
<1>3. Nat \subseteq S
  BY <1>1, <1>2, Induct
<1> QED BY <1>3 DEF S

\* A set of numbers that is not empty has a least one.
LEMMA Least ==
  ASSUME NEW S, S \subseteq Nat, NEW n \in S
  PROVE  \E x \in S : \A y \in S : x <= y
<1>1. PICK x \in S : \A y \in S : ~ (<<y, x>> \in OpToRel(<, Nat))
  BY NatLessThanWellFounded, WFMin, Zenon
<1>2. \A y \in S : ~ (y < x)
  BY <1>1 DEF OpToRel
<1>3. \A y \in S : x <= y
  BY <1>2
<1> QED BY <1>3

\* Induction downwards.
LEMMA Downwards ==
  ASSUME NEW n \in Nat, NEW S, n \in S, \A i \in 1 .. n - 1 : (\A j \in i + 1 .. n : j \in S) => i \in S
  PROVE  \A i \in 1 .. n : i \in S
<1> DEFINE T == {m \in Nat : \A j \in 1 .. n : n - m <= j => j \in S}
<1>1. 0 \in T
  <2>1. \A j \in 1 .. n : n - 0 <= j => j = n
    OBVIOUS
  <2> QED BY <2>1
<1>2. ASSUME NEW m \in Nat, m \in T PROVE m + 1 \in T
  <2>1. ASSUME NEW j \in 1 .. n, n - (m + 1) <= j PROVE j \in S
    <3>1. CASE n - m <= j
      BY <1>2, <3>1
    <3>2. CASE ~ (n - m <= j)
      <4>1. j = n - m - 1 /\ j \in 1 .. n - 1
        BY <2>1, <3>2
      <4>2. \A k \in j + 1 .. n : n - m <= k /\ k \in 1 .. n
        BY <4>1
      <4>3. \A k \in j + 1 .. n : k \in S
        BY <1>2, <4>2
      <4> QED BY <4>1, <4>3
    <3> QED BY <3>1, <3>2
  <2> QED BY <2>1
<1> HIDE DEF T
<1>3. n \in T
  BY <1>1, <1>2, Induct
<1>4. \A j \in 1 .. n : n - n <= j
  OBVIOUS
<1> QED BY <1>3, <1>4 DEF T

\* f ends with b, and f[i] is what G makes of a later one.
Precedes(f, lo, n, b, step, G) == f[n + 1] = b /\ \A i \in lo .. n : f[i] = G[<<i, f[step[i]]>>]

LEMMA BackwardRecursion ==
  ASSUME NEW n \in Nat, NEW V, NEW b \in V, NEW step, \A i \in 1 .. n : step[i] \in i + 1 .. n + 1,
         NEW G \in [(1 .. n) \X V -> V]
  PROVE  \E f \in [1 .. n + 1 -> V] : Precedes(f, 1, n, b, step, G)
<1> DEFINE S == {m \in Nat : m <= n => \E f \in [n + 1 - m .. n + 1 -> V] : Precedes(f, n + 1 - m, n, b, step, G)}
<1>1. 0 \in S
  <2> DEFINE f == [k \in n + 1 - 0 .. n + 1 |-> b]
  <2>1. f \in [n + 1 - 0 .. n + 1 -> V] /\ Precedes(f, n + 1 - 0, n, b, step, G)
    BY DEF Precedes
  <2> HIDE DEF f
  <2> QED BY <2>1
<1>2. ASSUME NEW m \in Nat, m \in S PROVE m + 1 \in S
  <2>1. CASE m + 1 <= n
    <3>1. PICK lo \in Nat : lo = n - m /\ lo \in 1 .. n /\ lo = n + 1 - (m + 1) /\ lo + 1 = n + 1 - m
      BY <2>1
    <3>2. PICK f \in [lo + 1 .. n + 1 -> V] : Precedes(f, lo + 1, n, b, step, G)
      BY <1>2, <2>1, <3>1
    <3> DEFINE g == [k \in lo .. n + 1 |-> IF k = lo THEN G[<<lo, f[step[lo]]>>] ELSE f[k]]
    <3>3. step[lo] \in lo + 1 .. n + 1 /\ f[step[lo]] \in V
      BY <3>1, <3>2
    <3>4. G[<<lo, f[step[lo]]>>] \in V
      <4>1. <<lo, f[step[lo]]>> \in (1 .. n) \X V
        BY <3>1, <3>3
      <4> QED BY <4>1
    <3>5. g \in [lo .. n + 1 -> V]
      BY <3>2, <3>4
    <3>6. \A k \in lo + 1 .. n + 1 : g[k] = f[k]
      BY <3>1
    <3>7. g[lo] = G[<<lo, f[step[lo]]>>]
      BY <3>1
    <3> HIDE DEF g
    <3>8. g[n + 1] = b
      BY <3>1, <3>2, <3>6 DEF Precedes
    <3>9. ASSUME NEW k \in lo .. n PROVE g[k] = G[<<k, g[step[k]]>>]
      <4>1. k \in 1 .. n
        BY <3>1
      <4>2. step[k] \in k + 1 .. n + 1
        BY <4>1
      <4>3. step[k] \in lo + 1 .. n + 1
        BY <3>1, <4>1, <4>2
      <4>4. g[step[k]] = f[step[k]]
        BY <3>6, <4>3
      <4>5. CASE k = lo
        BY <3>7, <4>4, <4>5
      <4>6. CASE k \in lo + 1 .. n
        <5>1. f[k] = G[<<k, f[step[k]]>>]
          BY <3>2, <4>6 DEF Precedes
        <5>2. g[k] = f[k]
          BY <3>6, <4>6
        <5> QED BY <4>4, <5>1, <5>2
      <4> QED BY <3>1, <4>5, <4>6
    <3>10. Precedes(g, lo, n, b, step, G)
      BY <3>8, <3>9 DEF Precedes
    <3> QED BY <3>1, <3>5, <3>10
  <2> QED BY <2>1
<1> HIDE DEF S
<1>3. n \in S
  BY <1>1, <1>2, Induct
<1>4. n + 1 - n = 1
  OBVIOUS
<1> QED BY <1>3, <1>4 DEF S

Heeds(g, n, V, b, step, G) ==
  g[n + 1] = b /\ \A i \in 1 .. n : g[step[i]] \in V => g[i] = G[<<i, g[step[i]]>>]

LEMMA BackwardTyped ==
  ASSUME NEW n \in Nat, NEW V, NEW b \in V, NEW step, \A i \in 1 .. n : step[i] \in i + 1 .. n + 1,
         NEW G \in [(1 .. n) \X V -> V], NEW g, Heeds(g, n, V, b, step, G)
  PROVE  \A i \in 1 .. n + 1 : g[i] \in V
<1> DEFINE S == {i \in 1 .. n + 1 : g[i] \in V}
<1>1. n + 1 \in S
  BY DEF Heeds
<1>2. ASSUME NEW i \in 1 .. n + 1 - 1, \A j \in i + 1 .. n + 1 : j \in S PROVE i \in S
  <2>1. i \in 1 .. n /\ step[i] \in i + 1 .. n + 1
    OBVIOUS
  <2>2. g[step[i]] \in V
    BY <1>2, <2>1
  <2>3. g[i] = G[<<i, g[step[i]]>>]
    BY <2>1, <2>2 DEF Heeds
  <2>4. <<i, g[step[i]]>> \in (1 .. n) \X V
    BY <2>1, <2>2
  <2>5. g[i] \in V
    BY <2>3, <2>4
  <2> QED BY <2>1, <2>5
<1> HIDE DEF S
<1>3. n + 1 \in Nat
  OBVIOUS
<1>4. \A i \in 1 .. n + 1 : i \in S
  BY <1>1, <1>2, <1>3, Downwards
<1> QED BY <1>4 DEF S

----------------------------------------------------------------------------
(* Checksums *)

LEMMA SumsAre ==
  ASSUME NEW s, Len(s) \in Nat, \A k \in 1 .. Len(s) : s[k] \in Nat
  PROVE  /\ Sums(s)[0] = 0
         /\ \A k \in 1 .. Len(s) : Sums(s)[k] = (Sums(s)[k - 1] + s[k]) % 256
         /\ \A k \in 0 .. Len(s) : Sums(s)[k] \in 0 .. 255
<1>0. PICK n \in Nat : n = Len(s)
  OBVIOUS
<1> DEFINE V == 0 .. 255
           G == [x \in (1 .. n) \X V |-> (x[2] + s[x[1]]) % 256]
           sum == CHOOSE f : f = [i \in 0 .. n |-> IF i = 0 THEN 0 ELSE (f[i - 1] + s[i]) % 256]
<1>1. G \in [(1 .. n) \X V -> V]
  <2>1. ASSUME NEW x \in (1 .. n) \X V PROVE (x[2] + s[x[1]]) % 256 \in V
    <3>1. PICK k \in 1 .. n, v \in V : x[1] = k /\ x[2] = v
      OBVIOUS
    <3>2. PICK y \in Nat : y = s[k]
      BY <1>0
    <3>3. (v + y) % 256 \in V
      OBVIOUS
    <3> QED BY <3>1, <3>2, <3>3
  <2> QED BY <2>1, ZenonT(60)
<1>2. \A k \in 1 .. n : \A v \in V : G[<<k, v>>] = (v + s[k]) % 256
  OBVIOUS
<1>3. 0 \in V
  OBVIOUS
<1> HIDE DEF G, V
<1>4. PICK f \in [0 .. n -> V] : Follows(f, n, 0, G)
  BY <1>1, <1>3, Recursion
<1>5. ASSUME NEW k \in 0 .. n PROVE f[k] = IF k = 0 THEN 0 ELSE (f[k - 1] + s[k]) % 256
  <2>1. CASE k = 0
    BY <1>4, <2>1 DEF Follows
  <2>2. CASE k \in 1 .. n
    <3>1. k - 1 \in 0 .. n
      BY <2>2
    <3>2. f[k - 1] \in V
      BY <3>1
    <3>3. f[k] = G[<<k, f[k - 1]>>]
      BY <1>4, <2>2 DEF Follows
    <3>4. f[k] = (f[k - 1] + s[k]) % 256
      BY <1>2, <2>2, <3>2, <3>3
    <3> QED BY <2>2, <3>4
  <2> QED BY <2>1, <2>2
<1>6. f = [i \in 0 .. n |-> IF i = 0 THEN 0 ELSE (f[i - 1] + s[i]) % 256]
  BY <1>5
<1>7. sum = [i \in 0 .. n |-> IF i = 0 THEN 0 ELSE (sum[i - 1] + s[i]) % 256]
  BY <1>6, ZenonT(60)
<1>8. Sums(s) = sum
  BY <1>0 DEF Sums
<1> HIDE DEF sum
<1>9. \A k \in 1 .. n : sum[k] = (sum[k - 1] + s[k]) % 256
  BY <1>7
<1>10. sum[0] = 0
  BY <1>7
<1>11. ASSUME NEW k \in 1 .. n, sum[k - 1] \in V PROVE sum[k] = G[<<k, sum[k - 1]>>]
  <2>1. G[<<k, sum[k - 1]>>] = (sum[k - 1] + s[k]) % 256
    BY <1>2, <1>11
  <2> QED BY <1>9, <2>1
<1>12. Obeys(sum, n, V, 0, G)
  BY <1>10, <1>11 DEF Obeys
<1>13. \A k \in 0 .. n : sum[k] \in V
  BY <1>1, <1>3, <1>12, RecursionTyped
<1> QED BY <1>0, <1>8, <1>9, <1>10, <1>13 DEF V

----------------------------------------------------------------------------
(* Characters and texts *)

Char == 0 .. 255
HexChar == 48 .. 57 \cup 97 .. 102

\* What may be in the text of a packet.
Plain == Char \ {Dollar, Hash}

LEMMA Constants ==
  /\ BUFMAX \in Nat \ {0} /\ OUTBUFMAX \in Nat /\ WORD \in Nat \ {0} /\ MEM \in 1 .. WORD - 1
  /\ MaxErrors \in Nat /\ Noise \subseteq Char
  /\ Len(Requests) \in Nat \ {0}
<1>1. Len(Requests) \in Nat \ {0}
  BY PacketConstantsOK, EmptySeq
<1> QED BY <1>1, PacketConstantsOK DEF Char

LEMMA RequestTyped ==
  ASSUME NEW i \in 1 .. Len(Requests)
  PROVE  /\ Requests[i].op \in {"m", "M", "X", "c", "s", "?"}
         /\ Requests[i].addr \in 0 .. 15 /\ Requests[i].len \in 0 .. 15
         /\ Requests[i].data \in Seq(Char)
<1>1. Requests[i] \in [op : {"m", "M", "X", "c", "s", "?"}, addr : 0 .. 15, len : 0 .. 15, data : Seq(0 .. 255)]
  BY PacketConstantsOK, ElementOfSeq
<1> QED BY <1>1 DEF Char

LEMMA HexChars ==
  ASSUME NEW d \in 0 .. 15
  PROVE  HexDigit(d) \in HexChar /\ Hex(HexDigit(d)) = d
  BY DEF HexDigit, HexChar, Hex

LEMMA HexIs ==
  ASSUME NEW c \in Int
  PROVE  Hex(c) \in -1 .. 15
  BY DEF Hex

LEMMA HexCharIsPlain == HexChar \subseteq Plain /\ HexChar \subseteq Char /\ Plain \subseteq Char
  BY DEF HexChar, Plain, Char, Dollar, Hash

LEMMA ByteParts ==
  ASSUME NEW c \in Char
  PROVE  c \div 16 \in 0 .. 15 /\ c % 16 \in 0 .. 15 /\ 16 * (c \div 16) + (c % 16) = c
  BY DEF Char

LEMMA Halves ==
  ASSUME NEW n \in Nat, NEW k \in 1 .. 2 * n
  PROVE  IF k % 2 = 1 THEN (k + 1) \div 2 \in 1 .. n ELSE k \div 2 \in 1 .. n
  OBVIOUS

\* Functions on 1 .. n are sequences.
LEMMA IsSequence ==
  ASSUME NEW S, NEW n \in Nat, NEW f \in [1 .. n -> S]
  PROVE  f \in Seq(S) /\ Len(f) = n
<1>1. f \in Seq(S)
  OBVIOUS
<1>2. Len(f) \in Nat /\ DOMAIN f = 1 .. Len(f)
  BY <1>1, LenProperties
<1>3. Len(f) = n
  BY <1>2
<1> QED BY <1>1, <1>3

\* u is s and then t.
Joins(u, s, t, S) ==
  /\ u \in Seq(S) /\ Len(u) \in Nat /\ Len(s) \in Nat /\ Len(t) \in Nat /\ Len(u) = Len(s) + Len(t)
  /\ \A i \in 1 .. Len(s) : u[i] = s[i]
  /\ \A i \in 1 .. Len(t) : u[Len(s) + i] = t[i]

LEMMA Cat ==
  ASSUME NEW S, NEW s \in Seq(S), NEW t \in Seq(S)
  PROVE  Joins(s \o t, s, t, S)
<1>1. Len(s) \in Nat /\ Len(t) \in Nat
  BY LenProperties
<1>2. /\ s \o t \in Seq(S) /\ Len(s \o t) = Len(s) + Len(t)
      /\ \A i \in 1 .. Len(s) + Len(t) : (s \o t)[i] = IF i <= Len(s) THEN s[i] ELSE t[i - Len(s)]
  BY ConcatProperties
<1>3. \A i \in 1 .. Len(s) : (s \o t)[i] = s[i]
  BY <1>1, <1>2
<1>4. ASSUME NEW i \in 1 .. Len(t) PROVE (s \o t)[Len(s) + i] = t[i]
  <2>1. Len(s) + i \in 1 .. Len(s) + Len(t) /\ ~ (Len(s) + i <= Len(s)) /\ Len(s) + i - Len(s) = i
    BY <1>1
  <2> QED BY <1>2, <2>1
<1> QED BY <1>1, <1>2, <1>3, <1>4 DEF Joins

LEMMA One ==
  ASSUME NEW S, NEW c \in S
  PROVE  <<c>> \in Seq(S) /\ Len(<<c>>) = 1 /\ <<c>>[1] = c
  OBVIOUS

LEMMA mem2hexIs ==
  ASSUME NEW bytes \in Seq(Char)
  PROVE  mem2hex(bytes) \in Seq(HexChar) /\ Len(mem2hex(bytes)) = 2 * Len(bytes)
<1>1. Len(bytes) \in Nat
  BY LenProperties
<1>2. ASSUME NEW k \in 1 .. 2 * Len(bytes)
      PROVE  (IF k % 2 = 1 THEN HexDigit(bytes[(k + 1) \div 2] \div 16) ELSE HexDigit(bytes[k \div 2] % 16)) \in HexChar
  <2>1. CASE k % 2 = 1
    <3>1. (k + 1) \div 2 \in 1 .. Len(bytes)
      BY <1>1, <2>1, Halves
    <3>2. bytes[(k + 1) \div 2] \in Char
      BY <3>1, ElementOfSeq
    <3>3. bytes[(k + 1) \div 2] \div 16 \in 0 .. 15
      BY <3>2, ByteParts
    <3> QED BY <2>1, <3>3, HexChars
  <2>2. CASE k % 2 # 1
    <3>1. k \div 2 \in 1 .. Len(bytes)
      BY <1>1, <2>2, Halves
    <3>2. bytes[k \div 2] \in Char
      BY <3>1, ElementOfSeq
    <3>3. bytes[k \div 2] % 16 \in 0 .. 15
      BY <3>2, ByteParts
    <3> QED BY <2>2, <3>3, HexChars
  <2> QED BY <2>1, <2>2
<1>3. mem2hex(bytes) \in [1 .. 2 * Len(bytes) -> HexChar]
  BY <1>2 DEF mem2hex
<1> QED BY <1>1, <1>3, IsSequence

LEMMA FlattenTyped ==
  ASSUME NEW S, NEW q \in Seq(Seq(S))
  PROVE  FlattenSeq(q) \in Seq(S)
<1>0. PICK n \in Nat : n = Len(q)
  BY LenProperties
<1>1. CASE n = 0
  <2>1. q = <<>>
    BY <1>0, <1>1, EmptySeq
  <2>2. FlattenSeq(q) = q
    BY <1>0, <1>1 DEF FlattenSeq
  <2> QED BY <2>1, <2>2, EmptySeq
<1>2. CASE n # 0
  <2> DEFINE V == Seq(S)
             m == n - 1
             G == [x \in (1 .. m) \X V |-> x[2] \o q[x[1] + 1]]
             flat == CHOOSE f : f = [i \in 1 .. n |-> IF i = 1 THEN q[i] ELSE f[i - 1] \o q[i]]
  <2>1. \A k \in 1 .. n : q[k] \in V
    BY <1>0, ElementOfSeq
  <2>2. G \in [(1 .. m) \X V -> V]
    <3>1. ASSUME NEW x \in (1 .. m) \X V PROVE x[2] \o q[x[1] + 1] \in V
      <4>1. x[2] \in V /\ x[1] + 1 \in 1 .. n
        BY <1>2
      <4>2. q[x[1] + 1] \in V
        BY <2>1, <4>1
      <4> QED BY <4>1, <4>2, ConcatProperties
    <3> QED BY <3>1
  <2>3. \A k \in 1 .. m : \A v \in V : G[<<k, v>>] = v \o q[k + 1]
    OBVIOUS
  <2>4. m \in Nat /\ q[1] \in V
    BY <1>2, <2>1
  <2>5. \A k \in 1 .. n : k # 1 => k - 1 \in 1 .. m /\ k - 1 + 1 = k /\ k - 1 - 1 \in 0 .. m /\ k - 1 \in 0 .. m
    BY <1>2
  <2>50. \A k \in 1 .. m : k + 1 \in 1 .. n /\ k + 1 # 1 /\ k + 1 - 1 = k /\ k - 1 + 1 = k
    BY <1>2
  <2> HIDE DEF G, V, m
  <2>6. PICK f \in [0 .. m -> V] : Follows(f, m, q[1], G)
    BY <2>2, <2>4, Recursion
  <2> DEFINE h == [i \in 1 .. n |-> f[i - 1]]
  <2>7. ASSUME NEW k \in 1 .. n PROVE h[k] = IF k = 1 THEN q[k] ELSE h[k - 1] \o q[k]
    <3>1. CASE k = 1
      BY <2>6, <3>1 DEF Follows
    <3>2. CASE k # 1
      <4>1. k - 1 \in 1 .. m /\ k - 1 + 1 = k /\ k - 1 - 1 \in 0 .. m /\ k - 1 \in 1 .. n
        BY <2>5, <3>2
      <4>2. f[k - 1] = G[<<k - 1, f[k - 1 - 1]>>]
        BY <2>6, <4>1 DEF Follows
      <4>3. f[k - 1 - 1] \in V
        BY <4>1
      <4>4. f[k - 1] = f[k - 1 - 1] \o q[k]
        BY <2>3, <4>1, <4>2, <4>3
      <4>5. h[k] = f[k - 1] /\ h[k - 1] = f[k - 1 - 1]
        BY <4>1
      <4> QED BY <3>2, <4>4, <4>5
    <3> QED BY <3>1, <3>2
  <2>8. h = [i \in 1 .. n |-> h[i]]
    OBVIOUS
  <2> HIDE DEF h
  <2>9. h = [i \in 1 .. n |-> IF i = 1 THEN q[i] ELSE h[i - 1] \o q[i]]
    BY <2>7, <2>8
  <2>10. flat = [i \in 1 .. n |-> IF i = 1 THEN q[i] ELSE flat[i - 1] \o q[i]]
    BY <2>9
  <2>100. \A j \in 1 .. n : flat[j] = IF j = 1 THEN q[j] ELSE flat[j - 1] \o q[j]
    BY <2>10
  <2>11. FlattenSeq(q) = flat[n]
    BY <1>0, <1>2 DEF FlattenSeq
  <2> HIDE DEF flat
  <2> DEFINE g == [i \in 0 .. m |-> flat[i + 1]]
  <2>12. Obeys(g, m, V, q[1], G)
    <3>1. g[0] = q[1]
      BY <1>2, <2>4, <2>10
    <3>2. ASSUME NEW k \in 1 .. m, g[k - 1] \in V PROVE g[k] = G[<<k, g[k - 1]>>]
      <4>1. k + 1 \in 1 .. n /\ k + 1 # 1 /\ k + 1 - 1 = k /\ k - 1 + 1 = k /\ k - 1 \in 0 .. m /\ k \in 0 .. m
        BY <2>50, <2>4
      <4>20. PICK j \in 1 .. n : j = k + 1
        BY <4>1
      <4>21. flat[j] = flat[j - 1] \o q[j]
        BY <2>100, <4>1, <4>20
      <4>22. j - 1 = k
        BY <4>1, <4>20
      <4>2. flat[k + 1] = flat[k] \o q[k + 1]
        BY <4>20, <4>21, <4>22, Zenon
      <4>3. g[k] = flat[k + 1] /\ g[k - 1] = flat[k]
        BY <4>1
      <4>4. G[<<k, g[k - 1]>>] = g[k - 1] \o q[k + 1]
        BY <2>3, <3>2
      <4> QED BY <4>2, <4>3, <4>4
    <3> HIDE DEF g
    <3> QED BY <3>1, <3>2 DEF Obeys
  <2>13. m \in 0 .. m /\ g[m] = flat[n]
    BY <2>4 DEF m
  <2> HIDE DEF g
  <2>14. \A k \in 0 .. m : g[k] \in V
    BY <2>2, <2>4, <2>12, RecursionTyped
  <2>15. flat[n] \in V
    BY <2>13, <2>14
  <2> QED BY <2>11, <2>15 DEF V
<1> QED BY <1>1, <1>2
LEMMA EscapedIsPlain ==
  ASSUME NEW d \in Seq(Char)
  PROVE  EscapedData(d) \in Seq(Plain)
<1> DEFINE piece(i) == IF d[i] \in {Hash, Dollar, Star, Escape} THEN <<Escape, Toggled(d[i])>> ELSE <<d[i]>>
           q == [i \in 1 .. Len(d) |-> piece(i)]
<1>1. ASSUME NEW i \in 1 .. Len(d) PROVE piece(i) \in Seq(Plain)
  <2>1. d[i] \in Char
    BY ElementOfSeq
  <2>2. CASE d[i] \in {Hash, Dollar, Star, Escape}
    <3>1. Toggled(d[i]) \in Plain /\ Escape \in Plain
      BY <2>2 DEF Toggled, Plain, Char, Hash, Dollar, Star, Escape
    <3> QED BY <2>2, <3>1
  <2>3. CASE d[i] \notin {Hash, Dollar, Star, Escape}
    <3>1. d[i] \in Plain
      BY <2>1, <2>3 DEF Plain
    <3> QED BY <2>3, <3>1
  <2> QED BY <2>2, <2>3
<1>2. Len(d) \in Nat
  BY LenProperties
<1>3. q \in [1 .. Len(d) -> Seq(Plain)]
  BY <1>1
<1>4. EscapedData(d) = FlattenSeq(q)
  BY DEF EscapedData
<1> HIDE DEF q
<1>5. q \in Seq(Seq(Plain))
  BY <1>2, <1>3, IsSequence
<1> QED BY <1>4, <1>5, FlattenTyped

TextOf(j) == Text(Requests[j])
PacketOf(j) == Encoded(TextOf(j))

\* What a text begins with tells which request it is; the third character of a long one is
\* a comma.
LEMMA TextIs ==
  ASSUME NEW j \in 1 .. Len(Requests)
  PROVE  /\ TextOf(j) \in Seq(Plain) /\ Len(TextOf(j)) \in 1 .. BUFMAX - 1
         /\ Len(TextOf(j)) >= 3 => TextOf(j)[3] = Comma
         /\ TextOf(j)[1] = CASE Requests[j].op = "m" -> 109
                             [] Requests[j].op = "M" -> 77
                             [] Requests[j].op = "X" -> 88
                             [] Requests[j].op = "c" -> 99
                             [] Requests[j].op = "s" -> 115
                             [] Requests[j].op = "?" -> 63
<1> DEFINE r == Requests[j]
           where == <<HexDigit(r.addr), Comma, HexDigit(r.len)>>
           first == CASE r.op = "m" -> 109 [] r.op = "M" -> 77 [] r.op = "X" -> 88
                      [] r.op = "c" -> 99 [] r.op = "s" -> 115 [] r.op = "?" -> 63
<1>1. /\ r.op \in {"m", "M", "X", "c", "s", "?"}
      /\ r.addr \in 0 .. 15 /\ r.len \in 0 .. 15 /\ r.data \in Seq(Char)
  BY RequestTyped
<1>20. Comma \in Plain /\ Colon \in Plain
  BY DEF Comma, Colon, Plain, Char, Dollar, Hash
<1>21. HexDigit(r.addr) \in HexChar /\ HexDigit(r.len) \in HexChar
  BY <1>1, HexChars
<1>2. HexDigit(r.addr) \in Plain /\ HexDigit(r.len) \in Plain /\ Comma \in Plain /\ Colon \in Plain
  BY <1>20, <1>21, HexCharIsPlain
<1>3. where \in Seq(Plain) /\ Len(where) = 3 /\ where[2] = Comma
  BY <1>2
<1>4. TextOf(j) = Text(r)
  BY DEF TextOf
<1> HIDE DEF r, where, first
<1>5. EscapedData(r.data) \in Seq(Plain) /\ mem2hex(r.data) \in Seq(Plain)
  <2>1. mem2hex(r.data) \in Seq(HexChar)
    BY <1>1, mem2hexIs
  <2>2. mem2hex(r.data) \in Seq(Plain)
    BY <2>1, HexCharIsPlain, SeqMonotonic
  <2> QED BY <1>1, <2>2, EscapedIsPlain
<1>7. ASSUME NEW c \in Plain
      PROVE  /\ <<c>> \in Seq(Plain) /\ Len(<<c>>) = 1 /\ <<c>>[1] = c
             /\ <<c>> \o where \in Seq(Plain) /\ Len(<<c>> \o where) = 4
             /\ (<<c>> \o where)[1] = c /\ (<<c>> \o where)[3] = Comma
  <2>1. <<c>> \in Seq(Plain) /\ Len(<<c>>) = 1 /\ <<c>>[1] = c
    BY One
  <2>2. Joins(<<c>> \o where, <<c>>, where, Plain)
    BY <1>3, <2>1, Cat
  <2>3. (<<c>> \o where)[1 + 2] = Comma /\ (<<c>> \o where)[1] = <<c>>[1]
    BY <1>3, <2>1, <2>2 DEF Joins
  <2>4. Len(<<c>> \o where) = 1 + 3
    BY <1>3, <2>1, <2>2 DEF Joins
  <2> QED BY <2>1, <2>2, <2>3, <2>4 DEF Joins
<1>6. ASSUME NEW c \in Plain, NEW d \in Seq(Plain), TextOf(j) = <<c>> \o where \o <<Colon>> \o d
      PROVE  TextOf(j) \in Seq(Plain) /\ Len(TextOf(j)) >= 1 /\ TextOf(j)[1] = c /\ TextOf(j)[3] = Comma
  <2> DEFINE a == <<c>> \o where
             b == a \o <<Colon>>
  <2>1. /\ <<c>> \in Seq(Plain) /\ Len(<<c>>) = 1 /\ <<c>>[1] = c
        /\ <<Colon>> \in Seq(Plain) /\ Len(<<Colon>>) = 1
    BY <1>2, One
  <2>2. a \in Seq(Plain) /\ Len(a) = 4 /\ a[1] = c /\ a[3] = Comma
    BY <1>7
  <2> HIDE DEF a
  <2>3. b \in Seq(Plain) /\ Len(b) = 5 /\ b[1] = c /\ b[3] = Comma
    <3>1. Joins(b, a, <<Colon>>, Plain)
      BY <2>1, <2>2, Cat
    <3> QED BY <2>1, <2>2, <3>1 DEF Joins
  <2>4. TextOf(j) = b \o d
    BY <1>6 DEF a
  <2> HIDE DEF b
  <2>5. Joins(b \o d, b, d, Plain)
    BY <2>3, Cat
  <2>6. (b \o d)[1] = c /\ (b \o d)[3] = Comma /\ Len(b \o d) >= 1
    BY <2>3, <2>5 DEF Joins
  <2> QED BY <2>4, <2>5, <2>6 DEF Joins
<1>8. {109, 77, 88, 99, 115, 63} \subseteq Plain
  BY DEF Plain, Char, Dollar, Hash
<1>9. /\ TextOf(j) \in Seq(Plain) /\ Len(TextOf(j)) >= 1
      /\ Len(TextOf(j)) >= 3 => TextOf(j)[3] = Comma
      /\ TextOf(j)[1] = first
  <2>1. CASE r.op = "m"
    <3>1. TextOf(j) = <<109>> \o where /\ first = 109
      BY <1>4, <2>1 DEF Text, where, first
    <3> QED BY <1>7, <1>8, <3>1
  <2>2. CASE r.op = "M"
    <3>1. TextOf(j) = <<77>> \o where \o <<Colon>> \o mem2hex(r.data) /\ first = 77
      BY <1>4, <2>2 DEF Text, where, first
    <3>2. TextOf(j) \in Seq(Plain) /\ Len(TextOf(j)) >= 1 /\ TextOf(j)[1] = 77 /\ TextOf(j)[3] = Comma
      BY <1>5, <1>6, <1>8, <3>1
    <3> QED BY <3>1, <3>2
  <2>3. CASE r.op = "X"
    <3>1. TextOf(j) = <<88>> \o where \o <<Colon>> \o EscapedData(r.data) /\ first = 88
      BY <1>4, <2>3 DEF Text, where, first
    <3>2. TextOf(j) \in Seq(Plain) /\ Len(TextOf(j)) >= 1 /\ TextOf(j)[1] = 88 /\ TextOf(j)[3] = Comma
      BY <1>5, <1>6, <1>8, <3>1
    <3> QED BY <3>1, <3>2
  <2>4. CASE r.op = "c"
    <3>1. TextOf(j) = <<99>> /\ first = 99
      BY <1>4, <2>4 DEF Text, first
    <3> QED BY <1>7, <1>8, <3>1
  <2>5. CASE r.op = "s"
    <3>1. TextOf(j) = <<115>> /\ first = 115
      BY <1>4, <2>5 DEF Text, first
    <3> QED BY <1>7, <1>8, <3>1
  <2>6. CASE r.op = "?"
    <3>1. TextOf(j) = <<63>> /\ first = 63
      BY <1>4, <2>6 DEF Text, first
    <3> QED BY <1>7, <1>8, <3>1
  <2> QED BY <1>1, <2>1, <2>2, <2>3, <2>4, <2>5, <2>6
<1>10. Len(TextOf(j)) \in Nat /\ Len(TextOf(j)) < BUFMAX
  <2>1. Len(TextOf(j)) \in Nat
    BY <1>9, LenProperties
  <2> QED BY <2>1, TextsFit DEF TextOf
<1>11. Len(TextOf(j)) \in 1 .. BUFMAX - 1
  BY <1>9, <1>10, Constants
<1> QED BY <1>9, <1>11 DEF first, r
LEMMA PlainSums ==
  ASSUME NEW t \in Seq(Plain)
  PROVE  /\ Len(t) \in Nat /\ t \in Seq(Char) /\ \A k \in 1 .. Len(t) : t[k] \in Plain /\ t[k] \in Nat
         /\ Sums(t)[0] = 0 /\ \A k \in 1 .. Len(t) : Sums(t)[k] = (Sums(t)[k - 1] + t[k]) % 256
         /\ \A k \in 0 .. Len(t) : Sums(t)[k] \in Char
         /\ Sum8(t) = Sums(t)[Len(t)] /\ Sum8(t) \in Char
<1>1. Len(t) \in Nat /\ \A k \in 1 .. Len(t) : t[k] \in Plain
  BY LenProperties, ElementOfSeq
<1>2. Plain \subseteq Char /\ Char = 0 .. 255 /\ Char \subseteq Nat
  BY DEF Plain, Char
<1>3. t \in Seq(Char)
  <2>1. Plain \subseteq Char
    BY <1>2
  <2> QED BY <2>1, SeqMonotonic
<1>4. \A k \in 1 .. Len(t) : t[k] \in Nat
  BY <1>1, <1>2
<1>5. /\ Sums(t)[0] = 0
      /\ \A k \in 1 .. Len(t) : Sums(t)[k] = (Sums(t)[k - 1] + t[k]) % 256
      /\ \A k \in 0 .. Len(t) : Sums(t)[k] \in 0 .. 255
  BY <1>1, <1>4, SumsAre
<1>6. Len(t) \in 0 .. Len(t)
  BY <1>1
<1> QED BY <1>1, <1>2, <1>3, <1>4, <1>5, <1>6 DEF Sum8

\* What is on the line for a text, and what the two digits at its end say.
IsPacket(e, t) ==
  /\ e \in Seq(Char) /\ Len(e) = Len(t) + 4 /\ e[1] = Dollar
  /\ \A k \in 1 .. Len(t) : e[k + 1] = t[k]
  /\ e[Len(t) + 2] = Hash /\ e[Len(t) + 3] \in HexChar /\ e[Len(t) + 4] \in HexChar
  /\ 16 * Hex(e[Len(t) + 3]) + Hex(e[Len(t) + 4]) = Sum8(t)

LEMMA EncodedIs ==
  ASSUME NEW t \in Seq(Plain)
  PROVE  IsPacket(Encoded(t), t)
<1> DEFINE n == Len(t)
           h1 == HexDigit(Sum8(t) \div 16)
           h2 == HexDigit(Sum8(t) % 16)
           a == <<Dollar>> \o t
           z == <<Hash, h1, h2>>
<1>1. n \in Nat /\ t \in Seq(Char) /\ Sum8(t) \in Char
  BY PlainSums
<1>2. h1 \in HexChar /\ h2 \in HexChar /\ 16 * Hex(h1) + Hex(h2) = Sum8(t)
  <2>1. Sum8(t) \div 16 \in 0 .. 15 /\ Sum8(t) % 16 \in 0 .. 15 /\ 16 * (Sum8(t) \div 16) + (Sum8(t) % 16) = Sum8(t)
    BY <1>1, ByteParts
  <2>2. Hex(h1) = Sum8(t) \div 16 /\ Hex(h2) = Sum8(t) % 16 /\ h1 \in HexChar /\ h2 \in HexChar
    BY <2>1, HexChars
  <2> QED BY <2>1, <2>2
<1>3. Encoded(t) = a \o z
  BY DEF Encoded
<1> HIDE DEF h1, h2
<1>4. h1 \in Char /\ h2 \in Char /\ Hash \in Char /\ Dollar \in Char
  BY <1>2, HexCharIsPlain DEF Hash, Dollar, Char
<1>5. z \in Seq(Char) /\ Len(z) = 3 /\ z[1] = Hash /\ z[2] = h1 /\ z[3] = h2
  BY <1>4
<1> HIDE DEF z
<1>6. <<Dollar>> \in Seq(Char) /\ Len(<<Dollar>>) = 1 /\ <<Dollar>>[1] = Dollar
  BY <1>4, One
<1>7. Joins(a, <<Dollar>>, t, Char)
  BY <1>1, <1>6, Cat
<1>8. a \in Seq(Char) /\ Len(a) = n + 1 /\ a[1] = Dollar
  BY <1>6, <1>7 DEF Joins
<1>9. ASSUME NEW k \in 1 .. n PROVE a[k + 1] = t[k] /\ k + 1 \in 1 .. n + 1
  <2>1. a[1 + k] = t[k]
    BY <1>6, <1>7 DEF Joins
  <2>2. 1 + k = k + 1 /\ k + 1 \in 1 .. n + 1
    OBVIOUS
  <2> QED BY <2>1, <2>2
<1> HIDE DEF a
<1>10. Joins(a \o z, a, z, Char)
  BY <1>5, <1>8, Cat
<1>11. \A k \in 1 .. n + 1 : (a \o z)[k] = a[k]
  BY <1>8, <1>10 DEF Joins
<1>12. /\ (a \o z)[n + 1 + 1] = Hash /\ (a \o z)[n + 1 + 2] = h1 /\ (a \o z)[n + 1 + 3] = h2
       /\ a \o z \in Seq(Char) /\ Len(a \o z) = n + 1 + 3
  BY <1>5, <1>8, <1>10 DEF Joins
<1>13. n + 1 + 1 = n + 2 /\ n + 1 + 2 = n + 3 /\ n + 1 + 3 = n + 4 /\ 1 \in 1 .. n + 1
  BY <1>1
<1>14. (a \o z)[1] = Dollar /\ \A k \in 1 .. n : (a \o z)[k + 1] = t[k]
  BY <1>8, <1>9, <1>11, <1>13
<1>15. IsPacket(a \o z, t)
  BY <1>2, <1>12, <1>13, <1>14 DEF IsPacket
<1> QED BY <1>3, <1>15

LEMMA PacketIs ==
  ASSUME NEW j \in 1 .. Len(Requests)
  PROVE  IsPacket(PacketOf(j), TextOf(j)) /\ Len(TextOf(j)) \in Nat
<1>1. TextOf(j) \in Seq(Plain)
  BY TextIs
<1> QED BY <1>1, EncodedIs, LenProperties DEF PacketOf

----------------------------------------------------------------------------
(* Runs of a character *)

LEMMA RunLenIs ==
  ASSUME NEW s \in Seq(Char), NEW i \in 1 .. Len(s)
  PROVE  /\ RunLen(s, i) \in 1 .. 99 /\ i + RunLen(s, i) \in i + 1 .. Len(s) + 1
         /\ \A k \in 1 .. RunLen(s, i) - 1 : s[i + k] = s[i]
<1>1. Len(s) \in Nat
  BY LenProperties
<1> DEFINE Ends == {n \in 1 .. 99 : n = 99 \/ i + n > Len(s) \/ s[i + n] # s[i]}
<1>2. PICK x \in Ends : \A y \in Ends : x <= y
  <2>0. 99 \in 1 .. 99
    OBVIOUS
  <2>1. 99 \in Ends /\ Ends \subseteq Nat
    <3>1. 99 \in Ends
      BY <2>0, Zenon
    <3>2. Ends \subseteq 1 .. 99
      BY Zenon
    <3> HIDE DEF Ends
    <3>3. Ends \subseteq Nat
      BY <3>2
    <3> QED BY <3>1, <3>3
  <2> HIDE DEF Ends
  <2> QED BY <2>1, Least
<1>3. ASSUME NEW k \in 1 .. x - 1 PROVE i + k <= Len(s) /\ s[i + k] = s[i]
  <2>1. k \notin Ends /\ k \in 1 .. 99
    BY <1>2
  <2> QED BY <1>1, <2>1
<1>4. \E n \in 1 .. 99 :
        /\ \A k \in 1 .. n - 1 : i + k <= Len(s) /\ s[i + k] = s[i]
        /\ n = 99 \/ i + n > Len(s) \/ s[i + n] # s[i]
  BY <1>2, <1>3
<1> HIDE DEF Ends
<1> DEFINE n == RunLen(s, i)
<1>5. /\ n \in 1 .. 99
      /\ \A k \in 1 .. n - 1 : i + k <= Len(s) /\ s[i + k] = s[i]
  BY <1>4 DEF RunLen
<1> HIDE DEF n
<1>6. i + n <= Len(s) + 1
  <2>1. CASE n = 1
    BY <1>1, <2>1
  <2>2. CASE n # 1
    <3>1. n - 1 \in 1 .. n - 1
      BY <1>5, <2>2
    <3>2. i + (n - 1) <= Len(s)
      BY <1>5, <3>1
    <3> QED BY <1>1, <1>5, <3>2
  <2> QED BY <2>1, <2>2
<1>7. i + n \in i + 1 .. Len(s) + 1
  BY <1>1, <1>5, <1>6
<1>8. \A k \in 1 .. n - 1 : s[i + k] = s[i]
  BY <1>5
<1> QED BY <1>5, <1>7, <1>8 DEF n
\* Rle from character i on, and Unrle: the functions the definitions name.
EncStep(s) == [i \in 1 .. Len(s) |-> IF RunLen(s, i) > 3 THEN i + RunLen(s, i) ELSE i + 1]
EncHead(s, i) == IF RunLen(s, i) > 3 THEN <<s[i], Star, RunLen(s, i) + 28>> ELSE <<s[i]>>
Enc(s) == CHOOSE f : f = [i \in 1 .. Len(s) + 1 |->
            IF i > Len(s) THEN <<>>
            ELSE IF RunLen(s, i) > 3
              THEN <<s[i], Star, RunLen(s, i) + 28>> \o f[i + RunLen(s, i)]
              ELSE <<s[i]>> \o f[i + 1]]

LEMMA EncHeadIs ==
  ASSUME NEW s \in Seq(Char), NEW i \in 1 .. Len(s)
  PROVE  /\ EncHead(s, i) \in Seq(Char) /\ EncHead(s, i) # <<>> /\ EncHead(s, i)[1] = s[i]
         /\ Len(EncHead(s, i)) >= 1 /\ EncStep(s)[i] \in i + 1 .. Len(s) + 1
<1>1. RunLen(s, i) \in 1 .. 99 /\ i + RunLen(s, i) \in i + 1 .. Len(s) + 1
  BY RunLenIs
<1>2. s[i] \in Char /\ Star \in Char /\ RunLen(s, i) + 28 \in Char /\ Len(s) \in Nat
  <2>1. s[i] \in Char /\ Len(s) \in Nat
    BY ElementOfSeq, LenProperties
  <2>2. \A r \in 1 .. 99 : r + 28 \in Char
    BY DEF Char
  <2>3. Star \in Char
    BY DEF Char, Star
  <2> QED BY <1>1, <2>1, <2>2, <2>3
<1>3. EncStep(s)[i] \in i + 1 .. Len(s) + 1
  BY <1>1, <1>2 DEF EncStep
<1>4. /\ EncHead(s, i) \in Seq(Char) /\ EncHead(s, i) # <<>> /\ EncHead(s, i)[1] = s[i]
      /\ Len(EncHead(s, i)) >= 1
  <2>1. CASE RunLen(s, i) > 3
    <3>1. EncHead(s, i) = <<s[i], Star, RunLen(s, i) + 28>>
      BY <2>1 DEF EncHead
    <3> QED BY <1>2, <3>1
  <2>2. CASE ~ (RunLen(s, i) > 3)
    <3>1. EncHead(s, i) = <<s[i]>>
      BY <2>2 DEF EncHead
    <3> QED BY <1>2, <3>1
  <2> QED BY <2>1, <2>2
<1> QED BY <1>3, <1>4

LEMMA EncIs ==
  ASSUME NEW s \in Seq(Char)
  PROVE  /\ Rle(s) = Enc(s)[1] /\ Len(s) \in Nat
         /\ Enc(s)[Len(s) + 1] = <<>>
         /\ \A i \in 1 .. Len(s) : Enc(s)[i] = EncHead(s, i) \o Enc(s)[EncStep(s)[i]]
         /\ \A i \in 1 .. Len(s) + 1 : Enc(s)[i] \in Seq(Char)
<1>0. PICK n \in Nat : n = Len(s)
  BY LenProperties
<1> DEFINE V == Seq(Char)
           step == EncStep(s)
           G == [x \in (1 .. n) \X V |-> EncHead(s, x[1]) \o x[2]]
           Body(f, i) == IF i > n THEN <<>>
                         ELSE IF RunLen(s, i) > 3
                           THEN <<s[i], Star, RunLen(s, i) + 28>> \o f[i + RunLen(s, i)]
                           ELSE <<s[i]>> \o f[i + 1]
<1>1. \A i \in 1 .. n : step[i] \in i + 1 .. n + 1 /\ EncHead(s, i) \in V
  BY <1>0, EncHeadIs
<1>2. \A f : \A i \in 1 .. n : Body(f, i) = EncHead(s, i) \o f[step[i]]
  <2> TAKE f
  <2> TAKE i \in 1 .. n
  <2>1. ~ (i > n)
    OBVIOUS
  <2>2. CASE RunLen(s, i) > 3
    BY <1>0, <2>1, <2>2 DEF EncHead, EncStep
  <2>3. CASE ~ (RunLen(s, i) > 3)
    BY <1>0, <2>1, <2>3 DEF EncHead, EncStep
  <2> QED BY <2>2, <2>3
<1>3. \A f : Body(f, n + 1) = <<>>
  OBVIOUS
<1>4. \A i \in 1 .. n : \A v \in V : G[<<i, v>>] = EncHead(s, i) \o v
  OBVIOUS
<1>5. G \in [(1 .. n) \X V -> V]
  <2>1. ASSUME NEW x \in (1 .. n) \X V PROVE EncHead(s, x[1]) \o x[2] \in V
    <3>1. x[1] \in 1 .. n /\ x[2] \in V
      OBVIOUS
    <3>2. EncHead(s, x[1]) \in V
      BY <1>1, <3>1
    <3> QED BY <3>1, <3>2, ConcatProperties
  <2> QED BY <2>1
<1>6. <<>> \in V
  BY EmptySeq
<1>7. Enc(s) = CHOOSE f : f = [i \in 1 .. n + 1 |-> Body(f, i)]
  BY <1>0 DEF Enc
<1>8. \A i \in 1 .. n : step[i] \in i + 1 .. n + 1
  BY <1>1
<1> HIDE DEF G, V, step, Body
<1>9. PICK f \in [1 .. n + 1 -> V] : Precedes(f, 1, n, <<>>, step, G)
  BY <1>5, <1>6, <1>8, BackwardRecursion
<1>10. ASSUME NEW i \in 1 .. n + 1 PROVE f[i] = Body(f, i)
  <2>1. CASE i = n + 1
    BY <1>3, <1>9, <2>1 DEF Precedes
  <2>2. CASE i \in 1 .. n
    <3>1. f[i] = G[<<i, f[step[i]]>>]
      BY <1>9, <2>2 DEF Precedes
    <3>2. step[i] \in 1 .. n + 1
      BY <1>8, <2>2
    <3>3. f[step[i]] \in V
      BY <3>2
    <3>4. G[<<i, f[step[i]]>>] = EncHead(s, i) \o f[step[i]]
      BY <1>4, <2>2, <3>3
    <3>5. Body(f, i) = EncHead(s, i) \o f[step[i]]
      BY <1>2, <2>2
    <3> QED BY <3>1, <3>4, <3>5
  <2> QED BY <2>1, <2>2
<1>11. f = [i \in 1 .. n + 1 |-> Body(f, i)]
  BY <1>10
<1> DEFINE g == Enc(s)
<1>12. g = [i \in 1 .. n + 1 |-> Body(g, i)]
  BY <1>7, <1>11
<1> HIDE DEF g
<1>13. g[n + 1] = <<>>
  BY <1>3, <1>12
<1>14. ASSUME NEW i \in 1 .. n PROVE g[i] = EncHead(s, i) \o g[step[i]]
  <2>1. i \in 1 .. n + 1
    OBVIOUS
  <2>2. g[i] = Body(g, i)
    BY <1>12, <2>1, Zenon
  <2> QED BY <1>2, <2>2
<1>15. Heeds(g, n, V, <<>>, step, G)
  BY <1>4, <1>13, <1>14 DEF Heeds
<1>16. \A i \in 1 .. n + 1 : g[i] \in V
  BY <1>5, <1>6, <1>8, <1>15, BackwardTyped
<1>17. Rle(s) = g[1]
  BY DEF Rle, Enc, g
<1> QED BY <1>0, <1>13, <1>14, <1>16, <1>17 DEF g, V, step

\* What putpacket sends for s begins as s does.
LEMMA RleIs ==
  ASSUME NEW s \in Seq(Char)
  PROVE  /\ Rle(s) \in Seq(Char)
         /\ s = <<>> => Rle(s) = <<>>
         /\ s # <<>> => Rle(s) # <<>> /\ Head(Rle(s)) = s[1]
<1>1. /\ Rle(s) = Enc(s)[1] /\ Len(s) \in Nat
      /\ Enc(s)[Len(s) + 1] = <<>>
      /\ \A i \in 1 .. Len(s) : Enc(s)[i] = EncHead(s, i) \o Enc(s)[EncStep(s)[i]]
      /\ \A i \in 1 .. Len(s) + 1 : Enc(s)[i] \in Seq(Char)
  BY EncIs
<1>2. Rle(s) \in Seq(Char)
  BY <1>1
<1>3. CASE s = <<>>
  <2>1. Len(s) + 1 = 1
    BY <1>3
  <2> QED BY <1>1, <1>2, <1>3, <2>1
<1>4. CASE s # <<>>
  <2>1. 1 \in 1 .. Len(s)
    BY <1>1, <1>4, EmptySeq
  <2> DEFINE h == EncHead(s, 1)
             t == Enc(s)[EncStep(s)[1]]
  <2>2. /\ h \in Seq(Char) /\ h[1] = s[1] /\ Len(h) >= 1
        /\ EncStep(s)[1] \in 1 + 1 .. Len(s) + 1
    BY <2>1, EncHeadIs
  <2>3. t \in Seq(Char)
    BY <1>1, <2>2
  <2>4. Rle(s) = h \o t
    BY <1>1, <2>1
  <2> HIDE DEF h, t
  <2>5. Joins(h \o t, h, t, Char)
    BY <2>2, <2>3, Cat
  <2>6. (h \o t)[1] = s[1] /\ Len(h \o t) >= 1
    BY <2>2, <2>5 DEF Joins
  <2>7. h \o t # <<>>
    BY <2>6, EmptySeq
  <2>8. Head(h \o t) = s[1]
    BY <2>6, <2>7
  <2> QED BY <1>2, <1>4, <2>4, <2>7, <2>8
<1> QED BY <1>3, <1>4
----------------------------------------------------------------------------
(* The buffer, and the answers to what is in it *)

\* A 0 ends it at the latest.
Buffer == {b \in [0 .. BUFMAX -> Char] : b[BUFMAX] = 0}

LEMMA NumberEndIs ==
  ASSUME NEW b \in Buffer, NEW p \in 0 .. BUFMAX
  PROVE  /\ NumberEnd(b, p) \in p .. BUFMAX
         /\ Hex(b[NumberEnd(b, p)]) = -1
         /\ \A k \in p .. NumberEnd(b, p) - 1 : Hex(b[k]) # -1
<1> DEFINE Ends == {q \in p .. BUFMAX : Hex(b[q]) = -1}
<1>1. BUFMAX \in Nat /\ b[BUFMAX] = 0 /\ Hex(0) = -1
  BY Constants DEF Buffer, Hex
<1>2. BUFMAX \in Ends /\ Ends \subseteq Nat
  BY <1>1
<1>3. PICK x \in Ends : \A y \in Ends : x <= y
  <2> HIDE DEF Ends
  <2> QED BY <1>2, Least
<1>4. ASSUME NEW k \in p .. x - 1 PROVE Hex(b[k]) # -1
  <2>1. k \in p .. BUFMAX /\ ~ (x <= k)
    BY <1>1, <1>3
  <2> QED BY <1>3, <2>1
<1>5. \E q \in p .. BUFMAX : Hex(b[q]) = -1 /\ \A k \in p .. q - 1 : Hex(b[k]) # -1
  BY <1>3, <1>4
<1> QED BY <1>5 DEF NumberEnd

LEMMA hexToIntIs ==
  ASSUME NEW b \in Buffer, NEW p \in 0 .. BUFMAX
  PROVE  hexToInt(b, p) \in 0 .. WORD - 1
<1>1. NumberEnd(b, p) \in p .. BUFMAX /\ p \in Nat /\ BUFMAX \in Nat
  BY NumberEndIs, Constants
<1>2. PICK m \in Nat : NumberEnd(b, p) = p + m
  BY <1>1
<1>3. \A k \in 0 .. m : p + k \in 0 .. BUFMAX
  BY <1>1, <1>2
<1> DEFINE V == 0 .. WORD - 1
           end == p + m
           G == [x \in (1 .. m) \X V |-> (16 * x[2] + Hex(b[p + x[1] - 1])) % WORD]
           v == CHOOSE f : f = [q \in p .. end |-> IF q = p THEN 0 ELSE (16 * f[q - 1] + Hex(b[q - 1])) % WORD]
<1>4. \A q \in 0 .. BUFMAX : b[q] \in Int
  <2>1. b \in [0 .. BUFMAX -> Char]
    BY DEF Buffer
  <2>2. Char \subseteq Int
    BY DEF Char
  <2> QED BY <2>1, <2>2
<1>5. \A y \in Int : y % WORD \in V
  BY Constants
<1>6. G \in [(1 .. m) \X V -> V]
  <2>1. ASSUME NEW x \in (1 .. m) \X V PROVE (16 * x[2] + Hex(b[p + x[1] - 1])) % WORD \in V
    <3>1. p + x[1] - 1 \in 0 .. BUFMAX /\ x[2] \in Int
      <4>1. x[1] \in 1 .. m /\ x[2] \in V /\ WORD \in Nat
        BY Constants
      <4>2. x[1] - 1 \in 0 .. m
        BY <4>1
      <4>3. p + (x[1] - 1) \in 0 .. BUFMAX
        BY <1>3, <4>2
      <4> QED BY <4>1, <4>2, <4>3
    <3>2. b[p + x[1] - 1] \in Int
      BY <1>4, <3>1
    <3>3. Hex(b[p + x[1] - 1]) \in Int
      BY <3>2, HexIs
    <3>4. 16 * x[2] + Hex(b[p + x[1] - 1]) \in Int
      BY <3>1, <3>3
    <3> QED BY <1>5, <3>4
  <2> QED BY <2>1
<1>7. \A k \in 1 .. m : \A u \in V : G[<<k, u>>] = (16 * u + Hex(b[p + k - 1])) % WORD
  OBVIOUS
<1>8. 0 \in V
  BY Constants
<1>9. \A q \in p .. end : /\ q - p \in 0 .. m /\ p + (q - p) = q
                          /\ q # p => q - 1 \in p .. end /\ q - p \in 1 .. m /\ q - 1 - p = q - p - 1
                                      /\ p + (q - p) - 1 = q - 1 /\ q - p - 1 \in 0 .. m
  BY <1>1
<1>90. \A k \in 1 .. m : p + k \in p .. end /\ p + k # p /\ p + k - 1 = p + (k - 1) /\ k - 1 \in 0 .. m /\ k \in 0 .. m
  BY <1>1
<1> HIDE DEF G, V
<1>10. PICK f \in [0 .. m -> V] : Follows(f, m, 0, G)
  BY <1>6, <1>8, Recursion
<1> DEFINE h == [q \in p .. end |-> f[q - p]]
<1>11. ASSUME NEW q \in p .. end PROVE h[q] = IF q = p THEN 0 ELSE (16 * h[q - 1] + Hex(b[q - 1])) % WORD
  <2>1. CASE q = p
    <3>1. q - p = 0
      BY <1>1, <2>1
    <3> QED BY <1>10, <2>1, <3>1 DEF Follows
  <2>2. CASE q # p
    <3>1. q - 1 \in p .. end /\ q - p \in 1 .. m /\ q - 1 - p = q - p - 1 /\ p + (q - p) - 1 = q - 1 /\ q - p - 1 \in 0 .. m
      BY <1>9, <2>2
    <3>2. f[q - p] = G[<<q - p, f[q - p - 1]>>]
      BY <1>10, <3>1 DEF Follows
    <3>3. f[q - p - 1] \in V
      BY <3>1
    <3>4. f[q - p] = (16 * f[q - p - 1] + Hex(b[p + (q - p) - 1])) % WORD
      BY <1>7, <3>1, <3>2, <3>3
    <3>5. h[q] = f[q - p] /\ h[q - 1] = f[q - p - 1]
      BY <3>1
    <3> QED BY <2>2, <3>1, <3>4, <3>5
  <2> QED BY <2>1, <2>2
<1>12. h = [q \in p .. end |-> h[q]]
  OBVIOUS
<1> HIDE DEF h
<1>13. h = [q \in p .. end |-> IF q = p THEN 0 ELSE (16 * h[q - 1] + Hex(b[q - 1])) % WORD]
  BY <1>11, <1>12
<1>14. v = [q \in p .. end |-> IF q = p THEN 0 ELSE (16 * v[q - 1] + Hex(b[q - 1])) % WORD]
  BY <1>13
<1>15. hexToInt(b, p) = v[end]
  BY <1>2 DEF hexToInt
<1> HIDE DEF v
<1>16. \A q \in p .. end : v[q] = IF q = p THEN 0 ELSE (16 * v[q - 1] + Hex(b[q - 1])) % WORD
  BY <1>14
<1> DEFINE g == [k \in 0 .. m |-> v[p + k]]
<1>17. g[0] = 0
  <2>1. p \in p .. end /\ p + 0 = p
    BY <1>1
  <2> QED BY <1>16, <2>1
<1>18. ASSUME NEW k \in 1 .. m, g[k - 1] \in V PROVE g[k] = G[<<k, g[k - 1]>>]
  <2>1. p + k \in p .. end /\ p + k # p /\ p + k - 1 = p + (k - 1) /\ k - 1 \in 0 .. m /\ k \in 0 .. m
    BY <1>90
  <2>2. PICK q \in p .. end : q = p + k
    BY <2>1
  <2>3. v[q] = (16 * v[q - 1] + Hex(b[q - 1])) % WORD
    BY <1>16, <2>1, <2>2
  <2>4. g[k] = v[q] /\ g[k - 1] = v[q - 1] /\ q - 1 = p + k - 1
    BY <2>1, <2>2
  <2>5. G[<<k, g[k - 1]>>] = (16 * g[k - 1] + Hex(b[p + k - 1])) % WORD
    BY <1>7, <1>18
  <2> QED BY <2>3, <2>4, <2>5
<1>19. m \in 0 .. m /\ g[m] = v[end]
  OBVIOUS
<1> HIDE DEF g
<1>20. Obeys(g, m, V, 0, G)
  BY <1>17, <1>18 DEF Obeys
<1>21. \A k \in 0 .. m : g[k] \in V
  BY <1>6, <1>8, <1>20, RecursionTyped
<1> QED BY <1>15, <1>19, <1>21 DEF V

LEMMA strlenIs ==
  ASSUME NEW b \in Buffer
  PROVE  strlen(b) \in 0 .. BUFMAX /\ b[strlen(b)] = 0 /\ \A k \in 0 .. strlen(b) - 1 : b[k] # 0
<1> DEFINE Ends == {n \in 0 .. BUFMAX : b[n] = 0}
<1>1. BUFMAX \in Nat /\ b[BUFMAX] = 0
  BY Constants DEF Buffer
<1>2. BUFMAX \in Ends /\ Ends \subseteq Nat
  BY <1>1
<1>3. PICK x \in Ends : \A y \in Ends : x <= y
  <2> HIDE DEF Ends
  <2> QED BY <1>2, Least
<1>4. ASSUME NEW k \in 0 .. x - 1 PROVE b[k] # 0
  <2>1. k \in 0 .. BUFMAX /\ ~ (x <= k)
    BY <1>1, <1>3
  <2> QED BY <1>3, <2>1
<1>5. \E n \in 0 .. BUFMAX : b[n] = 0 /\ \A k \in 0 .. n - 1 : b[k] # 0
  BY <1>3, <1>4
<1> QED BY <1>5 DEF strlen

LEMMA UnnumberedIs ==
  ASSUME NEW b \in Buffer
  PROVE  Unnumbered(b) \in Buffer
<1>1. strlen(b) \in 0 .. BUFMAX /\ BUFMAX \in Nat \ {0}
  BY strlenIs, Constants
<1>2. CASE Numbered(b)
  <2> DEFINE c == [i \in 0 .. BUFMAX |-> IF i + 3 <= strlen(b) THEN b[i + 3] ELSE b[i]]
  <2>1. ASSUME NEW i \in 0 .. BUFMAX PROVE (IF i + 3 <= strlen(b) THEN b[i + 3] ELSE b[i]) \in Char
    BY <1>1 DEF Buffer
  <2>2. c \in [0 .. BUFMAX -> Char]
    BY <2>1
  <2>3. c[BUFMAX] = 0
    BY <1>1 DEF Buffer
  <2>4. Unnumbered(b) = c
    BY <1>2 DEF Unnumbered
  <2> HIDE DEF c
  <2> QED BY <2>2, <2>3, <2>4 DEF Buffer
<1>3. CASE ~ Numbered(b)
  BY <1>3 DEF Unnumbered
<1> QED BY <1>2, <1>3
LEMMA AtIs ==
  ASSUME NEW b \in Buffer, NEW i \in Nat
  PROVE  At(b, i) \in Char
<1>1. b \in [0 .. BUFMAX -> Char] /\ 0 \in Char /\ BUFMAX \in Nat
  BY Constants DEF Buffer, Char
<1> QED BY <1>1 DEF At

LEMMA ToggledIs ==
  ASSUME NEW c \in Char
  PROVE  Toggled(c) \in Char
  BY DEF Toggled, Char

LEMMA hex2memIs ==
  ASSUME NEW b \in Buffer, NEW p \in Nat, NEW i \in Nat
  PROVE  hex2mem(b, p, i) \in Char
<1>1. At(b, p + 2 * i) \in Char /\ At(b, p + 2 * i + 1) \in Char
  BY AtIs
<1>2. Char \subseteq Int
  BY DEF Char
<1>30. ASSUME NEW c \in Char PROVE Hex(c) \in Int
  <2>1. Hex(c) \in -1 .. 15
    BY <1>2, HexIs
  <2> QED BY <2>1
<1>3. Hex(At(b, p + 2 * i)) \in Int /\ Hex(At(b, p + 2 * i + 1)) \in Int
  BY <1>1, <1>30
<1>4. \A x, y \in Int : (16 * x + y) % 256 \in Char
  BY DEF Char
<1> QED BY <1>3, <1>4 DEF hex2mem

\* Where byte i of binary data is.
LEMMA ebin2memIs ==
  ASSUME NEW b \in Buffer, NEW p \in Nat, NEW i \in Nat
  PROVE  ebin2mem(b, p, i) \in Char
<1> DEFINE G == [x \in (1 .. i) \X Nat |-> x[2] + (IF At(b, x[2]) = Escape THEN 2 ELSE 1)]
           at == CHOOSE f : f = [k \in 0 .. i |->
                   IF k = 0 THEN p ELSE f[k - 1] + (IF At(b, f[k - 1]) = Escape THEN 2 ELSE 1)]
<1>1. G \in [(1 .. i) \X Nat -> Nat]
  OBVIOUS
<1>2. \A k \in 1 .. i : \A v \in Nat : G[<<k, v>>] = v + (IF At(b, v) = Escape THEN 2 ELSE 1)
  OBVIOUS
<1> HIDE DEF G
<1>3. PICK f \in [0 .. i -> Nat] : Follows(f, i, p, G)
  BY <1>1, Recursion
<1>4. ASSUME NEW k \in 0 .. i
      PROVE  f[k] = IF k = 0 THEN p ELSE f[k - 1] + (IF At(b, f[k - 1]) = Escape THEN 2 ELSE 1)
  <2>1. CASE k = 0
    BY <1>3, <2>1 DEF Follows
  <2>2. CASE k \in 1 .. i
    <3>1. k - 1 \in 0 .. i /\ k # 0
      BY <2>2
    <3>2. f[k - 1] \in Nat
      BY <3>1
    <3>3. f[k] = G[<<k, f[k - 1]>>]
      BY <1>3, <2>2 DEF Follows
    <3>4. f[k] = f[k - 1] + (IF At(b, f[k - 1]) = Escape THEN 2 ELSE 1)
      BY <1>2, <2>2, <3>2, <3>3
    <3> QED BY <3>1, <3>4
  <2> QED BY <2>1, <2>2
<1>5. f = [k \in 0 .. i |-> IF k = 0 THEN p ELSE f[k - 1] + (IF At(b, f[k - 1]) = Escape THEN 2 ELSE 1)]
  BY <1>4
<1>6. at = [k \in 0 .. i |-> IF k = 0 THEN p ELSE at[k - 1] + (IF At(b, at[k - 1]) = Escape THEN 2 ELSE 1)]
  BY <1>5
<1>7. ebin2mem(b, p, i) = IF At(b, at[i]) = Escape THEN Toggled(At(b, at[i] + 1)) ELSE At(b, at[i])
  BY DEF ebin2mem
<1> HIDE DEF at
<1>8. Obeys(at, i, Nat, p, G)
  <2>1. at[0] = p
    BY <1>6
  <2>2. ASSUME NEW k \in 1 .. i, at[k - 1] \in Nat PROVE at[k] = G[<<k, at[k - 1]>>]
    <3>1. at[k] = at[k - 1] + (IF At(b, at[k - 1]) = Escape THEN 2 ELSE 1)
      BY <1>6
    <3>2. G[<<k, at[k - 1]>>] = at[k - 1] + (IF At(b, at[k - 1]) = Escape THEN 2 ELSE 1)
      BY <1>2, <2>2
    <3> QED BY <3>1, <3>2
  <2> QED BY <2>1, <2>2 DEF Obeys
<1>9. \A k \in 0 .. i : at[k] \in Nat
  BY <1>1, <1>8, RecursionTyped
<1>10. at[i] \in Nat /\ at[i] + 1 \in Nat
  BY <1>9
<1>11. At(b, at[i]) \in Char /\ At(b, at[i] + 1) \in Char
  BY <1>10, AtIs
<1>12. Toggled(At(b, at[i] + 1)) \in Char
  BY <1>11, ToggledIs
<1> QED BY <1>7, <1>11, <1>12

Memory == [0 .. MEM - 1 -> Char]

\* The numbers of a packet that has two.
LEMMA TwoNumbersAre ==
  ASSUME NEW b \in Buffer, TwoNumbers(b)
  PROVE  /\ AddrEnd(b) \in 1 .. BUFMAX - 1 /\ LenEnd(b) \in 1 .. BUFMAX
         /\ Addr(b) \in Nat /\ Length(b) \in Nat
<1>1. BUFMAX \in Nat \ {0} /\ WORD \in Nat \ {0} /\ b[BUFMAX] = 0
  BY Constants DEF Buffer
<1>2. AddrEnd(b) \in 1 .. BUFMAX
  BY <1>1, NumberEndIs DEF AddrEnd
<1>3. AddrEnd(b) # BUFMAX
  BY <1>1 DEF TwoNumbers, Comma
<1>4. AddrEnd(b) \in 1 .. BUFMAX - 1 /\ AddrEnd(b) + 1 \in 0 .. BUFMAX /\ 1 \in 0 .. BUFMAX
  BY <1>1, <1>2, <1>3
<1>5. LenEnd(b) \in AddrEnd(b) + 1 .. BUFMAX
  BY <1>4, NumberEndIs DEF LenEnd
<1>6. hexToInt(b, 1) \in 0 .. WORD - 1 /\ hexToInt(b, AddrEnd(b) + 1) \in 0 .. WORD - 1
  BY <1>4, hexToIntIs
<1>7. LenEnd(b) \in 1 .. BUFMAX
  BY <1>1, <1>4, <1>5
<1>8. Addr(b) \in Nat /\ Length(b) \in Nat
  BY <1>1, <1>6 DEF Addr, Length
<1> QED BY <1>4, <1>7, <1>8
LEMMA MemoryReadIs ==
  ASSUME NEW b \in Buffer, mem \in Memory
  PROVE  MemoryRead(b) \in Seq(Char)
<1> DEFINE n == IF Length(b) * 2 > OUTBUFMAX THEN OUTBUFMAX \div 2 ELSE Length(b)
<1>1. /\ Error(1) \in Seq(Char) /\ Error(3) \in Seq(Char)
  BY DEF Error, Char
<1>2. CASE ~ TwoNumbers(b)
  BY <1>1, <1>2 DEF MemoryRead
<1>3. CASE TwoNumbers(b) /\ Faults(Addr(b), n)
  BY <1>1, <1>3 DEF MemoryRead
<1>4. CASE TwoNumbers(b) /\ ~ Faults(Addr(b), n)
  <2>1. Addr(b) \in Nat /\ Length(b) \in Nat
    BY <1>4, TwoNumbersAre
  <2>2. n \in Nat
    BY <2>1, Constants
  <2>3. MemoryRead(b) = mem2hex([i \in 1 .. n |-> mem[Addr(b) + i - 1]])
    BY <1>4 DEF MemoryRead
  <2>4. n > 0 => Addr(b) + n <= MEM
    BY <1>4, <2>1, <2>2, Constants DEF Faults
  <2> HIDE DEF n
  <2>5. ASSUME NEW i \in 1 .. n PROVE mem[Addr(b) + i - 1] \in Char
    <3>1. Addr(b) + i - 1 \in 0 .. MEM - 1
      BY <2>1, <2>2, <2>4, Constants
    <3> QED BY <3>1 DEF Memory
  <2> DEFINE bytes == [i \in 1 .. n |-> mem[Addr(b) + i - 1]]
  <2>6. bytes \in [1 .. n -> Char]
    BY <2>5
  <2> HIDE DEF bytes
  <2>7. bytes \in Seq(Char)
    BY <2>2, <2>6, IsSequence
  <2>8. mem2hex(bytes) \in Seq(HexChar)
    BY <2>7, mem2hexIs
  <2>9. mem2hex(bytes) \in Seq(Char)
    BY <2>8, HexCharIsPlain, SeqMonotonic
  <2> QED BY <2>3, <2>9 DEF bytes
<1> QED BY <1>2, <1>3, <1>4

LEMMA MemoryWrittenIs ==
  ASSUME NEW b \in Buffer, mem \in Memory
  PROVE  MemoryWritten(b) \in Memory
<1> DEFINE p == LenEnd(b) + 1
           byte(i) == IF b[0] = 77 THEN hex2mem(b, p, i) ELSE ebin2mem(b, p, i)
<1>1. CASE ~ Writes(b)
  BY <1>1 DEF MemoryWritten
<1>2. CASE Writes(b)
  <2>1. Addr(b) \in Nat /\ Length(b) \in Nat /\ LenEnd(b) \in 1 .. BUFMAX /\ BUFMAX \in Nat
    BY <1>2, TwoNumbersAre, Constants DEF Writes
  <2>2. p \in Nat
    BY <2>1
  <2>3. \A i \in Nat : byte(i) \in Char
    BY <2>2, hex2memIs, ebin2memIs
  <2>4. MemoryWritten(b) =
          [a \in 0 .. MEM - 1 |-> IF a \in Addr(b) .. Addr(b) + Length(b) - 1 THEN byte(a - Addr(b)) ELSE mem[a]]
    BY <1>2 DEF MemoryWritten
  <2> HIDE DEF byte
  <2>5. ASSUME NEW a \in 0 .. MEM - 1
        PROVE  (IF a \in Addr(b) .. Addr(b) + Length(b) - 1 THEN byte(a - Addr(b)) ELSE mem[a]) \in Char
    <3>1. CASE a \in Addr(b) .. Addr(b) + Length(b) - 1
      <4>1. a - Addr(b) \in Nat
        BY <2>1, <3>1
      <4> QED BY <2>3, <3>1, <4>1
    <3>2. CASE a \notin Addr(b) .. Addr(b) + Length(b) - 1
      BY <3>2 DEF Memory
    <3> QED BY <3>1, <3>2
  <2> QED BY <2>4, <2>5 DEF Memory
<1> QED BY <1>1, <1>2

Signals == {2, 4, 5, 7, 10}

LEMMA computeSignalIs ==
  ASSUME NEW vec
  PROVE  computeSignal(vec) \in Signals
  BY DEF computeSignal, Signals

LEMMA StoppedIs ==
  ASSUME NEW sig \in Char
  PROVE  /\ Stopped(sig) \in Seq(Char) /\ Stopped(sig) # <<>> /\ Stopped(sig)[1] = 83
<1>1. <<83>> \in Seq(Char) /\ Len(<<83>>) = 1 /\ <<83>>[1] = 83 /\ <<sig>> \in Seq(Char)
  BY DEF Char
<1>2. mem2hex(<<sig>>) \in Seq(HexChar)
  BY <1>1, mem2hexIs
<1>3. mem2hex(<<sig>>) \in Seq(Char)
  BY <1>2, HexCharIsPlain, SeqMonotonic
<1> DEFINE t == mem2hex(<<sig>>)
<1> HIDE DEF t
<1>4. Joins(<<83>> \o t, <<83>>, t, Char)
  BY <1>1, <1>3, Cat DEF t
<1>5. Len(<<83>> \o t) # 0 /\ (<<83>> \o t)[1] = 83 /\ <<83>> \o t \in Seq(Char)
  BY <1>1, <1>4 DEF Joins
<1>6. <<83>> \o t # <<>>
  BY <1>5, EmptySeq
<1> QED BY <1>5, <1>6 DEF Stopped, t

LEMMA OutputPacketIs ==
  ASSUME NEW s \in Seq(Char)
  PROVE  /\ OutputPacket(s) \in Seq(Char) /\ OutputPacket(s) # <<>> /\ OutputPacket(s)[1] = 79
<1>1. <<79>> \in Seq(Char) /\ Len(<<79>>) = 1 /\ <<79>>[1] = 79
  BY DEF Char
<1>2. mem2hex(s) \in Seq(HexChar)
  BY mem2hexIs
<1>3. mem2hex(s) \in Seq(Char)
  BY <1>2, HexCharIsPlain, SeqMonotonic
<1> DEFINE t == mem2hex(s)
<1> HIDE DEF t
<1>4. Joins(<<79>> \o t, <<79>>, t, Char)
  BY <1>1, <1>3, Cat DEF t
<1>5. Len(<<79>> \o t) # 0 /\ (<<79>> \o t)[1] = 79 /\ <<79>> \o t \in Seq(Char)
  BY <1>1, <1>4 DEF Joins
<1>6. <<79>> \o t # <<>>
  BY <1>5, EmptySeq
<1> QED BY <1>5, <1>6 DEF OutputPacket, t

\* What there is to send for c and s: output, as often as the program prints, and a report
\* that is none.
LEMMA RunAnswersAre ==
  ASSUME NEW op \in {"c", "s"}
  PROVE  LET run == Runs[op]
             q == [k \in 1 .. Len(run.prints) |-> OutputPacket(run.prints[k])] \o <<Stopped(computeSignal(run.stop))>>
         IN /\ q \in Seq(Seq(Char)) /\ Len(q) = Len(run.prints) + 1 /\ Len(run.prints) \in Nat
            /\ \A k \in 1 .. Len(q) : q[k] # <<>> /\ (q[k][1] = 79 <=> k < Len(q))
<1> DEFINE run == Runs[op]
           a == [k \in 1 .. Len(run.prints) |-> OutputPacket(run.prints[k])]
           z == <<Stopped(computeSignal(run.stop))>>
<1>1. run.prints \in Seq(Seq(Char))
  BY PacketConstantsOK DEF Char
<1> HIDE DEF run
<1>2. Len(run.prints) \in Nat /\ \A k \in 1 .. Len(run.prints) : run.prints[k] \in Seq(Char)
  BY <1>1, LenProperties, ElementOfSeq
<1>3. \A k \in 1 .. Len(run.prints) :
        /\ OutputPacket(run.prints[k]) \in Seq(Char) /\ OutputPacket(run.prints[k]) # <<>>
        /\ OutputPacket(run.prints[k])[1] = 79
  BY <1>2, OutputPacketIs
<1>4. a \in [1 .. Len(run.prints) -> Seq(Char)]
  BY <1>3
<1>5. \A k \in 1 .. Len(run.prints) : a[k] # <<>> /\ a[k][1] = 79
  BY <1>3
<1> HIDE DEF a
<1>6. a \in Seq(Seq(Char)) /\ Len(a) = Len(run.prints)
  BY <1>2, <1>4, IsSequence
<1>7. computeSignal(run.stop) \in Char
  <2>1. computeSignal(run.stop) \in Signals
    BY computeSignalIs
  <2> QED BY <2>1 DEF Signals, Char
<1>8. /\ Stopped(computeSignal(run.stop)) \in Seq(Char)
      /\ Stopped(computeSignal(run.stop)) # <<>>
      /\ Stopped(computeSignal(run.stop))[1] = 83
  BY <1>7, StoppedIs
<1>9. z \in Seq(Seq(Char)) /\ Len(z) = 1 /\ z[1] = Stopped(computeSignal(run.stop))
  BY <1>8, One
<1> HIDE DEF z
<1>10. Joins(a \o z, a, z, Seq(Char))
  BY <1>6, <1>9, Cat
<1> DEFINE q == a \o z
<1> HIDE DEF q
<1>11. q \in Seq(Seq(Char)) /\ Len(q) = Len(run.prints) + 1
  BY <1>2, <1>6, <1>9, <1>10 DEF Joins, q
<1>12. ASSUME NEW k \in 1 .. Len(q) PROVE q[k] # <<>> /\ (q[k][1] = 79 <=> k < Len(q))
  <2>1. CASE k \in 1 .. Len(run.prints)
    <3>1. q[k] = a[k]
      BY <1>6, <1>10, <2>1 DEF Joins, q
    <3> QED BY <1>2, <1>5, <1>11, <2>1, <3>1
  <2>2. CASE k = Len(run.prints) + 1
    <3>1. q[Len(run.prints) + 1] = z[1]
      BY <1>6, <1>9, <1>10 DEF Joins, q
    <3> QED BY <1>8, <1>9, <1>11, <2>2, <3>1
  <2> QED BY <1>2, <1>11, <2>1, <2>2, SMTT(30)
<1> QED BY <1>2, <1>11, <1>12 DEF q, a, z, run

LEMMA AnswersAre ==
  ASSUME NEW b \in Buffer, mem \in Memory, sigval \in Char
  PROVE  Answers(b) \in Seq(Seq(Char)) /\ Answers(b) # <<>> /\ Len(Answers(b)) >= 1
<1>1. CASE b[0] = 109
  <2>1. MemoryRead(b) \in Seq(Char)
    BY MemoryReadIs
  <2>2. Answers(b) = <<MemoryRead(b)>>
    BY <1>1 DEF Answers
  <2> QED BY <2>1, <2>2
<1>2. CASE b[0] \in {77, 88}
  <2>1. WriteAnswer(b) \in Seq(Char)
    <3>1. OK \in Seq(Char) /\ Error(2) \in Seq(Char) /\ Error(3) \in Seq(Char)
      BY DEF Error, OK, Char
    <3> QED BY <3>1 DEF WriteAnswer
  <2>2. Answers(b) = <<WriteAnswer(b)>>
    BY <1>2 DEF Answers
  <2> QED BY <2>1, <2>2
<1>3. CASE b[0] = 63
  <2>1. Stopped(sigval) \in Seq(Char)
    BY StoppedIs
  <2>2. Answers(b) = <<Stopped(sigval)>>
    BY <1>3 DEF Answers
  <2> QED BY <2>1, <2>2
<1>4. CASE b[0] \in {99, 115}
  <2> DEFINE op == IF b[0] = 99 THEN "c" ELSE "s"
             run == Runs[op]
             q == [k \in 1 .. Len(run.prints) |-> OutputPacket(run.prints[k])] \o <<Stopped(computeSignal(run.stop))>>
  <2>1. q \in Seq(Seq(Char)) /\ Len(q) = Len(run.prints) + 1 /\ Len(run.prints) \in Nat
    BY RunAnswersAre, SMTT(30)
  <2> HIDE DEF op, run, q
  <2>2. Answers(b) = q
    <3>1. b[0] # 109 /\ b[0] \notin {77, 88} /\ b[0] # 63
      BY <1>4
    <3> QED BY <1>4, <3>1 DEF Answers, q, run, op
  <2> HIDE DEF q
  <2>3. Len(q) >= 1
    BY <2>1
  <2>4. q # <<>>
    BY <2>3, EmptySeq
  <2> QED BY <2>1, <2>2, <2>3, <2>4
<1>5. CASE b[0] \notin {109, 77, 88, 63, 99, 115}
  <2>1. Answers(b) = <<<<>>>>
    BY <1>5 DEF Answers
  <2> QED BY <2>1
<1> QED BY <1>1, <1>2, <1>3, <1>4, <1>5
----------------------------------------------------------------------------
(* Types *)

Message == [kind : {"ack", "nak", "good", "bad"}, of : Seq(Char)]

Typed ==
  /\ ts \in {"hunt", "data", "sum1", "sum2", "ack"}
  /\ buffer \in Buffer /\ count \in 0 .. BUFMAX /\ (ts = "data" => count < BUFMAX)
  /\ checksum \in Char /\ high \in -1 .. 15
  /\ mem \in Memory /\ sigval \in Char
  /\ ran \in Seq(Seq(Char)) /\ packets \in Seq(Seq(Char)) /\ (ts = "ack" => packets # <<>>)
  /\ hs \in {"acked", "reply", "done"} /\ next \in 1 .. Len(Requests)
  /\ toStub \in Seq(Char) /\ toHost \in Seq(Message)
  /\ errors \in 0 .. MaxErrors

LEMMA MessagesTyped ==
  /\ Ack \in Message /\ Nak \in Message /\ <<Ack>> \in Seq(Message) /\ <<Nak>> \in Seq(Message)
  /\ \A p \in Seq(Char) : Sent(p) \in Message /\ Sent(p).kind = "good" /\ Sent(p).of = Rle(p)
  /\ <<Plus>> \in Seq(Char) /\ <<Minus>> \in Seq(Char)
<1>1. Ack \in Message /\ Nak \in Message
  BY DEF Ack, Nak, Message
<1>2. ASSUME NEW p \in Seq(Char) PROVE Sent(p) \in Message /\ Sent(p).kind = "good" /\ Sent(p).of = Rle(p)
  <2>1. Rle(p) \in Seq(Char)
    BY RleIs
  <2> QED BY <2>1 DEF Sent, Frame, Message
<1>3. <<Plus>> \in Seq(Char) /\ <<Minus>> \in Seq(Char)
  BY DEF Plus, Minus, Char
<1> QED BY <1>1, <1>2, <1>3

\* The stub's characters one by one: what a step takes off the line, and what it puts there.
LEMMA HeadOff ==
  ASSUME NEW S, NEW q \in Seq(S), q # <<>>
  PROVE  /\ Head(q) \in S /\ Head(q) = q[1] /\ Tail(q) \in Seq(S) /\ Len(q) \in Nat \ {0}
         /\ Len(Tail(q)) = Len(q) - 1 /\ \A k \in 1 .. Len(q) - 1 : Tail(q)[k] = q[k + 1]
<1>1. Len(q) \in Nat \ {0}
  BY EmptySeq
<1>2. Head(q) \in S /\ Tail(q) \in Seq(S) /\ Len(Tail(q)) = Len(q) - 1
      /\ \A k \in 1 .. Len(Tail(q)) : Tail(q)[k] = q[k + 1]
  BY HeadTailProperties
<1>3. Head(q) = q[1]
  OBVIOUS
<1> QED BY <1>1, <1>2, <1>3

LEMMA Taken ==
  ASSUME NEW b \in Buffer, NEW n \in Int, n <= BUFMAX
  PROVE  [i \in 1 .. n |-> b[i - 1]] \in Seq(Char)
<1> DEFINE q == [i \in 1 .. n |-> b[i - 1]]
<1>1. PICK m \in Nat : 1 .. n = 1 .. m /\ m <= BUFMAX
  <2>1. CASE n \in Nat
    BY <2>1
  <2>2. CASE n \notin Nat
    <3>1. 1 .. n = 1 .. 0 /\ 0 <= BUFMAX
      BY <2>2, Constants
    <3> QED BY <3>1
  <2> QED BY <2>1, <2>2
<1>2. \A i \in 1 .. m : i - 1 \in 0 .. BUFMAX
  BY <1>1, Constants
<1>3. \A i \in 1 .. m : b[i - 1] \in Char
  BY <1>2 DEF Buffer
<1>4. q \in [1 .. m -> Char]
  BY <1>1, <1>3
<1> HIDE DEF q
<1>5. q \in Seq(Char)
  BY <1>4, IsSequence
<1> QED BY <1>5 DEF q

\* The types of what Run sets, and the packet it sends.
LEMMA RunTypes ==
  ASSUME Typed, buffer' \in Buffer, NEW n \in Int, n <= BUFMAX, NEW msgs \in Seq(Message), Run(msgs, n)
  PROVE  /\ ts' = "ack" /\ mem' \in Memory /\ sigval' \in Char
         /\ ran' \in Seq(Seq(Char)) /\ Len(ran') = Len(ran) + 1
         /\ packets' \in Seq(Seq(Char)) /\ packets' # <<>> /\ Head(packets') \in Seq(Char)
         /\ <<Sent(Head(packets'))>> \in Seq(Message) /\ msgs \o <<Sent(Head(packets'))>> \in Seq(Message)
         /\ toHost' \in Seq(Message)
<1> PICK b \in Buffer : b = buffer'
  OBVIOUS
<1>1. ran' = Append(ran, [i \in 1 .. n |-> b[i - 1]]) /\ ran \in Seq(Seq(Char))
  BY DEF Run, Typed
<1>2. [i \in 1 .. n |-> b[i - 1]] \in Seq(Char)
  BY Taken
<1>3. ran' \in Seq(Seq(Char)) /\ Len(ran') = Len(ran) + 1
  BY <1>1, <1>2, AppendProperties
<1>4. mem \in Memory /\ sigval \in Char
  BY DEF Typed
<1>5. packets' = Answers(b)
  BY DEF Run
<1>6. packets' \in Seq(Seq(Char)) /\ packets' # <<>>
  BY <1>4, <1>5, AnswersAre
<1>7. Head(packets') \in Seq(Char)
  BY <1>6, HeadTailProperties
<1>8. Sent(Head(packets')) \in Message
  BY <1>7, MessagesTyped
<1>9. <<Sent(Head(packets'))>> \in Seq(Message)
  BY <1>8
<1>10. msgs \o <<Sent(Head(packets'))>> \in Seq(Message)
  BY <1>9, ConcatProperties
<1>11. toHost' \in Seq(Message)
  <2>1. toHost' = toHost \o (msgs \o <<Sent(Head(packets'))>>) /\ toHost \in Seq(Message)
    BY DEF Run, Say, Typed
  <2> QED BY <1>10, <2>1, ConcatProperties
<1>12. mem' \in Memory
  <2>1. MemoryWritten(b) \in Memory
    BY <1>4, MemoryWrittenIs
  <2>2. mem' = IF b[0] \in {77, 88} THEN MemoryWritten(b) ELSE mem
    BY DEF Run
  <2> QED BY <1>4, <2>1, <2>2
<1>13. sigval' \in Char
  <2>1. \A vec : computeSignal(vec) \in Char
    <3>1. Signals \subseteq Char
      BY DEF Signals, Char
    <3> QED BY <3>1, computeSignalIs
  <2>2. sigval' = CASE b[0] = 99 -> computeSignal(Runs["c"].stop)
                    [] b[0] = 115 -> computeSignal(Runs["s"].stop)
                    [] OTHER -> sigval
    BY DEF Run
  <2> QED BY <1>4, <2>1, <2>2
<1>14. ts' = "ack"
  BY DEF Run
<1> QED BY <1>3, <1>6, <1>7, <1>9, <1>10, <1>11, <1>12, <1>13, <1>14

LEMMA PacketTyped ==
  ASSUME NEW j \in 1 .. Len(Requests)
  PROVE  Encoded(Text(Requests[j])) \in Seq(Char) /\ <<Plus>> \o Encoded(Text(Requests[j])) \in Seq(Char)
<1>1. PacketOf(j) \in Seq(Char)
  BY PacketIs DEF IsPacket
<1>2. <<Plus>> \o PacketOf(j) \in Seq(Char)
  BY <1>1, MessagesTyped, ConcatProperties
<1> QED BY <1>1, <1>2 DEF PacketOf, TextOf

LEMMA TypedStarts ==
  ASSUME Init
  PROVE  Typed
<1>1. 1 \in 1 .. Len(Requests) /\ BUFMAX \in Nat /\ MaxErrors \in Nat /\ 0 \in Char /\ MEM \in Nat
  BY Constants DEF Char
<1>2. toStub \in Seq(Char)
  BY <1>1, PacketTyped DEF Init
<1>3. buffer \in Buffer
  BY <1>1 DEF Init, Buffer
<1>4. mem \in Memory
  BY <1>1 DEF Init, Memory
<1>5. sigval \in Char
  <2>1. Signals \subseteq Char
    BY DEF Signals, Char
  <2>2. sigval = computeSignal("trap")
    BY DEF Init
  <2> QED BY <2>1, <2>2, computeSignalIs
<1>6. 0 \in 0 .. BUFMAX /\ 0 \in 0 .. MaxErrors /\ 0 \in -1 .. 15
  BY <1>1
<1> QED BY <1>1, <1>2, <1>3, <1>4, <1>5, <1>6 DEF Init, Typed

LEMMA CharTyped ==
  ASSUME Typed, GetChar
  PROVE  Typed'
<1> PICK c \in Char : c = Head(toStub)
  BY HeadOff DEF Typed, GetChar
<1>1. /\ toStub' \in Seq(Char) /\ UNCHANGED <<hs, next, errors>>
  BY HeadOff DEF GetChar, Typed, hostVars
<1>2. BUFMAX \in Nat \ {0} /\ 0 \in Char /\ count \in Nat
  BY Constants DEF Char, Typed
<1>3. CASE Hunt(c)
  <2>1. 0 < BUFMAX /\ 0 \in 0 .. BUFMAX /\ 0 \in -1 .. 15
    BY <1>2
  <2> QED BY <1>1, <1>2, <1>3, <2>1 DEF Hunt, target, Typed
<1>4. CASE Data(c)
  <2>1. ts = "data" /\ count < BUFMAX /\ high' = high
    BY <1>4 DEF Data, Typed
  <2>2. CASE c = Hash
    <3>1. buffer' \in Buffer
      BY <1>2, <1>4, <2>1, <2>2 DEF Data, Typed, Buffer
    <3> QED BY <1>1, <1>4, <2>1, <2>2, <3>1 DEF Data, Typed, target
  <2>3. CASE c # Hash
    <3>1. /\ count' = count + 1 /\ checksum' = (checksum + c) % 256
          /\ buffer' = [i \in 0 .. BUFMAX |-> IF i = count THEN c ELSE IF i = BUFMAX THEN 0 ELSE buffer[i]]
          /\ \/ count' < BUFMAX /\ UNCHANGED <<ts, target, toHost>>
             \/ count' = BUFMAX /\ ts' = "hunt" /\ UNCHANGED <<target, toHost>>
             \/ count' = BUFMAX /\ Run(<<>>, BUFMAX)
      BY <1>4, <2>3 DEF Data
    <3>2. count' \in 0 .. BUFMAX
      BY <1>2, <2>1, <3>1
    <3>3. checksum' \in Char
      <4>1. \A x, y \in Char : (x + y) % 256 \in Char
        BY DEF Char
      <4> QED BY <3>1, <4>1 DEF Typed
    <3>4. buffer' \in Buffer
      BY <1>2, <2>1, <3>1 DEF Typed, Buffer
    <3>5. CASE count' < BUFMAX /\ UNCHANGED <<ts, target, toHost>>
      BY <1>1, <2>1, <3>2, <3>3, <3>4, <3>5 DEF Typed, target
    <3>6. CASE count' = BUFMAX /\ ts' = "hunt" /\ UNCHANGED <<target, toHost>>
      BY <1>1, <2>1, <3>2, <3>3, <3>4, <3>6 DEF Typed, target
    <3>7. CASE count' = BUFMAX /\ Run(<<>>, BUFMAX)
      <4>1. BUFMAX \in Int /\ BUFMAX <= BUFMAX /\ <<>> \in Seq(Message)
        BY <1>2
      <4>2. /\ ts' = "ack" /\ mem' \in Memory /\ sigval' \in Char /\ ran' \in Seq(Seq(Char))
            /\ packets' \in Seq(Seq(Char)) /\ packets' # <<>> /\ toHost' \in Seq(Message)
        BY <3>4, <3>7, <4>1, RunTypes
      <4> QED BY <1>1, <2>1, <3>2, <3>3, <3>4, <4>2 DEF Typed
    <3> QED BY <3>1, <3>5, <3>6, <3>7
  <2> QED BY <2>2, <2>3
<1>5. CASE Sum1(c)
  <2>1. high' \in -1 .. 15
    BY <1>5, HexIs DEF Sum1, Char
  <2> QED BY <1>1, <1>5, <2>1 DEF Sum1, Typed, target
<1>6. CASE Sum2(c)
  <2>1. CASE Take(<<Ack>>)
    <3>1. buffer' \in Buffer
      BY <2>1, UnnumberedIs DEF Take, Typed
    <3> DEFINE n == IF Numbered(buffer) THEN count - 3 ELSE count
    <3>2. n \in Int /\ n <= BUFMAX
      BY <1>2 DEF Typed
    <3>3. Run(<<Ack>>, n) /\ UNCHANGED <<count, checksum, high>>
      BY <2>1 DEF Take
    <3> HIDE DEF n
    <3>4. /\ ts' = "ack" /\ mem' \in Memory /\ sigval' \in Char /\ ran' \in Seq(Seq(Char))
          /\ packets' \in Seq(Seq(Char)) /\ packets' # <<>> /\ toHost' \in Seq(Message)
      BY <3>1, <3>2, <3>3, MessagesTyped, RunTypes
    <3> QED BY <1>1, <3>1, <3>3, <3>4 DEF Typed
  <2>2. CASE Refuse(<<Nak>>)
    <3>1. toHost' \in Seq(Message)
      <4>1. toHost' = toHost \o <<Nak>> /\ toHost \in Seq(Message) /\ <<Nak>> \in Seq(Message)
        BY <2>2, MessagesTyped DEF Refuse, Say, Typed
      <4> QED BY <4>1, ConcatProperties
    <3> QED BY <1>1, <2>2, <3>1 DEF Typed, Refuse, input, target
  <2> QED BY <1>6, <2>1, <2>2 DEF Sum2
<1>7. CASE Resend(c)
  <2>1. ts = "ack" /\ UNCHANGED <<buffer, count, checksum, high, mem, sigval, ran>>
    BY <1>7 DEF Resend, input
  <2>2. packets \in Seq(Seq(Char)) /\ packets # <<>> /\ toHost \in Seq(Message)
    BY <2>1 DEF Typed
  <2>3. Head(packets) \in Seq(Char) /\ Tail(packets) \in Seq(Seq(Char)) /\ Len(packets) \in Nat \ {0}
        /\ Len(Tail(packets)) = Len(packets) - 1
    BY <2>2, HeadOff
  <2>4. CASE c # Plus
    <3>1. <<Sent(Head(packets))>> \in Seq(Message)
      BY <2>3, MessagesTyped
    <3>2. toHost' \in Seq(Message) /\ UNCHANGED <<ts, packets>>
      <4>1. toHost' = toHost \o <<Sent(Head(packets))>> /\ UNCHANGED <<ts, packets>>
        BY <1>7, <2>4 DEF Resend, Say
      <4> QED BY <2>2, <3>1, <4>1, ConcatProperties
    <3> QED BY <1>1, <2>1, <3>2 DEF Typed
  <2>5. CASE c = Plus /\ Len(packets) = 1
    <3>1. ts' = "hunt" /\ UNCHANGED <<packets, toHost>>
      BY <1>7, <2>5 DEF Resend, Acknowledged
    <3> QED BY <1>1, <2>1, <3>1 DEF Typed
  <2>6. CASE c = Plus /\ Len(packets) # 1
    <3>1. packets' = Tail(packets) /\ toHost' = toHost \o <<Sent(Head(packets'))>> /\ ts' = ts
      BY <1>7, <2>6 DEF Resend, Acknowledged, Say
    <3>2. packets' \in Seq(Seq(Char)) /\ packets' # <<>>
      <4>1. Len(Tail(packets)) # 0
        BY <2>3, <2>6
      <4> QED BY <2>3, <3>1, <4>1, EmptySeq
    <3>3. Head(packets') \in Seq(Char)
      BY <3>2, HeadOff
    <3>4. <<Sent(Head(packets'))>> \in Seq(Message)
      BY <3>3, MessagesTyped
    <3>5. toHost' \in Seq(Message)
      BY <2>2, <3>1, <3>4, ConcatProperties
    <3> QED BY <1>1, <2>1, <3>1, <3>2, <3>5 DEF Typed
  <2> QED BY <2>4, <2>5, <2>6
<1> QED BY <1>3, <1>4, <1>5, <1>6, <1>7 DEF GetChar

LEMMA SendTyped ==
  ASSUME Typed
  PROVE  /\ toStub \o Encoded(Text(Requests[next])) \in Seq(Char)
         /\ toStub \o <<Plus>> \in Seq(Char) /\ toStub \o <<Minus>> \in Seq(Char)
         /\ next < Len(Requests) =>
              /\ next + 1 \in 1 .. Len(Requests)
              /\ toStub \o (<<Plus>> \o Encoded(Text(Requests[next + 1]))) \in Seq(Char)
<1>1. toStub \in Seq(Char) /\ next \in 1 .. Len(Requests) /\ Len(Requests) \in Nat
  BY Constants DEF Typed
<1>2. toStub \o Encoded(Text(Requests[next])) \in Seq(Char)
  <2>1. Encoded(Text(Requests[next])) \in Seq(Char)
    BY <1>1, PacketTyped
  <2> QED BY <1>1, <2>1, ConcatProperties
<1>3. toStub \o <<Plus>> \in Seq(Char) /\ toStub \o <<Minus>> \in Seq(Char)
  BY <1>1, MessagesTyped, ConcatProperties
<1>4. ASSUME next < Len(Requests)
      PROVE  /\ next + 1 \in 1 .. Len(Requests)
             /\ toStub \o (<<Plus>> \o Encoded(Text(Requests[next + 1]))) \in Seq(Char)
  <2>1. next + 1 \in 1 .. Len(Requests)
    BY <1>1, <1>4
  <2>2. <<Plus>> \o Encoded(Text(Requests[next + 1])) \in Seq(Char)
    BY <2>1, PacketTyped
  <2> QED BY <1>1, <2>1, <2>2, ConcatProperties
<1> QED BY <1>2, <1>3, <1>4

\* A step of the host or the line leaves the stub's types alone.
LEMMA StubTyped ==
  ASSUME Typed, UNCHANGED stubVars,
         hs' \in {"acked", "reply", "done"}, next' \in 1 .. Len(Requests),
         toStub' \in Seq(Char), toHost' \in Seq(Message), errors' \in 0 .. MaxErrors
  PROVE  Typed'
BY DEF Typed, stubVars, input, target

LEMMA HostTyped ==
  ASSUME Typed, HostReads
  PROVE  Typed'
<1>1. toHost' \in Seq(Message) /\ UNCHANGED <<stubVars, errors>> /\ errors \in 0 .. MaxErrors
  BY HeadOff DEF HostReads, Typed
<1>2. hs \in {"acked", "reply", "done"} /\ next \in 1 .. Len(Requests) /\ toStub \in Seq(Char)
  BY DEF Typed
<1> DEFINE m == Head(toHost)
<1>3. CASE AwaitAck(m)
  <2>1. next' = next /\ hs' \in {"acked", "reply", "done"}
    BY <1>2, <1>3 DEF AwaitAck
  <2>2. toStub' \in Seq(Char)
    BY <1>2, <1>3, SendTyped DEF AwaitAck, Send
  <2> QED BY <1>1, <1>2, <2>1, <2>2, StubTyped
<1>4. CASE AwaitReply(m)
  <2>1. next' \in 1 .. Len(Requests) /\ hs' \in {"acked", "reply", "done"}
    BY <1>2, <1>4, SendTyped DEF AwaitReply, hostVars
  <2>2. toStub' \in Seq(Char)
    BY <1>2, <1>4, SendTyped DEF AwaitReply, Send
  <2> QED BY <1>1, <1>2, <2>1, <2>2, StubTyped
<1>5. CASE Idle(m)
  <2>1. next' = next /\ hs' = hs
    BY <1>5 DEF Idle, hostVars
  <2>2. toStub' \in Seq(Char)
    BY <1>2, <1>5, SendTyped DEF Idle, Send
  <2> QED BY <1>1, <1>2, <2>1, <2>2, StubTyped
<1> QED BY <1>3, <1>4, <1>5 DEF HostReads

LEMMA RepeatTyped ==
  ASSUME Typed, Repeat, errors' \in 0 .. MaxErrors
  PROVE  Typed'
<1>1. UNCHANGED <<stubVars, hs, next, toHost>>
  BY DEF Repeat, hostVars
<1>2. hs \in {"acked", "reply", "done"} /\ next \in 1 .. Len(Requests) /\ toHost \in Seq(Message)
  BY DEF Typed
<1>3. toStub' \in Seq(Char)
  BY SendTyped DEF Repeat, Send
<1> QED BY <1>1, <1>2, <1>3, StubTyped

LEMMA ErrorTyped ==
  ASSUME Typed, Fails
  PROVE  errors' \in 0 .. MaxErrors /\ errors' = errors + 1
BY Constants DEF Typed, Fails

\* t is s with m for its first member.
Garbles(s, t, m, S) ==
  /\ m \in S /\ s \in Seq(S) /\ t \in Seq(S) /\ Len(t) = Len(s) /\ Len(s) \in Nat \ {0}
  /\ t[1] = m /\ \A k \in 2 .. Len(s) : t[k] = s[k]

LEMMA GarblesIs ==
  ASSUME NEW S, NEW s \in Seq(S), s # <<>>, NEW m \in S
  PROVE  Garbles(s, [s EXCEPT ![1] = m], m, S)
<1>1. Len(s) \in Nat \ {0}
  BY EmptySeq
<1>2. 1 \in 1 .. Len(s)
  BY <1>1
<1>3. /\ [s EXCEPT ![1] = m] \in Seq(S) /\ Len([s EXCEPT ![1] = m]) = Len(s)
      /\ \A j \in 1 .. Len(s) : [s EXCEPT ![1] = m][j] = IF j = 1 THEN m ELSE s[j]
  BY <1>2, ExceptSeq
<1> QED BY <1>1, <1>2, <1>3 DEF Garbles

\* What an error does: it takes the first character away or changes it, or the first message.
LEMMA LineErrorIs ==
  ASSUME Typed, LineError
  PROVE  /\ UNCHANGED <<stubVars, hostVars>>
         /\ \/ toStub # <<>> /\ toStub' = Tail(toStub) /\ toHost' = toHost
            \/ /\ toStub # <<>> /\ toHost' = toHost
               /\ \E n \in Noise : Garbles(toStub, toStub', n, Char)
            \/ toHost # <<>> /\ toHost' = Tail(toHost) /\ toStub' = toStub
            \/ /\ toHost # <<>> /\ toHost[1].kind = "good" /\ toStub' = toStub
               /\ \E m \in Message : m.kind = "bad" /\ Garbles(toHost, toHost', m, Message)
<1>1. Noise \subseteq Char
  BY PacketConstantsOK DEF PacketConstantsOK, Char
<1>2. toStub \in Seq(Char) /\ toHost \in Seq(Message)
  BY DEF Typed
<1>3. ASSUME toStub # <<>>, NEW n \in Noise, toStub' = [toStub EXCEPT ![1] = n]
      PROVE  Garbles(toStub, toStub', n, Char)
  BY <1>1, <1>2, <1>3, GarblesIs
<1>4. ASSUME toHost # <<>>, toHost' = [toHost EXCEPT ![1].kind = "bad"]
      PROVE  \E m \in Message : m.kind = "bad" /\ Garbles(toHost, toHost', m, Message)
  <2> DEFINE m == [toHost[1] EXCEPT !.kind = "bad"]
  <2>1. toHost[1] \in Message
    BY <1>2, <1>4, HeadOff
  <2>2. m \in Message /\ m.kind = "bad"
    BY <2>1 DEF Message
  <2>3. toHost' = [toHost EXCEPT ![1] = m]
    BY <1>4
  <2> HIDE DEF m
  <2>4. Garbles(toHost, [toHost EXCEPT ![1] = m], m, Message)
    BY <1>2, <1>4, <2>2, GarblesIs
  <2>5. Garbles(toHost, toHost', m, Message)
    BY <2>3, <2>4, Zenon
  <2> QED BY <2>2, <2>5
<1>5. UNCHANGED <<stubVars, hostVars>>
  BY DEF LineError
<1> QED BY <1>3, <1>4, <1>5 DEF LineError

LEMMA LineTyped ==
  ASSUME Typed, LineError
  PROVE  Typed'
<1>1. toStub \in Seq(Char) /\ toHost \in Seq(Message)
  BY DEF Typed
<1>2. errors' \in 0 .. MaxErrors
  BY ErrorTyped DEF LineError
<1>3. hs' \in {"acked", "reply", "done"} /\ next' \in 1 .. Len(Requests) /\ UNCHANGED stubVars
  BY LineErrorIs DEF hostVars, Typed
<1>4. toStub' \in Seq(Char)
  <2>1. toStub # <<>> => Tail(toStub) \in Seq(Char)
    BY <1>1, HeadOff
  <2> QED BY <1>1, <2>1, LineErrorIs DEF Garbles
<1>5. toHost' \in Seq(Message)
  <2>1. toHost # <<>> => Tail(toHost) \in Seq(Message)
    BY <1>1, HeadOff
  <2> QED BY <1>1, <2>1, LineErrorIs DEF Garbles
<1> QED BY <1>2, <1>3, <1>4, <1>5, StubTyped

LEMMA TypedHolds ==
  ASSUME Typed, [Next]_vars
  PROVE  Typed'
<1>1. ASSUME Timeout
      PROVE  Typed'
  <2>1. Repeat /\ errors' = errors
    BY <1>1 DEF Timeout
  <2>2. errors' \in 0 .. MaxErrors
    BY <2>1 DEF Typed
  <2> QED BY <2>1, <2>2, RepeatTyped
<1>2. ASSUME EarlyTimeout
      PROVE  Typed'
  BY <1>2, RepeatTyped, ErrorTyped DEF EarlyTimeout
<1>3. CASE UNCHANGED vars
  BY <1>3 DEF vars, stubVars, hostVars, input, target, Typed
<1> QED BY <1>1, <1>2, <1>3, CharTyped, HostTyped, LineTyped DEF Next

\* Of GetChar, Data, Take and the rest: characters stay characters, and getpacket writes no
\* further than the one place behind remcomInBuffer, buffer[BUFMAX], and nothing but 0 there.
THEOREM TypesHold == Spec => []Typed
<1>1. Init => Typed
  BY TypedStarts
<1>2. Typed /\ [Next]_vars => Typed'
  BY TypedHolds
<1> QED BY <1>1, <1>2, PTL DEF Spec

----------------------------------------------------------------------------
(* How many members of a sequence are in a set *)

Places(s, V) == {k \in 1 .. Len(s) : s[k] \in V}
Count(s, V) == Cardinality(Places(s, V))

LEMMA Shifted ==
  ASSUME NEW P \in SUBSET Int, IsFiniteSet(P), NEW d \in Int
  PROVE  IsFiniteSet({k + d : k \in P}) /\ Cardinality({k + d : k \in P}) = Cardinality(P)
<1> DEFINE Q == {k + d : k \in P}
           f == [k \in P |-> k + d]
<1>1. f \in [P -> Q]
  OBVIOUS
<1>2. \A k, l \in P : f[k] = f[l] => k = l
  OBVIOUS
<1>3. \A y \in Q : \E k \in P : f[k] = y
  OBVIOUS
<1>4. f \in Bijection(P, Q)
  BY <1>1, <1>2, <1>3 DEF Bijection, Injection, Surjection, IsInjective
<1>5. ExistsBijection(P, Q)
  BY <1>4 DEF ExistsBijection
<1> QED BY <1>5, FS_Bijection

LEMMA CountIs ==
  ASSUME NEW S, NEW s \in Seq(S), NEW V
  PROVE  /\ IsFiniteSet(Places(s, V)) /\ Places(s, V) \subseteq Nat /\ Count(s, V) \in Nat
         /\ (\A k \in 1 .. Len(s) : s[k] \notin V) => Count(s, V) = 0
<1>1. Len(s) \in Nat
  BY LenProperties
<1>2. IsFiniteSet(1 .. Len(s))
  BY <1>1, FS_Interval
<1>3. Places(s, V) \in SUBSET (1 .. Len(s))
  BY DEF Places
<1>4. IsFiniteSet(Places(s, V))
  BY <1>2, <1>3, FS_Subset
<1>5. Count(s, V) \in Nat
  BY <1>4, FS_CardinalityType DEF Count
<1>6. ASSUME \A k \in 1 .. Len(s) : s[k] \notin V
      PROVE  Count(s, V) = 0
  <2>1. Places(s, V) = {}
    BY <1>6 DEF Places
  <2> QED BY <2>1, FS_EmptySet DEF Count
<1> QED BY <1>1, <1>3, <1>4, <1>5, <1>6

LEMMA CountTail ==
  ASSUME NEW S, NEW s \in Seq(S), s # <<>>, NEW V
  PROVE  Count(s, V) = Count(Tail(s), V) + (IF s[1] \in V THEN 1 ELSE 0)
<1> DEFINE P == Places(Tail(s), V)
           Q == {k + 1 : k \in P}
<1>1. /\ Tail(s) \in Seq(S) /\ Len(s) \in Nat \ {0} /\ Len(Tail(s)) = Len(s) - 1
      /\ \A k \in 1 .. Len(s) - 1 : Tail(s)[k] = s[k + 1]
  BY HeadOff
<1>2. IsFiniteSet(P) /\ P \subseteq Nat /\ Cardinality(P) \in Nat
  BY <1>1, CountIs DEF Count
<1>3. Q = {k \in 2 .. Len(s) : s[k] \in V}
  <2>1. P = {k \in 1 .. Len(s) - 1 : s[k + 1] \in V}
    BY <1>1 DEF Places
  <2>2. ASSUME NEW k \in 2 .. Len(s), s[k] \in V PROVE k \in Q
    <3>1. k - 1 \in 1 .. Len(s) - 1 /\ k - 1 + 1 = k
      BY <1>1
    <3>2. k - 1 \in P
      BY <2>1, <2>2, <3>1
    <3> QED BY <3>1, <3>2
  <2>3. ASSUME NEW k \in P PROVE k + 1 \in 2 .. Len(s) /\ s[k + 1] \in V
    BY <1>1, <2>1
  <2> QED BY <2>2, <2>3
<1>4. P \in SUBSET Int /\ 1 \in Int
  BY <1>2
<1> HIDE DEF P
<1>5. IsFiniteSet(Q) /\ Cardinality(Q) = Cardinality(P)
  BY <1>2, <1>4, Shifted
<1> HIDE DEF Q
<1>6. CASE s[1] \in V
  <2>1. Places(s, V) = Q \cup {1} /\ 1 \notin Q
    BY <1>1, <1>3, <1>6 DEF Places
  <2>2. Cardinality(Q \cup {1}) = Cardinality(Q) + 1
    BY <1>5, <2>1, FS_AddElement
  <2> QED BY <1>5, <1>6, <2>1, <2>2 DEF Count, P
<1>7. CASE s[1] \notin V
  <2>1. Places(s, V) = Q
    BY <1>1, <1>3, <1>7 DEF Places
  <2> QED BY <1>2, <1>5, <1>7, <2>1 DEF Count, P
<1> QED BY <1>6, <1>7

LEMMA CountCat ==
  ASSUME NEW S, NEW s \in Seq(S), NEW t \in Seq(S), NEW V
  PROVE  Count(s \o t, V) = Count(s, V) + Count(t, V)
<1> DEFINE u == s \o t
           P == Places(s, V)
           T == Places(t, V)
           Q == {k + Len(s) : k \in T}
<1>1. Joins(u, s, t, S)
  BY Cat
<1> HIDE DEF u
<1>2. /\ IsFiniteSet(P) /\ IsFiniteSet(T) /\ T \subseteq Nat
      /\ Cardinality(P) \in Nat /\ Cardinality(T) \in Nat
  BY CountIs DEF Count
<1>3. Len(s) \in Nat /\ Len(t) \in Nat /\ Len(u) = Len(s) + Len(t)
      /\ (\A i \in 1 .. Len(s) : u[i] = s[i]) /\ \A i \in 1 .. Len(t) : u[Len(s) + i] = t[i]
  BY <1>1 DEF Joins
<1>4. Places(u, V) = P \cup Q /\ P \cap Q = {}
  <2>1. ASSUME NEW k \in Places(u, V), k \notin P PROVE k \in Q
    <3>1. k \in 1 .. Len(s) + Len(t) /\ u[k] \in V
      BY <1>3 DEF Places
    <3>2. k \notin 1 .. Len(s)
      BY <1>3, <2>1, <3>1 DEF Places
    <3>3. k - Len(s) \in 1 .. Len(t) /\ Len(s) + (k - Len(s)) = k /\ (k - Len(s)) + Len(s) = k
      BY <1>3, <3>1, <3>2
    <3>4. k - Len(s) \in T
      BY <1>3, <3>1, <3>3 DEF Places
    <3> QED BY <3>3, <3>4
  <2>2. P \subseteq Places(u, V)
    BY <1>3 DEF Places
  <2>3. ASSUME NEW k \in T PROVE k + Len(s) \in Places(u, V) /\ k + Len(s) \notin P
    <3>1. k \in 1 .. Len(t) /\ t[k] \in V
      BY DEF Places
    <3>2. k + Len(s) = Len(s) + k /\ k + Len(s) \in 1 .. Len(u) /\ k + Len(s) \notin 1 .. Len(s)
      BY <1>3, <3>1
    <3> QED BY <1>3, <3>1, <3>2 DEF Places
  <2> QED BY <2>1, <2>2, <2>3
<1>5. T \in SUBSET Int /\ Len(s) \in Int
  BY <1>2, <1>3
<1> HIDE DEF P, T
<1>6. IsFiniteSet(Q) /\ Cardinality(Q) = Cardinality(T)
  BY <1>2, <1>5, Shifted
<1> HIDE DEF Q
<1>7. Cardinality(P \cup Q) = Cardinality(P) + Cardinality(Q) - Cardinality(P \cap Q)
  BY <1>2, <1>6, FS_Union
<1>8. Cardinality(P \cap Q) = 0
  BY <1>4, FS_EmptySet
<1>9. Cardinality(P \cup Q) = Cardinality(P) + Cardinality(T)
  BY <1>2, <1>6, <1>7, <1>8
<1> QED BY <1>4, <1>9 DEF Count, P, T, u

LEMMA CountGarbled ==
  ASSUME NEW S, NEW s, NEW t, NEW m, Garbles(s, t, m, S), NEW V
  PROVE  Count(t, V) = Count(s, V) - (IF s[1] \in V THEN 1 ELSE 0) + (IF m \in V THEN 1 ELSE 0)
<1>1. s \in Seq(S) /\ t \in Seq(S) /\ s # <<>> /\ t # <<>> /\ t[1] = m /\ Len(t) = Len(s) /\ Len(s) \in Nat \ {0}
  BY EmptySeq DEF Garbles
<1>2. Tail(s) = Tail(t)
  <2>1. /\ Tail(s) \in Seq(S) /\ Tail(t) \in Seq(S) /\ Len(Tail(s)) = Len(s) - 1 /\ Len(Tail(t)) = Len(s) - 1
        /\ \A k \in 1 .. Len(s) - 1 : Tail(s)[k] = s[k + 1]
        /\ \A k \in 1 .. Len(s) - 1 : Tail(t)[k] = t[k + 1]
    BY <1>1, HeadOff
  <2>2. \A k \in 1 .. Len(s) - 1 : k + 1 \in 2 .. Len(s)
    BY <1>1
  <2>3. \A k \in 1 .. Len(s) - 1 : s[k + 1] = t[k + 1]
    BY <2>2 DEF Garbles
  <2>4. \A k \in 1 .. Len(Tail(s)) : Tail(s)[k] = Tail(t)[k]
    BY <2>1, <2>3
  <2> QED BY <2>1, <2>4, SeqEqual
<1>3. Count(s, V) = Count(Tail(s), V) + (IF s[1] \in V THEN 1 ELSE 0)
  BY <1>1, CountTail
<1>4. Count(t, V) = Count(Tail(s), V) + (IF m \in V THEN 1 ELSE 0)
  BY <1>1, <1>2, CountTail
<1>5. Count(Tail(s), V) \in Nat
  BY <1>1, HeadOff, CountIs
<1> QED BY <1>3, <1>4, <1>5

----------------------------------------------------------------------------
(* Packets that are on the line to the stub *)

\* The packets that the stub, when it is at t, has not begun with: each begins with a $,
\* but a stub that does not hunt for one takes it for something else when it is next.
Head1(t, s) == IF t # "hunt" /\ s # <<>> /\ s[1] = Dollar THEN 1 ELSE 0
Unbegun(t, s) == Count(s, {Dollar}) - Head1(t, s)

\* One of them that is whole, and is not too long.
WholeAt(t, s, j, k) ==
  /\ s[j] = Dollar /\ (t = "hunt" \/ j # 1) /\ s[k] = Hash /\ j < k /\ k - j <= BUFMAX
Whole(t, s) == \E j \in 1 .. Len(s), k \in 1 .. Len(s) - 2 : WholeAt(t, s, j, k)

LEMMA UnbegunIs ==
  ASSUME NEW s \in Seq(Char), NEW t
  PROVE  /\ Unbegun(t, s) \in Nat /\ Unbegun(t, s) <= Count(s, {Dollar}) /\ Count(s, {Dollar}) \in Nat
         /\ t = "hunt" => Unbegun(t, s) = Count(s, {Dollar})
         /\ s = <<>> => Unbegun(t, s) = 0 /\ Count(s, {Dollar}) = 0 /\ ~ Whole(t, s)
<1>1. Count(s, {Dollar}) \in Nat
  BY CountIs
<1>2. ASSUME s = <<>> PROVE Count(s, {Dollar}) = 0 /\ ~ Whole(t, s)
  <2>1. Len(s) = 0
    BY <1>2
  <2>2. \A k \in 1 .. Len(s) : s[k] \notin {Dollar}
    BY <2>1
  <2>3. Count(s, {Dollar}) = 0
    BY <2>2, CountIs
  <2> QED BY <2>1, <2>3 DEF Whole
<1>3. Head1(t, s) \in 0 .. 1
  BY DEF Head1
<1>4. ASSUME Head1(t, s) = 1 PROVE Count(s, {Dollar}) # 0
  <2>1. s # <<>> /\ s[1] \in {Dollar}
    BY <1>4 DEF Head1
  <2>2. Count(s, {Dollar}) = Count(Tail(s), {Dollar}) + 1 /\ Tail(s) \in Seq(Char)
    BY <2>1, CountTail, HeadOff
  <2>3. Count(Tail(s), {Dollar}) \in Nat
    BY <2>2, CountIs
  <2> QED BY <2>2, <2>3
<1> QED BY <1>1, <1>2, <1>3, <1>4 DEF Unbegun, Head1

\* A character is taken off the line.
LEMMA UnbegunTail ==
  ASSUME NEW s \in Seq(Char), s # <<>>, NEW t, NEW u
  PROVE  /\ Unbegun(t, s) = Count(Tail(s), {Dollar}) + (IF t = "hunt" /\ s[1] = Dollar THEN 1 ELSE 0)
         /\ Unbegun(u, Tail(s)) <= Count(Tail(s), {Dollar})
         /\ Whole(t, s) =>
              \/ Whole(u, Tail(s))
              \/ Unbegun(u, Tail(s)) + 1 <= Count(Tail(s), {Dollar})
              \/ /\ t = "hunt" /\ s[1] = Dollar
                 /\ \E k \in 1 .. Len(Tail(s)) - 2 : Tail(s)[k] = Hash /\ k <= BUFMAX
<1> DEFINE r == Tail(s)
           n == Len(s)
<1>1. r \in Seq(Char) /\ n \in Nat \ {0} /\ Len(r) = n - 1 /\ \A k \in 1 .. n - 1 : r[k] = s[k + 1]
  BY HeadOff
<1>2. Count(s, {Dollar}) = Count(r, {Dollar}) + (IF s[1] \in {Dollar} THEN 1 ELSE 0)
  BY CountTail
<1>3. Count(r, {Dollar}) \in Nat /\ Unbegun(u, r) <= Count(r, {Dollar})
  BY <1>1, UnbegunIs
<1>4. Unbegun(t, s) = Count(r, {Dollar}) + (IF t = "hunt" /\ s[1] = Dollar THEN 1 ELSE 0)
  BY <1>2, <1>3 DEF Unbegun, Head1
<1> HIDE DEF r
<1>5. ASSUME NEW j \in 1 .. n, NEW k \in 1 .. n - 2, WholeAt(t, s, j, k)
      PROVE  \/ Whole(u, r)
             \/ Unbegun(u, r) + 1 <= Count(r, {Dollar})
             \/ t = "hunt" /\ s[1] = Dollar /\ \E l \in 1 .. Len(r) - 2 : r[l] = Hash /\ l <= BUFMAX
  <2>1. s[j] = Dollar /\ (t = "hunt" \/ j # 1) /\ s[k] = Hash /\ j < k /\ k - j <= BUFMAX /\ BUFMAX \in Nat
    BY <1>5, Constants DEF WholeAt
  <2>2. k - 1 \in 1 .. Len(r) - 2 /\ k - 1 \in 1 .. n - 1 /\ (k - 1) + 1 = k
    BY <1>1, <2>1
  <2>3. r[k - 1] = Hash
    BY <1>1, <2>1, <2>2
  <2>4. CASE j = 1
    <3>1. k - 1 <= BUFMAX
      BY <2>1, <2>4
    <3> QED BY <2>1, <2>2, <2>3, <2>4, <3>1
  <2>5. CASE j # 1
    <3>1. j - 1 \in 1 .. Len(r) /\ j - 1 \in 1 .. n - 1 /\ (j - 1) + 1 = j
      BY <1>1, <2>5
    <3>2. r[j - 1] = Dollar
      BY <1>1, <2>1, <3>1
    <3>3. j - 1 < k - 1 /\ (k - 1) - (j - 1) <= BUFMAX
      BY <2>1
    <3>4. CASE u = "hunt" \/ j - 1 # 1
      <4>1. WholeAt(u, r, j - 1, k - 1)
        BY <2>3, <3>2, <3>3, <3>4 DEF WholeAt
      <4> QED BY <2>2, <3>1, <4>1 DEF Whole
    <3>5. CASE u # "hunt" /\ j - 1 = 1
      <4>1. r # <<>> /\ r[1] = Dollar
        BY <1>1, <3>1, <3>2, <3>5, EmptySeq
      <4>2. Head1(u, r) = 1
        BY <3>5, <4>1 DEF Head1
      <4> QED BY <1>3, <4>2 DEF Unbegun
    <3> QED BY <3>4, <3>5
  <2> QED BY <2>4, <2>5
<1>6. Whole(t, s) =>
        \/ Whole(u, r)
        \/ Unbegun(u, r) + 1 <= Count(r, {Dollar})
        \/ t = "hunt" /\ s[1] = Dollar /\ \E l \in 1 .. Len(r) - 2 : r[l] = Hash /\ l <= BUFMAX
  BY <1>5 DEF Whole
<1> QED BY <1>3, <1>4, <1>6 DEF r

\* Something is sent.
LEMMA UnbegunCat ==
  ASSUME NEW s \in Seq(Char), NEW z \in Seq(Char), NEW t
  PROVE  /\ Unbegun(t, s \o z) <= Unbegun(t, s) + Count(z, {Dollar})
         /\ Whole(t, s) => Whole(t, s \o z)
         /\ s = <<>> /\ t # "hunt" /\ z # <<>> /\ z[1] = Dollar => Unbegun(t, s \o z) + 1 = Count(z, {Dollar})
<1> DEFINE u == s \o z
<1>1. Joins(u, s, z, Char)
  BY Cat
<1>2. Count(u, {Dollar}) = Count(s, {Dollar}) + Count(z, {Dollar})
  BY CountCat
<1> HIDE DEF u
<1>3. Count(s, {Dollar}) \in Nat /\ Count(z, {Dollar}) \in Nat
  BY CountIs
<1>4. Len(s) \in Nat /\ Len(z) \in Nat /\ Len(u) = Len(s) + Len(z) /\ u \in Seq(Char)
      /\ \A i \in 1 .. Len(s) : u[i] = s[i]
  BY <1>1 DEF Joins
<1>5. Head1(t, s) <= Head1(t, u)
  <2>1. CASE s # <<>>
    <3>1. 1 \in 1 .. Len(s) /\ u # <<>>
      BY <1>4, <2>1, EmptySeq
    <3>2. u[1] = s[1]
      BY <1>4, <3>1
    <3> QED BY <3>1, <3>2 DEF Head1
  <2>2. CASE s = <<>>
    BY <2>2 DEF Head1
  <2> QED BY <2>1, <2>2
<1>6. Unbegun(t, u) <= Unbegun(t, s) + Count(z, {Dollar})
  BY <1>2, <1>3, <1>5 DEF Unbegun, Head1
<1>7. Whole(t, s) => Whole(t, u)
  <2>1. ASSUME NEW j \in 1 .. Len(s), NEW k \in 1 .. Len(s) - 2, WholeAt(t, s, j, k)
        PROVE  Whole(t, u)
    <3>1. j \in 1 .. Len(u) /\ k \in 1 .. Len(u) - 2 /\ u[j] = s[j] /\ u[k] = s[k]
      BY <1>4
    <3>2. WholeAt(t, u, j, k)
      BY <2>1, <3>1 DEF WholeAt
    <3> QED BY <3>1, <3>2 DEF Whole
  <2> QED BY <2>1 DEF Whole
<1>8. ASSUME s = <<>>, t # "hunt", z # <<>>, z[1] = Dollar
      PROVE  Unbegun(t, u) + 1 = Count(z, {Dollar})
  <2>1. u = z
    BY <1>8, ConcatEmptySeq DEF u
  <2>2. Head1(t, u) = 1
    BY <1>8, <2>1 DEF Head1
  <2> QED BY <1>3, <2>1, <2>2 DEF Unbegun
<1> QED BY <1>6, <1>7, <1>8 DEF u

LEMMA PacketDollars ==
  ASSUME NEW j \in 1 .. Len(Requests)
  PROVE  /\ PacketOf(j) \in Seq(Char) /\ PacketOf(j) # <<>> /\ PacketOf(j)[1] = Dollar
         /\ Count(PacketOf(j), {Dollar}) = 1
         /\ \E n \in 1 .. BUFMAX : n + 1 \in 1 .. Len(PacketOf(j)) - 2 /\ PacketOf(j)[n + 1] = Hash
<1> DEFINE e == PacketOf(j)
           t == TextOf(j)
           n == Len(t)
<1>1. IsPacket(e, t) /\ n \in Nat
  BY PacketIs
<1>2. t \in Seq(Plain) /\ n < BUFMAX
  BY TextIs, Constants
<1>3. BUFMAX \in Nat
  BY Constants
<1> HIDE DEF e, t
<1>4. e \in Seq(Char) /\ Len(e) = n + 4 /\ e # <<>> /\ e[1] = Dollar
  BY <1>1, EmptySeq DEF IsPacket
<1> Dollar \notin HexChar
  BY DEF HexChar, Dollar
<1>5. ASSUME NEW k \in 1 .. n + 3 PROVE e[k + 1] # Dollar
  <2>1. CASE k \in 1 .. n
    <3>1. e[k + 1] = t[k] /\ t[k] \in Plain
      BY <1>1, <1>2, <2>1 DEF IsPacket
    <3> QED BY <3>1 DEF Plain, Dollar
  <2>2. CASE k = n + 1
    <3>1. k + 1 = n + 2
      BY <1>1, <2>2
    <3> QED BY <1>1, <3>1 DEF IsPacket, Hash, Dollar
  <2>3. CASE k = n + 2
    <3>1. k + 1 = n + 3
      BY <1>1, <2>3
    <3> QED BY <1>1, <3>1 DEF IsPacket
  <2>4. CASE k = n + 3
    <3>1. k + 1 = n + 4
      BY <1>1, <2>4
    <3> QED BY <1>1, <3>1 DEF IsPacket
  <2> QED BY <1>1, <2>1, <2>2, <2>3, <2>4
<1>6. /\ Tail(e) \in Seq(Char) /\ Len(Tail(e)) = Len(e) - 1
      /\ \A k \in 1 .. Len(e) - 1 : Tail(e)[k] = e[k + 1]
  BY <1>4, HeadOff
<1>7. \A k \in 1 .. Len(Tail(e)) : Tail(e)[k] \notin {Dollar}
  <2>1. Len(e) - 1 = n + 3
    BY <1>1, <1>4
  <2> QED BY <1>5, <1>6, <2>1
<1>8. Count(Tail(e), {Dollar}) = 0
  BY <1>6, <1>7, CountIs
<1>9. Count(e, {Dollar}) = 1
  BY <1>4, <1>8, CountTail
<1>10. n + 1 \in 1 .. BUFMAX /\ (n + 1) + 1 = n + 2 /\ n + 2 \in 1 .. Len(e) - 2 /\ e[n + 2] = Hash
  BY <1>1, <1>2, <1>3, <1>4 DEF IsPacket
<1> QED BY <1>4, <1>9, <1>10 DEF e

\* A packet is sent: it is whole, unless the stub takes its $ for something else.
LEMMA UnbegunPacket ==
  ASSUME NEW s \in Seq(Char), NEW t, NEW j \in 1 .. Len(Requests)
  PROVE  /\ Unbegun(t, s \o PacketOf(j)) <= Unbegun(t, s) + 1
         /\ s = <<>> /\ t # "hunt" => Unbegun(t, s \o PacketOf(j)) <= Unbegun(t, s)
         /\ s # <<>> \/ t = "hunt" => Whole(t, s \o PacketOf(j))
         /\ Unbegun(t, s \o (<<Plus>> \o PacketOf(j))) <= Unbegun(t, s) + 1
         /\ Whole(t, s \o (<<Plus>> \o PacketOf(j)))
<1> DEFINE e == PacketOf(j)
           x == <<Plus>> \o e
<1>1. e \in Seq(Char) /\ e # <<>> /\ e[1] = Dollar /\ Count(e, {Dollar}) = 1
  BY PacketDollars
<1>2. PICK n \in 1 .. BUFMAX : n + 1 \in 1 .. Len(e) - 2 /\ e[n + 1] = Hash
  BY PacketDollars
<1> HIDE DEF e
<1>3. Len(e) \in Nat /\ Len(s) \in Nat /\ BUFMAX \in Nat /\ 1 \in 1 .. Len(e) /\ n \in Nat
  BY <1>1, <1>2, EmptySeq, LenProperties, Constants
<1>4. Unbegun(t, s) \in Nat /\ (s = <<>> => Unbegun(t, s) = 0)
  BY UnbegunIs
<1>5. /\ Unbegun(t, s \o e) <= Unbegun(t, s) + 1
      /\ s = <<>> /\ t # "hunt" => Unbegun(t, s \o e) + 1 = 1
  BY <1>1, UnbegunCat
<1>6. Unbegun(t, s \o e) \in Nat
  BY <1>1, UnbegunIs, ConcatProperties
<1>7. ASSUME s # <<>> \/ t = "hunt" PROVE Whole(t, s \o e)
  <2>1. Joins(s \o e, s, e, Char)
    BY <1>1, Cat
  <2>2. (s \o e)[Len(s) + 1] = Dollar /\ (s \o e)[Len(s) + (n + 1)] = Hash /\ Len(s \o e) = Len(s) + Len(e)
    BY <1>1, <1>2, <1>3, <2>1 DEF Joins
  <2>3. /\ Len(s) + 1 \in 1 .. Len(s \o e) /\ Len(s) + (n + 1) \in 1 .. Len(s \o e) - 2
        /\ Len(s) + 1 < Len(s) + (n + 1) /\ (Len(s) + (n + 1)) - (Len(s) + 1) <= BUFMAX
    BY <1>2, <1>3, <2>2
  <2>4. t = "hunt" \/ Len(s) + 1 # 1
    BY <1>3, <1>7, EmptySeq
  <2>5. WholeAt(t, s \o e, Len(s) + 1, Len(s) + (n + 1))
    BY <2>2, <2>3, <2>4 DEF WholeAt
  <2> QED BY <2>3, <2>5 DEF Whole
<1>8. <<Plus>> \in Seq(Char) /\ Len(<<Plus>>) = 1 /\ x \in Seq(Char)
  BY <1>1, MessagesTyped, ConcatProperties
<1>9. Count(x, {Dollar}) = 1
  <2>1. Count(<<Plus>>, {Dollar}) = 0
    <3>1. \A k \in 1 .. Len(<<Plus>>) : <<Plus>>[k] \notin {Dollar}
      BY DEF Plus, Dollar
    <3> QED BY <1>8, <3>1, CountIs
  <2> DEFINE p == <<Plus>>
  <2>2. p \in Seq(Char)
    BY <1>8
  <2> HIDE DEF p
  <2>3. Count(p \o e, {Dollar}) = Count(p, {Dollar}) + Count(e, {Dollar})
    BY <1>1, <2>2, CountCat
  <2> QED BY <1>1, <2>1, <2>3 DEF p
<1>10. Unbegun(t, s \o x) <= Unbegun(t, s) + 1
  BY <1>8, <1>9, UnbegunCat
<1>11. Whole(t, s \o x)
  <2> DEFINE u == s \o x
  <2>1. Joins(x, <<Plus>>, e, Char) /\ Joins(u, s, x, Char)
    BY <1>1, <1>8, Cat
  <2>2. Len(x) = 1 + Len(e) /\ x[1 + 1] = Dollar /\ x[1 + (n + 1)] = Hash
    BY <1>1, <1>2, <1>3, <1>8, <2>1 DEF Joins
  <2> HIDE DEF x
  <2>3. 1 + 1 \in 1 .. Len(x) /\ 1 + (n + 1) \in 1 .. Len(x)
    BY <1>2, <1>3, <2>2
  <2>4. Len(u) = Len(s) + Len(x) /\ u[Len(s) + (1 + 1)] = Dollar /\ u[Len(s) + (1 + (n + 1))] = Hash
    BY <2>1, <2>2, <2>3 DEF Joins
  <2> HIDE DEF u
  <2>5. /\ Len(s) + (1 + 1) \in 1 .. Len(u) /\ Len(s) + (1 + (n + 1)) \in 1 .. Len(u) - 2
        /\ Len(s) + (1 + 1) < Len(s) + (1 + (n + 1)) /\ (Len(s) + (1 + (n + 1))) - (Len(s) + (1 + 1)) <= BUFMAX
        /\ Len(s) + (1 + 1) # 1
    BY <1>2, <1>3, <2>2, <2>4
  <2>6. WholeAt(t, u, Len(s) + (1 + 1), Len(s) + (1 + (n + 1)))
    BY <2>4, <2>5 DEF WholeAt
  <2>7. Whole(t, u)
    BY <2>5, <2>6 DEF Whole
  <2> QED BY <2>7 DEF u
<1> QED BY <1>4, <1>5, <1>6, <1>7, <1>10, <1>11 DEF e

----------------------------------------------------------------------------
(* Each time a command is run again there was an error *)

Naks == {m \in Message : m.kind = "nak"}
Answered(h) == \E i \in 1 .. Len(h) : h[i].kind \in {"ack", "nak"}

LEMMA Said ==
  ASSUME NEW h \in Seq(Message), NEW z \in Seq(Message)
  PROVE  /\ Count(h \o z, Naks) = Count(h, Naks) + Count(z, Naks)
         /\ Count(h, Naks) \in Nat /\ Count(z, Naks) \in Nat
         /\ Answered(h) \/ Answered(z) => Answered(h \o z)
<1>1. Count(h \o z, Naks) = Count(h, Naks) + Count(z, Naks)
  BY CountCat
<1>2. Count(h, Naks) \in Nat /\ Count(z, Naks) \in Nat
  BY CountIs
<1>3. Joins(h \o z, h, z, Message)
  BY Cat
<1>4. ASSUME NEW i \in 1 .. Len(h), h[i].kind \in {"ack", "nak"} PROVE Answered(h \o z)
  <2>1. i \in 1 .. Len(h \o z) /\ (h \o z)[i] = h[i]
    BY <1>3 DEF Joins
  <2> QED BY <1>4, <2>1 DEF Answered
<1>5. ASSUME NEW i \in 1 .. Len(z), z[i].kind \in {"ack", "nak"} PROVE Answered(h \o z)
  <2>1. Len(h) + i \in 1 .. Len(h \o z) /\ (h \o z)[Len(h) + i] = z[i]
    BY <1>3 DEF Joins
  <2> QED BY <1>5, <2>1 DEF Answered
<1> QED BY <1>1, <1>2, <1>4, <1>5 DEF Answered

LEMMA OneSaid ==
  ASSUME NEW m \in Message
  PROVE  /\ <<m>> \in Seq(Message)
         /\ Count(<<m>>, Naks) = IF m.kind = "nak" THEN 1 ELSE 0
         /\ m.kind \in {"ack", "nak"} => Answered(<<m>>)
<1> DEFINE q == <<m>>
<1>1. q \in Seq(Message) /\ q # <<>> /\ q[1] = m /\ Len(q) = 1 /\ Tail(q) = <<>>
  OBVIOUS
<1> HIDE DEF q
<1>2. Count(Tail(q), Naks) = 0
  <2>1. Tail(q) \in Seq(Message) /\ \A k \in 1 .. Len(Tail(q)) : Tail(q)[k] \notin Naks
    BY <1>1
  <2> QED BY <2>1, CountIs
<1>3. Count(q, Naks) = IF m \in Naks THEN 1 ELSE 0
  BY <1>1, <1>2, CountTail
<1>4. m \in Naks <=> m.kind = "nak"
  BY DEF Naks
<1>5. m.kind \in {"ack", "nak"} => Answered(q)
  <2>1. 1 \in 1 .. Len(q)
    BY <1>1
  <2> QED BY <1>1, <2>1 DEF Answered
<1> QED BY <1>1, <1>3, <1>4, <1>5 DEF q

LEMMA WhatIsSaid ==
  /\ Count(<<Nak>>, Naks) = 1 /\ Answered(<<Nak>>) /\ <<Nak>> \in Seq(Message)
  /\ \A p \in Seq(Char) :
       /\ <<Sent(p)>> \in Seq(Message) /\ Count(<<Sent(p)>>, Naks) = 0
       /\ <<Ack>> \o <<Sent(p)>> \in Seq(Message) /\ Count(<<Ack>> \o <<Sent(p)>>, Naks) = 0
       /\ Answered(<<Ack>> \o <<Sent(p)>>)
<1>1. Nak \in Message /\ Ack \in Message /\ Nak.kind = "nak" /\ Ack.kind = "ack"
  BY MessagesTyped DEF Nak, Ack
<1>2. Count(<<Nak>>, Naks) = 1 /\ Answered(<<Nak>>) /\ <<Nak>> \in Seq(Message)
  BY <1>1, OneSaid
<1>3. ASSUME NEW p \in Seq(Char)
      PROVE  /\ <<Sent(p)>> \in Seq(Message) /\ Count(<<Sent(p)>>, Naks) = 0
             /\ <<Ack>> \o <<Sent(p)>> \in Seq(Message) /\ Count(<<Ack>> \o <<Sent(p)>>, Naks) = 0
             /\ Answered(<<Ack>> \o <<Sent(p)>>)
  <2>1. Sent(p) \in Message /\ Sent(p).kind = "good"
    BY MessagesTyped
  <2> DEFINE a == <<Ack>>
             z == <<Sent(p)>>
  <2>2. z \in Seq(Message) /\ Count(z, Naks) = 0
    BY <2>1, OneSaid
  <2>3. a \in Seq(Message) /\ Count(a, Naks) = 0 /\ Answered(a)
    BY <1>1, OneSaid
  <2> HIDE DEF a, z
  <2>4. a \o z \in Seq(Message)
    BY <2>2, <2>3, ConcatProperties
  <2>5. Count(a \o z, Naks) = 0 /\ Answered(a \o z)
    BY <2>2, <2>3, Said
  <2> QED BY <2>2, <2>4, <2>5 DEF a, z
<1> QED BY <1>2, <1>3

\* The commands that were run, and those that may be: a packet the stub is reading, the
\* ones it has not begun with, and those that a - on its way to the host will bring.
Begun(t) == IF t \in {"data", "sum1", "sum2"} THEN 1 ELSE 0
Runnable == Len(ran) + Begun(ts) + Unbegun(ts, toStub) + Count(toHost, Naks)

\* The host will hear of one of them by itself.
Fits(t, n, s) == t = "data" /\ \E k \in 1 .. Len(s) - 2 : s[k] = Hash /\ n + k <= BUFMAX
Going(t, n, s) ==
  \/ Whole(t, s) \/ Fits(t, n, s)
  \/ t = "sum1" /\ Len(s) >= 2
  \/ t = "sum2" /\ Len(s) >= 1
Live == Going(ts, count, toStub) \/ Answered(toHost)

\* Where the host awaits an acknowledgement that cannot come any more, it will send the
\* command again: for that there is room.
Room ==
  /\ Runnable <= next + errors
  /\ hs = "acked" /\ ~ Live => Runnable + 1 <= next + errors

LEMMA RunnableIs ==
  ASSUME Typed
  PROVE  /\ Len(ran) \in Nat /\ Begun(ts) \in 0 .. 1 /\ Unbegun(ts, toStub) \in Nat
         /\ Count(toHost, Naks) \in Nat /\ Runnable \in Nat /\ next \in Nat /\ errors \in Nat
<1>1. ran \in Seq(Seq(Char)) /\ toStub \in Seq(Char) /\ toHost \in Seq(Message)
      /\ next \in Nat /\ errors \in Nat
  BY DEF Typed
<1>2. Len(ran) \in Nat /\ Unbegun(ts, toStub) \in Nat /\ Count(toHost, Naks) \in Nat
  BY <1>1, LenProperties, UnbegunIs, CountIs
<1>3. Begun(ts) \in 0 .. 1
  BY DEF Begun
<1> QED BY <1>1, <1>2, <1>3 DEF Runnable

LEMMA RunnableLater ==
  ASSUME Typed'
  PROVE  Runnable' \in Nat
<1>1. ran' \in Seq(Seq(Char)) /\ toStub' \in Seq(Char) /\ toHost' \in Seq(Message)
  BY DEF Typed
<1>2. Len(ran') \in Nat /\ Unbegun(ts', toStub') \in Nat /\ Count(toHost', Naks) \in Nat
  BY <1>1, LenProperties, UnbegunIs, CountIs
<1>3. Begun(ts') \in 0 .. 1
  BY DEF Begun
<1> QED BY <1>2, <1>3 DEF Runnable

\* A packet that is taken was there, and so was one that is refused.
LEMMA StubKeepsRoom ==
  ASSUME Typed, Typed', GetChar
  PROVE  Runnable' <= Runnable /\ (Live => Live' \/ Runnable' + 1 <= Runnable)
<1> DEFINE c == Head(toStub)
           r == Tail(toStub)
           d == Count(r, {Dollar})
           l == Len(toStub)
<1>1. toStub \in Seq(Char) /\ toStub # <<>> /\ toStub' = r /\ toHost \in Seq(Message)
  BY DEF GetChar, Typed
<1>2. /\ c \in Char /\ c = toStub[1] /\ r \in Seq(Char) /\ l \in Nat \ {0} /\ Len(r) = l - 1
      /\ \A k \in 1 .. l - 1 : r[k] = toStub[k + 1]
  BY <1>1, HeadOff
<1>3. /\ Unbegun(ts, toStub) = d + (IF ts = "hunt" /\ c = Dollar THEN 1 ELSE 0)
      /\ Unbegun(ts', toStub') <= d
      /\ Whole(ts, toStub) =>
           \/ Whole(ts', toStub')
           \/ Unbegun(ts', toStub') + 1 <= d
           \/ ts = "hunt" /\ c = Dollar /\ \E k \in 1 .. Len(r) - 2 : r[k] = Hash /\ k <= BUFMAX
  <2>1. \A u : /\ Unbegun(ts, toStub) = d + (IF ts = "hunt" /\ toStub[1] = Dollar THEN 1 ELSE 0)
               /\ Unbegun(u, r) <= d
               /\ Whole(ts, toStub) =>
                    \/ Whole(u, r)
                    \/ Unbegun(u, r) + 1 <= d
                    \/ ts = "hunt" /\ toStub[1] = Dollar /\ \E k \in 1 .. Len(r) - 2 : r[k] = Hash /\ k <= BUFMAX
    BY <1>1, UnbegunTail
  <2> QED BY <1>1, <1>2, <2>1
<1>4. /\ Len(ran) \in Nat /\ Begun(ts) \in 0 .. 1 /\ Unbegun(ts, toStub) \in Nat /\ Count(toHost, Naks) \in Nat
      /\ Runnable = Len(ran) + Begun(ts) + Unbegun(ts, toStub) + Count(toHost, Naks)
  BY RunnableIs DEF Runnable
<1>5. /\ Len(ran') \in Nat /\ Begun(ts') \in 0 .. 1 /\ Unbegun(ts', toStub') \in Nat /\ Count(toHost', Naks) \in Nat
      /\ Runnable' = Len(ran') + Begun(ts') + Unbegun(ts', toStub') + Count(toHost', Naks)
  <2>1. ran' \in Seq(Seq(Char)) /\ toStub' \in Seq(Char) /\ toHost' \in Seq(Message)
    BY DEF Typed
  <2>2. Len(ran') \in Nat /\ Unbegun(ts', toStub') \in Nat /\ Count(toHost', Naks) \in Nat
    BY <2>1, LenProperties, UnbegunIs, CountIs
  <2>3. Begun(ts') \in 0 .. 1
    BY DEF Begun
  <2> QED BY <2>2, <2>3 DEF Runnable
<1>6. d \in Nat /\ count \in Nat /\ BUFMAX \in Nat
  <2>1. d \in Nat
    BY <1>2, CountIs
  <2>2. count \in Nat /\ BUFMAX \in Nat
    BY Constants DEF Typed
  <2> QED BY <2>1, <2>2
<1>7. /\ Live <=> \/ Whole(ts, toStub)
                  \/ Fits(ts, count, toStub)
                  \/ ts = "sum1" /\ l >= 2
                  \/ ts = "sum2" /\ l >= 1
                  \/ Answered(toHost)
      /\ Live' <=> \/ Whole(ts', toStub')
                   \/ Fits(ts', count', toStub')
                   \/ ts' = "sum1" /\ Len(r) >= 2
                   \/ ts' = "sum2" /\ Len(r) >= 1
                   \/ Answered(toHost')
  BY <1>1 DEF Live, Going
<1> HIDE DEF d, l
<1>8. \A z \in Seq(Message) : \A q :
        q = toHost \o z => /\ Count(q, Naks) = Count(toHost, Naks) + Count(z, Naks)
                           /\ Answered(toHost) \/ Answered(z) => Answered(q)
  BY <1>1, Said
<1>9. CASE Hunt(c)
  <2>1. ts = "hunt" /\ ts' = (IF c = Dollar THEN "data" ELSE "hunt") /\ count' = 0
        /\ ran' = ran /\ toHost' = toHost
    BY <1>9 DEF Hunt, target
  <2>2. Begun(ts) = 0 /\ Begun(ts') = IF c = Dollar THEN 1 ELSE 0
    BY <2>1 DEF Begun
  <2>3. Runnable' <= Runnable
    BY <1>3, <1>4, <1>5, <1>6, <2>1, <2>2
  <2>4. ASSUME c = Dollar, \E k \in 1 .. Len(r) - 2 : r[k] = Hash /\ k <= BUFMAX
        PROVE  Live'
    <3>1. PICK k \in 1 .. Len(r) - 2 : r[k] = Hash /\ k <= BUFMAX
      BY <2>4
    <3>2. 0 + k <= BUFMAX
      BY <1>2, <3>1
    <3>3. Fits(ts', count', toStub')
      BY <1>1, <2>1, <2>4, <3>1, <3>2 DEF Fits
    <3> QED BY <1>7, <3>3
  <2>5. ASSUME Live PROVE Live' \/ Runnable' + 1 <= Runnable
    <3>1. Whole(ts, toStub) \/ Answered(toHost')
      BY <1>7, <2>1, <2>5 DEF Fits
    <3>2. CASE Unbegun(ts', toStub') + 1 <= d
      BY <1>3, <1>4, <1>5, <1>6, <2>1, <2>2, <3>2
    <3> QED BY <1>3, <1>7, <2>4, <3>1, <3>2
  <2> QED BY <2>3, <2>5
<1>10. ASSUME ts \in {"data", "sum1", "sum2", "ack"}
       PROVE  /\ Unbegun(ts, toStub) = d
              /\ Whole(ts, toStub) => Whole(ts', toStub') \/ Unbegun(ts', toStub') + 1 <= d
  BY <1>3, <1>6, <1>10
<1> DEFINE x == Len(ran) + Begun(ts) + Count(toHost, Naks)
           y == Len(ran') + Begun(ts') + Count(toHost', Naks)
<1>15. ASSUME ts \in {"data", "sum1", "sum2", "ack"}, y <= x, Live => Whole(ts, toStub) \/ Live'
       PROVE  Runnable' <= Runnable /\ (Live => Live' \/ Runnable' + 1 <= Runnable)
  <2>1. x \in Nat /\ y \in Nat /\ Runnable = x + d /\ Runnable' = y + Unbegun(ts', toStub')
    <3>1. Unbegun(ts, toStub) = d
      BY <1>10, <1>15
    <3>2. x \in Nat /\ Runnable = x + d
      BY <1>4, <1>6, <3>1
    <3>3. y \in Nat /\ Runnable' = y + Unbegun(ts', toStub')
      BY <1>5
    <3> QED BY <3>2, <3>3
  <2>2. Unbegun(ts', toStub') \in Nat /\ Unbegun(ts', toStub') <= d
    BY <1>3, <1>5
  <2> HIDE DEF x, y
  <2>3. Runnable' <= Runnable
    BY <1>6, <1>15, <2>1, <2>2
  <2>4. Unbegun(ts', toStub') + 1 <= d => Runnable' + 1 <= Runnable
    BY <1>6, <1>15, <2>1, <2>2
  <2> QED BY <1>7, <1>10, <1>15, <2>3, <2>4
<1>11. CASE Data(c)
  <2>1. ts = "data" /\ Begun(ts) = 1
    BY <1>11 DEF Data, Begun
  <2>2. CASE c = Hash
    <3>1. ts' = "sum1" /\ ran' = ran /\ toHost' = toHost
      BY <1>11, <2>2 DEF Data, target
    <3>2. Begun(ts') = 1
      BY <3>1 DEF Begun
    <3>3. Fits(ts, count, toStub) => Len(r) >= 2
      BY <1>2 DEF Fits, l
    <3>4. y <= x
      BY <1>4, <2>1, <3>1, <3>2
    <3>5. Live => Whole(ts, toStub) \/ Live'
      BY <1>7, <2>1, <3>1, <3>3
    <3> QED BY <1>15, <2>1, <3>4, <3>5
  <2>3. CASE c # Hash
    <3>1. count' = count + 1
      BY <1>11, <2>3 DEF Data
    <3>2. Fits(ts, count, toStub) => \E k \in 1 .. Len(r) - 2 : r[k] = Hash /\ count' + k <= BUFMAX
      <4>1. ASSUME NEW k \in 1 .. l - 2, toStub[k] = Hash, count + k <= BUFMAX
            PROVE  k - 1 \in 1 .. Len(r) - 2 /\ r[k - 1] = Hash /\ count' + (k - 1) <= BUFMAX
        <5>1. k # 1
          BY <1>2, <2>3, <4>1
        <5>2. k - 1 \in 1 .. Len(r) - 2 /\ k - 1 \in 1 .. l - 1 /\ (k - 1) + 1 = k
          BY <1>2, <5>1
        <5>3. r[k - 1] = toStub[k]
          BY <1>2, <5>2
        <5>4. count' + (k - 1) <= BUFMAX
          BY <1>6, <3>1, <4>1
        <5> QED BY <4>1, <5>2, <5>3, <5>4
      <4> QED BY <4>1 DEF Fits, l
    <3>3. CASE UNCHANGED <<ts, target, toHost>>
      <4>1. ts' = "data" /\ ran' = ran /\ toHost' = toHost /\ Begun(ts') = 1
        BY <2>1, <3>3 DEF target, Begun
      <4>2. Fits(ts, count, toStub) => Fits(ts', count', toStub')
        BY <1>1, <3>2, <4>1 DEF Fits
      <4>3. y <= x
        BY <1>4, <2>1, <4>1
      <4>4. Live => Whole(ts, toStub) \/ Live'
        BY <1>7, <2>1, <4>1, <4>2
      <4> QED BY <1>15, <2>1, <4>3, <4>4
    <3>4. CASE ts' = "hunt" /\ UNCHANGED <<target, toHost>>
      <4>1. ran' = ran /\ toHost' = toHost /\ Begun(ts') = 0
        BY <3>4 DEF target, Begun
      <4> QED BY <1>3, <1>4, <1>5, <1>6, <1>10, <2>1, <4>1
    <3>5. CASE count' = BUFMAX /\ Run(<<>>, BUFMAX)
      <4>1. /\ ts' = "ack" /\ Len(ran') = Len(ran) + 1
            /\ Head(packets') \in Seq(Char) /\ toHost' = toHost \o (<<>> \o <<Sent(Head(packets'))>>)
        <5>1. buffer' \in Buffer /\ <<>> \in Seq(Message) /\ BUFMAX \in Int /\ BUFMAX <= BUFMAX
          BY <1>6 DEF Typed
        <5> QED BY <3>5, <5>1, RunTypes DEF Run, Say
      <4>2. /\ <<Sent(Head(packets'))>> \in Seq(Message) /\ Count(<<Sent(Head(packets'))>>, Naks) = 0
            /\ <<>> \o <<Sent(Head(packets'))>> = <<Sent(Head(packets'))>>
        BY <4>1, WhatIsSaid, ConcatEmptySeq
      <4>3. Count(toHost', Naks) = Count(toHost, Naks) /\ (Answered(toHost) => Answered(toHost'))
        <5> DEFINE z == <<Sent(Head(packets'))>>
        <5>1. z \in Seq(Message) /\ Count(z, Naks) = 0 /\ toHost' = toHost \o z
          BY <4>1, <4>2
        <5> HIDE DEF z
        <5>2. /\ Count(toHost', Naks) = Count(toHost, Naks) + Count(z, Naks)
              /\ Answered(toHost) \/ Answered(z) => Answered(toHost')
          BY <1>8, <5>1, Zenon
        <5> QED BY <1>4, <5>1, <5>2
      <4>4. Begun(ts') = 0
        BY <4>1 DEF Begun
      <4>5. ~ Fits(ts, count, toStub)
        <5>1. \A k \in 1 .. Len(r) - 2 : ~ (count' + k <= BUFMAX)
          BY <1>2, <1>6, <3>5
        <5> QED BY <3>2, <5>1
      <4>6. y <= x
        BY <1>4, <2>1, <4>1, <4>3, <4>4
      <4>7. Live => Whole(ts, toStub) \/ Live'
        BY <1>7, <2>1, <4>3, <4>5
      <4> QED BY <1>15, <2>1, <4>6, <4>7
    <3> QED BY <1>11, <2>3, <3>3, <3>4, <3>5 DEF Data
  <2> QED BY <2>2, <2>3
<1>12. CASE Sum1(c)
  <2>1. ts = "sum1" /\ ts' = "sum2" /\ ran' = ran /\ toHost' = toHost
    BY <1>12 DEF Sum1, target
  <2>2. Begun(ts) = 1 /\ Begun(ts') = 1 /\ ~ Fits(ts, count, toStub)
    BY <2>1 DEF Begun, Fits
  <2>3. y <= x
    BY <1>4, <2>1, <2>2
  <2>4. l >= 2 => Len(r) >= 1
    BY <1>2 DEF l
  <2>5. Live => Whole(ts, toStub) \/ Live'
    BY <1>7, <2>1, <2>2, <2>4
  <2> QED BY <1>15, <2>1, <2>3, <2>5
<1>13. CASE Sum2(c)
  <2>1. ts = "sum2" /\ Begun(ts) = 1 /\ ~ Fits(ts, count, toStub)
    BY <1>13 DEF Sum2, Begun, Fits
  <2>2. CASE Take(<<Ack>>)
    <3> DEFINE n == IF Numbered(buffer) THEN count - 3 ELSE count
    <3>1. n \in Int /\ n <= BUFMAX
      BY <1>6 DEF Typed
    <3>2. Run(<<Ack>>, n) /\ buffer' \in Buffer
      BY <2>2 DEF Take, Typed
    <3> HIDE DEF n
    <3>3. /\ ts' = "ack" /\ Len(ran') = Len(ran) + 1
          /\ Head(packets') \in Seq(Char) /\ toHost' = toHost \o (<<Ack>> \o <<Sent(Head(packets'))>>)
      BY <3>1, <3>2, MessagesTyped, RunTypes DEF Run, Say
    <3>4. /\ <<Ack>> \o <<Sent(Head(packets'))>> \in Seq(Message)
          /\ Count(<<Ack>> \o <<Sent(Head(packets'))>>, Naks) = 0 /\ Answered(<<Ack>> \o <<Sent(Head(packets'))>>)
      BY <3>3, WhatIsSaid
    <3>5. Count(toHost', Naks) = Count(toHost, Naks) /\ Answered(toHost')
      <4> DEFINE z == <<Ack>> \o <<Sent(Head(packets'))>>
      <4>1. z \in Seq(Message) /\ Count(z, Naks) = 0 /\ Answered(z) /\ toHost' = toHost \o z
        BY <3>3, <3>4
      <4> HIDE DEF z
      <4>2. /\ Count(toHost', Naks) = Count(toHost, Naks) + Count(z, Naks)
            /\ Answered(toHost) \/ Answered(z) => Answered(toHost')
        BY <1>8, <4>1, Zenon
      <4> QED BY <1>4, <4>1, <4>2
    <3>6. Begun(ts') = 0
      BY <3>3 DEF Begun
    <3>7. y <= x
      BY <1>4, <2>1, <3>3, <3>5, <3>6, SMTT(30)
    <3> QED BY <1>7, <1>15, <2>1, <3>5, <3>7
  <2>3. CASE Refuse(<<Nak>>)
    <3>1. ts' = "hunt" /\ ran' = ran /\ toHost' = toHost \o <<Nak>>
      BY <2>3 DEF Refuse, Say, target
    <3>2. Count(toHost', Naks) = Count(toHost, Naks) + 1 /\ Answered(toHost')
      BY <1>4, <1>8, <3>1, WhatIsSaid
    <3>3. Begun(ts') = 0
      BY <3>1 DEF Begun
    <3>4. y <= x
      BY <1>4, <2>1, <3>1, <3>2, <3>3
    <3> QED BY <1>7, <1>15, <2>1, <3>2, <3>4
  <2> QED BY <1>13, <2>2, <2>3 DEF Sum2
<1>14. CASE Resend(c)
  <2>1. ts = "ack" /\ Begun(ts) = 0 /\ ~ Fits(ts, count, toStub) /\ ran' = ran
    BY <1>14 DEF Resend, Begun, Fits
  <2>2. ts' \in {"ack", "hunt"} /\ (toHost' = toHost \/ \E p \in Seq(Char) : toHost' = toHost \o <<Sent(p)>>)
    <3>1. packets \in Seq(Seq(Char)) /\ packets # <<>> /\ packets' \in Seq(Seq(Char)) /\ (ts' = "ack" => packets' # <<>>)
      BY <2>1 DEF Typed
    <3>2. Head(packets) \in Seq(Char) /\ (ts' = "ack" => Head(packets') \in Seq(Char))
      BY <3>1, HeadOff
    <3> QED BY <1>14, <2>1, <3>2 DEF Resend, Acknowledged, Say
  <2>3. Count(toHost', Naks) = Count(toHost, Naks) /\ (Answered(toHost) => Answered(toHost'))
    <3>1. CASE toHost' = toHost
      BY <3>1
    <3>2. ASSUME NEW p \in Seq(Char), toHost' = toHost \o <<Sent(p)>>
          PROVE  Count(toHost', Naks) = Count(toHost, Naks) /\ (Answered(toHost) => Answered(toHost'))
      <4> DEFINE z == <<Sent(p)>>
      <4>1. z \in Seq(Message) /\ Count(z, Naks) = 0 /\ toHost' = toHost \o z
        BY <3>2, WhatIsSaid
      <4> HIDE DEF z
      <4>2. /\ Count(toHost', Naks) = Count(toHost, Naks) + Count(z, Naks)
            /\ Answered(toHost) \/ Answered(z) => Answered(toHost')
        BY <1>8, <4>1, Zenon
      <4> QED BY <1>4, <4>1, <4>2
    <3> QED BY <2>2, <3>1, <3>2
  <2>4. Begun(ts') = 0
    BY <2>2 DEF Begun
  <2>5. y <= x
    BY <1>4, <2>1, <2>3, <2>4
  <2>6. Live => Whole(ts, toStub) \/ Live'
    BY <1>7, <2>1, <2>3
  <2> QED BY <1>15, <2>1, <2>5, <2>6
<1> QED BY <1>9, <1>11, <1>12, <1>13, <1>14 DEF GetChar

LEMMA GoingOn ==
  ASSUME NEW s \in Seq(Char), NEW z \in Seq(Char), NEW t, NEW n \in Nat
  PROVE  Going(t, n, s) => Going(t, n, s \o z)
<1>1. Joins(s \o z, s, z, Char)
  BY Cat
<1>2. /\ Len(s) \in Nat /\ Len(z) \in Nat /\ Len(s \o z) = Len(s) + Len(z)
      /\ \A i \in 1 .. Len(s) : (s \o z)[i] = s[i]
  BY <1>1 DEF Joins
<1>3. Whole(t, s) => Whole(t, s \o z)
  BY UnbegunCat
<1> DEFINE u == s \o z
<1> HIDE DEF u
<1>4. ASSUME Fits(t, n, s) PROVE Fits(t, n, u)
  <2>1. PICK k \in 1 .. Len(s) - 2 : s[k] = Hash /\ n + k <= BUFMAX
    BY <1>4 DEF Fits
  <2>2. k \in 1 .. Len(u) - 2 /\ k \in 1 .. Len(s)
    BY <1>2, <2>1 DEF u
  <2>3. u[k] = s[k]
    BY <1>2, <2>2 DEF u
  <2> QED BY <1>4, <2>1, <2>2, <2>3 DEF Fits
<1>5. Len(u) >= Len(s) /\ Len(u) \in Nat
  BY <1>2 DEF u
<1>6. t = "sum1" /\ Len(s) >= 2 => t = "sum1" /\ Len(u) >= 2
  BY <1>2, <1>5
<1>7. t = "sum2" /\ Len(s) >= 1 => t = "sum2" /\ Len(u) >= 1
  BY <1>2, <1>5
<1> QED BY <1>3, <1>4, <1>6, <1>7 DEF Going, u

LEMMA SignSent ==
  ASSUME NEW s \in Seq(Char), NEW t
  PROVE  /\ Unbegun(t, s \o <<Plus>>) <= Unbegun(t, s)
         /\ Unbegun(t, s \o <<Minus>>) <= Unbegun(t, s)
<1>1. ASSUME NEW c \in Char, c # Dollar
      PROVE  Unbegun(t, s \o <<c>>) <= Unbegun(t, s)
  <2> DEFINE z == <<c>>
  <2>1. z \in Seq(Char) /\ Len(z) = 1 /\ z[1] = c
    OBVIOUS
  <2>2. \A k \in 1 .. Len(z) : z[k] \notin {Dollar}
    BY <1>1, <2>1
  <2> HIDE DEF z
  <2>3. Count(z, {Dollar}) = 0
    BY <2>1, <2>2, CountIs
  <2>4. Unbegun(t, s \o z) <= Unbegun(t, s) + Count(z, {Dollar})
    BY <2>1, UnbegunCat
  <2>5. Unbegun(t, s) \in Nat
    BY UnbegunIs
  <2>6. Unbegun(t, s) + Count(z, {Dollar}) = Unbegun(t, s)
    BY <2>3, <2>5
  <2> QED BY <2>4, <2>6 DEF z
<1>2. Plus \in Char /\ Minus \in Char /\ Plus # Dollar /\ Minus # Dollar
  BY DEF Plus, Minus, Dollar, Char
<1> QED BY <1>1, <1>2

\* A step that leaves the stub alone.
LEMMA HostRoom ==
  ASSUME Typed, Typed', UNCHANGED stubVars
  PROVE  \E x \in Nat :
           /\ Runnable = x + Unbegun(ts, toStub) + Count(toHost, Naks)
           /\ Runnable' = x + Unbegun(ts, toStub') + Count(toHost', Naks)
           /\ Unbegun(ts, toStub) \in Nat /\ Unbegun(ts, toStub') \in Nat
           /\ Count(toHost, Naks) \in Nat /\ Count(toHost', Naks) \in Nat
           /\ Live <=> Going(ts, count, toStub) \/ Answered(toHost)
           /\ Live' <=> Going(ts, count, toStub') \/ Answered(toHost')
<1>1. ts' = ts /\ ran' = ran /\ count' = count
  BY DEF stubVars, input, target
<1>2. toStub' \in Seq(Char) /\ toHost' \in Seq(Message)
  BY DEF Typed
<1>3. Unbegun(ts, toStub') \in Nat /\ Count(toHost', Naks) \in Nat
  BY <1>2, UnbegunIs, CountIs
<1> DEFINE x == Len(ran) + Begun(ts)
<1>4. x \in Nat /\ Unbegun(ts, toStub) \in Nat /\ Count(toHost, Naks) \in Nat
  BY RunnableIs
<1>5. Runnable = x + Unbegun(ts, toStub) + Count(toHost, Naks)
  BY RunnableIs DEF Runnable
<1>6. Runnable' = x + Unbegun(ts, toStub') + Count(toHost', Naks)
  BY <1>1, <1>3, <1>4 DEF Runnable
<1>7. /\ Live <=> Going(ts, count, toStub) \/ Answered(toHost)
      /\ Live' <=> Going(ts, count, toStub') \/ Answered(toHost')
  BY <1>1 DEF Live
<1> HIDE DEF x
<1> QED BY <1>3, <1>4, <1>5, <1>6, <1>7

LEMMA HeardIs ==
  ASSUME NEW h \in Seq(Message), h # <<>>
  PROVE  /\ Head(h) \in Message /\ Count(Tail(h), Naks) \in Nat
         /\ Count(h, Naks) = Count(Tail(h), Naks) + (IF Head(h).kind = "nak" THEN 1 ELSE 0)
         /\ Answered(h) /\ Head(h).kind \notin {"ack", "nak"} => Answered(Tail(h))
<1>1. /\ Head(h) \in Message /\ Head(h) = h[1] /\ Tail(h) \in Seq(Message) /\ Len(h) \in Nat \ {0}
      /\ Len(Tail(h)) = Len(h) - 1 /\ \A k \in 1 .. Len(h) - 1 : Tail(h)[k] = h[k + 1]
  BY HeadOff
<1>2. Count(Tail(h), Naks) \in Nat
  BY <1>1, CountIs
<1>3. Count(h, Naks) = Count(Tail(h), Naks) + (IF h[1] \in Naks THEN 1 ELSE 0)
  BY CountTail
<1>4. h[1] \in Naks <=> Head(h).kind = "nak"
  BY <1>1 DEF Naks
<1>5. ASSUME NEW i \in 1 .. Len(h), h[i].kind \in {"ack", "nak"}, Head(h).kind \notin {"ack", "nak"}
      PROVE  Answered(Tail(h))
  <2>1. i # 1
    BY <1>1, <1>5
  <2>2. i - 1 \in 1 .. Len(Tail(h)) /\ i - 1 \in 1 .. Len(h) - 1 /\ (i - 1) + 1 = i
    BY <1>1, <2>1
  <2>3. Tail(h)[i - 1] = h[i]
    BY <1>1, <2>2
  <2> QED BY <1>5, <2>2, <2>3 DEF Answered
<1> QED BY <1>1, <1>2, <1>3, <1>4, <1>5 DEF Answered

LEMMA RoomFor ==
  \A a, b, n, e \in Nat :
    /\ b <= a /\ a <= n + e => b + 1 <= n + (e + 1)
    /\ b <= a + 1 /\ a + 1 <= n + e => b + 1 <= n + (e + 1)
    /\ b <= a /\ a + 1 <= n => b + 1 <= n
    /\ b + 1 <= a /\ a <= n => b + 1 <= n
    /\ b <= a + 1 /\ a + 1 <= n => b <= n
OBVIOUS

\* Whatever the host sends for a message has room: a command only where a - or the reply came.
LEMMA HostKeepsRoom ==
  ASSUME Typed, Typed', HostReads, Room
  PROVE  Room'
<1> DEFINE m == Head(toHost)
<1>1. toHost # <<>> /\ toHost' = Tail(toHost) /\ UNCHANGED <<stubVars, errors>>
      /\ (AwaitAck(m) \/ AwaitReply(m) \/ Idle(m))
  BY DEF HostReads
<1>2. toStub \in Seq(Char) /\ toHost \in Seq(Message) /\ next \in 1 .. Len(Requests) /\ count \in Nat
      /\ next \in Nat /\ errors \in Nat
  BY Constants DEF Typed
<1>3. /\ m \in Message
      /\ Count(toHost, Naks) = Count(toHost', Naks) + (IF m.kind = "nak" THEN 1 ELSE 0)
      /\ Answered(toHost) /\ m.kind \notin {"ack", "nak"} => Answered(toHost')
  BY <1>1, <1>2, HeardIs
<1>4. PICK x \in Nat :
           /\ Runnable = x + Unbegun(ts, toStub) + Count(toHost, Naks)
           /\ Runnable' = x + Unbegun(ts, toStub') + Count(toHost', Naks)
           /\ Unbegun(ts, toStub) \in Nat /\ Unbegun(ts, toStub') \in Nat
           /\ Count(toHost, Naks) \in Nat /\ Count(toHost', Naks) \in Nat
           /\ Live <=> Going(ts, count, toStub) \/ Answered(toHost)
           /\ Live' <=> Going(ts, count, toStub') \/ Answered(toHost')
  BY <1>1, HostRoom
<1>5. Runnable <= next + errors /\ (hs = "acked" /\ ~ Live => Runnable + 1 <= next + errors)
  BY DEF Room
<1>6. ASSUME next' = next, Unbegun(ts, toStub') <= Unbegun(ts, toStub), hs' = "acked" => hs = "acked" /\ (Live => Live')
      PROVE  Room'
  <2>1. Runnable' <= Runnable /\ Runnable \in Nat /\ Runnable' \in Nat
    BY <1>3, <1>4, <1>6
  <2>2. Runnable' <= next' + errors'
    BY <1>1, <1>2, <1>5, <1>6, <2>1
  <2>3. Runnable + 1 <= next + errors => Runnable' + 1 <= next' + errors'
    <3>1. next' = next /\ errors' = errors /\ next + errors \in Nat
      BY <1>1, <1>2, <1>6
    <3>2. Runnable + 1 <= next + errors => Runnable' + 1 <= next + errors
      BY <2>1, <3>1, RoomFor, Zenon
    <3> QED BY <3>1, <3>2, Zenon
  <2>4. hs' = "acked" /\ ~ Live' => Runnable' + 1 <= next' + errors'
    BY <1>5, <1>6, <2>3, Zenon
  <2> QED BY <2>2, <2>4 DEF Room
<1>7. \A z \in Seq(Char) : \A q : q = toStub \o z /\ Going(ts, count, toStub) => Going(ts, count, q)
  BY <1>2, GoingOn
<1>8. ASSUME Send(<<Plus>>) \/ Send(<<Minus>>) \/ toStub' = toStub
      PROVE  /\ Unbegun(ts, toStub') <= Unbegun(ts, toStub)
             /\ Going(ts, count, toStub) => Going(ts, count, toStub')
  <2>1. CASE toStub' = toStub
    BY <1>4, <2>1
  <2>2. CASE toStub' = toStub \o <<Plus>>
    <3>1. Unbegun(ts, toStub') <= Unbegun(ts, toStub)
      BY <1>2, <2>2, SignSent
    <3> QED BY <1>7, <2>2, <3>1, MessagesTyped
  <2>3. CASE toStub' = toStub \o <<Minus>>
    <3>1. Unbegun(ts, toStub') <= Unbegun(ts, toStub)
      BY <1>2, <2>3, SignSent
    <3> QED BY <1>7, <2>3, <3>1, MessagesTyped
  <2> QED BY <1>8, <2>1, <2>2, <2>3 DEF Send
<1>9. CASE AwaitAck(m)
  <2>1. next' = next /\ hs = "acked"
    BY <1>9 DEF AwaitAck
  <2>2. CASE m.kind = "ack" /\ hs' = "reply" /\ toStub' = toStub
    BY <1>6, <1>8, <2>1, <2>2
  <2>3. CASE m.kind = "nak" /\ Send(Encoded(Text(Requests[next]))) /\ hs' = hs
    <3>1. toStub' = toStub \o PacketOf(next)
      BY <2>3 DEF Send, PacketOf, TextOf
    <3>2. /\ Unbegun(ts, toStub') <= Unbegun(ts, toStub) + 1
          /\ toStub = <<>> /\ ts # "hunt" => Unbegun(ts, toStub') <= Unbegun(ts, toStub)
          /\ toStub # <<>> \/ ts = "hunt" => Whole(ts, toStub')
      BY <1>2, <3>1, UnbegunPacket
    <3>3. Count(toHost, Naks) = Count(toHost', Naks) + 1
      BY <1>3, <2>3
    <3>4. Runnable' <= Runnable /\ Runnable \in Nat /\ Runnable' \in Nat
      BY <1>4, <3>2, <3>3
    <3>5. Live' \/ Runnable' + 1 <= Runnable
      <4>1. CASE toStub = <<>> /\ ts # "hunt"
        <5>1. Unbegun(ts, toStub') <= Unbegun(ts, toStub)
          BY <3>2, <4>1
        <5> QED BY <1>4, <3>3, <5>1
      <4>2. CASE ~ (toStub = <<>> /\ ts # "hunt")
        BY <1>4, <3>2, <4>2 DEF Going
      <4> QED BY <4>1, <4>2
    <3>6. Runnable' <= next' + errors'
      BY <1>1, <1>2, <1>5, <2>1, <3>4
    <3>7. Runnable' + 1 <= Runnable => Runnable' + 1 <= next' + errors'
      <4>1. next' = next /\ errors' = errors /\ next + errors \in Nat
        BY <1>1, <1>2, <2>1
      <4>2. Runnable' + 1 <= Runnable => Runnable' + 1 <= next + errors
        BY <1>5, <3>4, <4>1, RoomFor, Zenon
      <4> QED BY <4>1, <4>2, Zenon
    <3>8. ~ Live' => Runnable' + 1 <= next' + errors'
      BY <3>5, <3>7, Zenon
    <3> QED BY <3>6, <3>8 DEF Room
  <2>4. CASE m.kind \in {"good", "bad"} /\ Send(<<Plus>>) /\ hs' = hs
    <3>1. Unbegun(ts, toStub') <= Unbegun(ts, toStub) /\ (Going(ts, count, toStub) => Going(ts, count, toStub'))
      BY <1>8, <2>4
    <3>2. Live => Live'
      BY <1>3, <1>4, <2>4, <3>1
    <3> QED BY <1>6, <2>1, <2>4, <3>1, <3>2
  <2> QED BY <1>9, <2>2, <2>3, <2>4 DEF AwaitAck
<1>10. CASE AwaitReply(m)
  <2>1. hs = "reply"
    BY <1>10 DEF AwaitReply
  <2>2. CASE UNCHANGED <<hostVars, toStub>>
    BY <1>6, <1>8, <2>1, <2>2 DEF hostVars
  <2>3. CASE Send(<<Minus>>) /\ UNCHANGED hostVars
    BY <1>6, <1>8, <2>1, <2>3 DEF hostVars
  <2>4. CASE Send(<<Plus>>) /\ hs' = hs /\ next' = next
    BY <1>6, <1>8, <2>1, <2>4
  <2>5. CASE hs' = "done" /\ Send(<<Plus>>) /\ next' = next
    BY <1>6, <1>8, <2>1, <2>5
  <2>6. CASE next < Len(Requests) /\ next' = next + 1 /\ Send(<<Plus>> \o Encoded(Text(Requests[next + 1])))
    <3>1. toStub' = toStub \o (<<Plus>> \o PacketOf(next + 1)) /\ next + 1 \in 1 .. Len(Requests)
      BY <1>2, <2>6, Constants DEF Send, PacketOf, TextOf
    <3>2. Unbegun(ts, toStub') <= Unbegun(ts, toStub) + 1 /\ Whole(ts, toStub')
      BY <1>2, <3>1, UnbegunPacket
    <3>3. Live'
      BY <1>4, <3>2 DEF Going
    <3>4. Runnable' <= Runnable + 1 /\ Runnable \in Nat /\ Runnable' \in Nat
      BY <1>3, <1>4, <3>2
    <3>5. Runnable' <= next' + errors'
      BY <1>1, <1>2, <1>5, <2>6, <3>4
    <3> QED BY <3>3, <3>5 DEF Room
  <2> QED BY <1>10, <2>2, <2>3, <2>4, <2>5, <2>6 DEF AwaitReply
<1>11. CASE Idle(m)
  <2>1. hs = "done" /\ hs' = hs /\ next' = next /\ (Send(<<Plus>>) \/ toStub' = toStub)
    BY <1>11 DEF Idle, hostVars
  <2> QED BY <1>6, <1>8, <2>1
<1> QED BY <1>1, <1>9, <1>10, <1>11

\* A command that is sent again is one more to run; it is whole, or the stub will miss it.
LEMMA RepeatRunnable ==
  ASSUME Typed, Typed', Repeat
  PROVE  /\ Runnable \in Nat /\ Runnable' \in Nat /\ UNCHANGED <<stubVars, hostVars, toHost>>
         /\ hs = "acked" => Runnable' <= Runnable + 1 /\ (Live' \/ Runnable' <= Runnable)
         /\ hs # "acked" => Runnable' <= Runnable
<1>1. UNCHANGED <<stubVars, hostVars, toHost>>
  BY DEF Repeat
<1>2. toStub \in Seq(Char) /\ next \in 1 .. Len(Requests)
  BY DEF Typed
<1>3. PICK x \in Nat :
           /\ Runnable = x + Unbegun(ts, toStub) + Count(toHost, Naks)
           /\ Runnable' = x + Unbegun(ts, toStub') + Count(toHost', Naks)
           /\ Unbegun(ts, toStub) \in Nat /\ Unbegun(ts, toStub') \in Nat
           /\ Count(toHost, Naks) \in Nat /\ Count(toHost', Naks) \in Nat
           /\ Live <=> Going(ts, count, toStub) \/ Answered(toHost)
           /\ Live' <=> Going(ts, count, toStub') \/ Answered(toHost')
  BY <1>1, HostRoom
<1>4. Count(toHost', Naks) = Count(toHost, Naks)
  BY <1>1
<1>5. Runnable \in Nat /\ Runnable' \in Nat
  BY <1>3
<1>6. ASSUME hs = "acked"
      PROVE  Runnable' <= Runnable + 1 /\ (Live' \/ Runnable' <= Runnable)
  <2>1. toStub' = toStub \o PacketOf(next)
    BY <1>6 DEF Repeat, Send, PacketOf, TextOf
  <2>2. /\ Unbegun(ts, toStub') <= Unbegun(ts, toStub) + 1
        /\ toStub = <<>> /\ ts # "hunt" => Unbegun(ts, toStub') <= Unbegun(ts, toStub)
        /\ toStub # <<>> \/ ts = "hunt" => Whole(ts, toStub')
    BY <1>2, <2>1, UnbegunPacket
  <2>3. Runnable' <= Runnable + 1
    BY <1>3, <1>4, <2>2
  <2>4. CASE toStub = <<>> /\ ts # "hunt"
    <3>1. Unbegun(ts, toStub') <= Unbegun(ts, toStub)
      BY <2>2, <2>4
    <3>2. Runnable' <= Runnable
      BY <1>3, <1>4, <3>1
    <3> QED BY <2>3, <3>2
  <2>5. CASE ~ (toStub = <<>> /\ ts # "hunt")
    BY <1>3, <2>2, <2>3, <2>5 DEF Going
  <2> QED BY <2>4, <2>5
<1>7. ASSUME hs # "acked"
      PROVE  Runnable' <= Runnable
  <2>1. toStub' = toStub \o <<Minus>>
    BY <1>7 DEF Repeat, Send
  <2>2. Unbegun(ts, toStub') <= Unbegun(ts, toStub)
    BY <1>2, <2>1, SignSent
  <2> QED BY <1>3, <1>4, <2>2
<1> QED BY <1>1, <1>5, <1>6, <1>7

LEMMA TimeoutKeepsRoom ==
  ASSUME Typed, Typed', Timeout, Room
  PROVE  Room'
<1>1. /\ Runnable \in Nat /\ Runnable' \in Nat /\ UNCHANGED <<stubVars, hostVars, toHost>>
      /\ hs = "acked" => Runnable' <= Runnable + 1 /\ (Live' \/ Runnable' <= Runnable)
      /\ hs # "acked" => Runnable' <= Runnable
  BY RepeatRunnable DEF Timeout
<1>2. next' = next /\ errors' = errors /\ hs' = hs /\ next + errors \in Nat
  BY <1>1 DEF Timeout, hostVars, Typed
<1>3. Runnable <= next + errors /\ (hs = "acked" /\ ~ Live => Runnable + 1 <= next + errors)
  BY DEF Room
<1>4. ~ Live
  <2>1. toStub = <<>> /\ toHost = <<>> /\ toStub \in Seq(Char)
    BY DEF Timeout, Typed
  <2>2. ~ Whole(ts, toStub)
    BY <2>1, UnbegunIs
  <2>3. Len(toStub) = 0 /\ Len(toHost) = 0
    BY <2>1
  <2>4. ~ Answered(toHost) /\ ~ Fits(ts, count, toStub)
    BY <2>3 DEF Answered, Fits
  <2> QED BY <2>2, <2>3, <2>4 DEF Live, Going
<1>5. Runnable' <= next + errors
  BY <1>1, <1>2, <1>3, <1>4
<1>6. hs = "acked" /\ ~ Live' => Runnable' + 1 <= next + errors
  <2>1. hs = "acked" => Runnable + 1 <= next + errors
    BY <1>3, <1>4
  <2>2. hs = "acked" /\ ~ Live' => Runnable' <= Runnable
    BY <1>1
  <2> QED BY <1>1, <1>2, <2>1, <2>2, RoomFor, Zenon
<1> QED BY <1>2, <1>5, <1>6, Zenon DEF Room

LEMMA EarlyKeepsRoom ==
  ASSUME Typed, Typed', EarlyTimeout, Room
  PROVE  Room'
<1>1. /\ Runnable \in Nat /\ Runnable' \in Nat /\ UNCHANGED <<stubVars, hostVars, toHost>>
      /\ hs = "acked" => Runnable' <= Runnable + 1 /\ (Live' \/ Runnable' <= Runnable)
      /\ hs # "acked" => Runnable' <= Runnable
  BY RepeatRunnable DEF EarlyTimeout
<1>2. next' = next /\ hs' = hs /\ errors' = errors + 1 /\ next \in Nat /\ errors \in Nat
  BY <1>1, ErrorTyped DEF EarlyTimeout, hostVars, Typed
<1>3. Runnable <= next + errors
  BY DEF Room
<1>4. Runnable' <= Runnable + 1
  BY <1>1
<1>5. Runnable' <= next + (errors + 1)
  BY <1>1, <1>2, <1>3, <1>4
<1>6. Runnable' <= Runnable => Runnable' + 1 <= next + (errors + 1)
  BY <1>1, <1>2, <1>3, RoomFor, Zenon
<1>7. hs = "acked" /\ ~ Live' => Runnable' + 1 <= next + (errors + 1)
  BY <1>1, <1>6, Zenon
<1> QED BY <1>2, <1>5, <1>7, Zenon DEF Room

\* An error makes one packet more at most, where it makes a $; nothing that goes on stops then.
LEMMA LineRunnable ==
  ASSUME Typed, Typed', LineError
  PROVE  /\ Runnable \in Nat /\ Runnable' \in Nat
         /\ Runnable' <= Runnable + 1 /\ (Runnable' <= Runnable \/ (Live => Live'))
<1>1. UNCHANGED stubVars
  BY LineErrorIs
<1>2. toStub \in Seq(Char) /\ toHost \in Seq(Message)
  BY DEF Typed
<1>3. PICK x \in Nat :
           /\ Runnable = x + Unbegun(ts, toStub) + Count(toHost, Naks)
           /\ Runnable' = x + Unbegun(ts, toStub') + Count(toHost', Naks)
           /\ Unbegun(ts, toStub) \in Nat /\ Unbegun(ts, toStub') \in Nat
           /\ Count(toHost, Naks) \in Nat /\ Count(toHost', Naks) \in Nat
           /\ Live <=> Going(ts, count, toStub) \/ Answered(toHost)
           /\ Live' <=> Going(ts, count, toStub') \/ Answered(toHost')
  BY <1>1, HostRoom
<1>4. Runnable \in Nat /\ Runnable' \in Nat
  BY <1>3
<1>5. ASSUME Unbegun(ts, toStub') <= Unbegun(ts, toStub), Count(toHost', Naks) <= Count(toHost, Naks)
      PROVE  Runnable' <= Runnable
  BY <1>3, <1>5
<1>6. CASE toStub # <<>> /\ toStub' = Tail(toStub) /\ toHost' = toHost
  <2>1. /\ Unbegun(ts, toStub) = Count(Tail(toStub), {Dollar}) + (IF ts = "hunt" /\ toStub[1] = Dollar THEN 1 ELSE 0)
        /\ Unbegun(ts, Tail(toStub)) <= Count(Tail(toStub), {Dollar})
    BY <1>2, <1>6, UnbegunTail
  <2>2. Count(Tail(toStub), {Dollar}) \in Nat
    BY <1>2, <1>6, HeadOff, CountIs
  <2>3. Unbegun(ts, toStub') <= Unbegun(ts, toStub) /\ Count(toHost', Naks) <= Count(toHost, Naks)
    BY <1>3, <1>6, <2>1, <2>2
  <2> QED BY <1>4, <1>5, <2>3
<1>7. ASSUME NEW n \in Noise, Garbles(toStub, toStub', n, Char), toStub # <<>>, toHost' = toHost
      PROVE  Runnable' <= Runnable + 1 /\ (Runnable' <= Runnable \/ (Live => Live'))
  <2> DEFINE d == Count(toStub, {Dollar})
             e == Count(toStub', {Dollar})
  <2>1. e = d - (IF toStub[1] \in {Dollar} THEN 1 ELSE 0) + (IF n \in {Dollar} THEN 1 ELSE 0)
    BY <1>7, CountGarbled
  <2>2. toStub' # <<>> /\ toStub'[1] = n /\ Len(toStub') = Len(toStub) /\ \A k \in 2 .. Len(toStub) : toStub'[k] = toStub[k]
    BY <1>7, EmptySeq DEF Garbles
  <2>3. Head1(ts, toStub) = (IF ts # "hunt" /\ toStub[1] = Dollar THEN 1 ELSE 0)
        /\ Head1(ts, toStub') = IF ts # "hunt" /\ n = Dollar THEN 1 ELSE 0
    BY <1>7, <2>2 DEF Head1
  <2>4. d \in Nat /\ e \in Nat
    <3>1. toStub' \in Seq(Char)
      BY DEF Typed
    <3> QED BY <1>2, <3>1, CountIs
  <2>5. Unbegun(ts, toStub) = d - Head1(ts, toStub) /\ Unbegun(ts, toStub') = e - Head1(ts, toStub')
    BY DEF Unbegun
  <2> HIDE DEF d, e
  <2>6. CASE ~ (ts = "hunt" /\ n = Dollar /\ toStub[1] # Dollar)
    <3>1. Unbegun(ts, toStub') <= Unbegun(ts, toStub)
      BY <2>1, <2>3, <2>4, <2>5, <2>6
    <3>2. Count(toHost', Naks) <= Count(toHost, Naks)
      BY <1>3, <1>7
    <3> QED BY <1>4, <1>5, <3>1, <3>2
  <2>7. CASE ts = "hunt" /\ n = Dollar /\ toStub[1] # Dollar
    <3>1. Unbegun(ts, toStub') = Unbegun(ts, toStub) + 1
      BY <2>1, <2>3, <2>4, <2>5, <2>7
    <3>2. Runnable' = Runnable + 1
      BY <1>3, <1>7, <3>1
    <3>3. Whole(ts, toStub) => Whole(ts, toStub')
      <4>1. ASSUME NEW j \in 1 .. Len(toStub), NEW k \in 1 .. Len(toStub) - 2, WholeAt(ts, toStub, j, k)
            PROVE  Whole(ts, toStub')
        <5>1. Len(toStub) \in Nat /\ j # 1 /\ j < k
          BY <1>7, <2>7, <4>1 DEF WholeAt, Garbles
        <5>2. j \in 2 .. Len(toStub) /\ k \in 2 .. Len(toStub)
          BY <5>1
        <5>3. toStub'[j] = toStub[j] /\ toStub'[k] = toStub[k]
          BY <2>2, <5>2
        <5>4. WholeAt(ts, toStub', j, k)
          BY <4>1, <5>3 DEF WholeAt
        <5> QED BY <2>2, <5>4 DEF Whole
      <4> QED BY <4>1 DEF Whole
    <3>4. Going(ts, count, toStub) => Going(ts, count, toStub')
      BY <2>7, <3>3 DEF Going, Fits
    <3> QED BY <1>3, <1>4, <1>7, <3>2, <3>4
  <2> QED BY <2>6, <2>7
<1>8. CASE toHost # <<>> /\ toHost' = Tail(toHost) /\ toStub' = toStub
  <2>1. Count(toHost', Naks) <= Count(toHost, Naks)
    <3>1. Count(toHost, Naks) = Count(toHost', Naks) + (IF Head(toHost).kind = "nak" THEN 1 ELSE 0)
      BY <1>2, <1>8, HeardIs
    <3> QED BY <1>3, <3>1
  <2> QED BY <1>3, <1>4, <1>5, <1>8, <2>1
<1>9. ASSUME toHost # <<>>, toHost[1].kind = "good", toStub' = toStub,
             NEW m \in Message, m.kind = "bad", Garbles(toHost, toHost', m, Message)
      PROVE  Runnable' <= Runnable
  <2>1. Count(toHost', Naks) = Count(toHost, Naks) - (IF toHost[1] \in Naks THEN 1 ELSE 0) + (IF m \in Naks THEN 1 ELSE 0)
    BY <1>9, CountGarbled
  <2>2. toHost[1] \notin Naks /\ m \notin Naks
    BY <1>9 DEF Naks
  <2>3. Count(toHost', Naks) <= Count(toHost, Naks)
    BY <1>3, <2>1, <2>2
  <2> QED BY <1>3, <1>5, <1>9, <2>3
<1>10. Runnable' <= Runnable => Runnable' <= Runnable + 1
  BY <1>4
<1> QED BY <1>4, <1>6, <1>7, <1>8, <1>9, <1>10, LineErrorIs

LEMMA LineKeepsRoom ==
  ASSUME Typed, Typed', LineError, Room
  PROVE  Room'
<1>1. /\ Runnable \in Nat /\ Runnable' \in Nat
      /\ Runnable' <= Runnable + 1 /\ (Runnable' <= Runnable \/ (Live => Live'))
  BY LineRunnable
<1>2. next' = next /\ hs' = hs /\ errors' = errors + 1 /\ next \in Nat /\ errors \in Nat
  BY LineErrorIs, ErrorTyped DEF LineError, hostVars, Typed
<1>3. Runnable <= next + errors /\ (hs = "acked" /\ ~ Live => Runnable + 1 <= next + errors)
  BY DEF Room
<1>4. Runnable' <= next + (errors + 1)
  BY <1>1, <1>2, <1>3
<1>5. Runnable' <= Runnable => Runnable' + 1 <= next + (errors + 1)
  BY <1>1, <1>2, <1>3, RoomFor, Zenon
<1>6. Runnable + 1 <= next + errors => Runnable' + 1 <= next + (errors + 1)
  BY <1>1, <1>2, RoomFor, Zenon
<1>7. hs = "acked" /\ ~ Live' => Runnable' + 1 <= next + (errors + 1)
  BY <1>1, <1>3, <1>5, <1>6, Zenon
<1> QED BY <1>2, <1>4, <1>7, Zenon DEF Room

LEMMA RoomAtFirst ==
  ASSUME Init
  PROVE  Room
<1>1. ts = "hunt" /\ next = 1 /\ errors = 0 /\ ran = <<>> /\ toHost = <<>> /\ toStub = PacketOf(1)
      /\ 1 \in 1 .. Len(Requests)
  BY Constants DEF Init, PacketOf, TextOf
<1>2. Count(toStub, {Dollar}) = 1 /\ toStub \in Seq(Char)
  BY <1>1, PacketDollars
<1>3. Unbegun(ts, toStub) = 1
  BY <1>1, <1>2, UnbegunIs
<1>4. Count(toHost, Naks) = 0
  <2>1. <<>> \in Seq(Message) /\ \A k \in 1 .. Len(<<>>) : <<>>[k] \notin Naks
    OBVIOUS
  <2>2. Count(<<>>, Naks) = 0
    BY <2>1, CountIs
  <2> QED BY <1>1, <2>2
<1>5. Len(ran) = 0 /\ Begun(ts) = 0
  BY <1>1 DEF Begun
<1>6. Runnable = 1
  BY <1>3, <1>4, <1>5 DEF Runnable
<1>7. Live
  <2>1. <<>> \in Seq(Char) /\ <<>> \o PacketOf(1) = PacketOf(1)
    BY <1>1, <1>2, ConcatEmptySeq
  <2>2. Whole("hunt", <<>> \o PacketOf(1))
    BY <1>1, <2>1, UnbegunPacket
  <2> QED BY <1>1, <2>1, <2>2 DEF Live, Going
<1> QED BY <1>1, <1>6, <1>7 DEF Room

LEMMA RoomHolds ==
  ASSUME Typed, Room, [Next]_vars
  PROVE  Room'
<1>1. Typed'
  BY TypedHolds
<1>2. CASE GetChar
  <2>1. Runnable' <= Runnable /\ (Live => Live' \/ Runnable' + 1 <= Runnable)
    BY <1>1, <1>2, StubKeepsRoom
  <2>2. next' = next /\ errors' = errors /\ hs' = hs
    BY <1>2 DEF GetChar, hostVars
  <2>3. Runnable \in Nat /\ next \in Nat /\ errors \in Nat
    BY RunnableIs
  <2>4. Runnable' \in Nat
    BY <1>1, RunnableLater
  <2>5. Runnable <= next + errors /\ (hs = "acked" /\ ~ Live => Runnable + 1 <= next + errors)
    BY DEF Room
  <2>6. next + errors \in Nat /\ Runnable' <= next + errors
    BY <2>1, <2>3, <2>4, <2>5
  <2>7. /\ Runnable' + 1 <= Runnable => Runnable' + 1 <= next + errors
        /\ Runnable + 1 <= next + errors => Runnable' + 1 <= next + errors
    BY <2>1, <2>3, <2>4, <2>5, <2>6, RoomFor, Zenon
  <2>8. hs = "acked" /\ ~ Live' => Runnable' + 1 <= next + errors
    BY <2>1, <2>5, <2>7, Zenon
  <2> QED BY <2>2, <2>6, <2>8, Zenon DEF Room
<1>3. CASE UNCHANGED vars
  <2>1. UNCHANGED <<ts, count, ran, hs, next, errors, toStub, toHost>>
    BY <1>3 DEF vars, stubVars, hostVars, input, target
  <2>2. Runnable' = Runnable /\ Live' = Live
    BY <2>1 DEF Runnable, Live
  <2> QED BY <2>1, <2>2 DEF Room
<1> QED BY <1>1, <1>2, <1>3, HostKeepsRoom, TimeoutKeepsRoom, LineKeepsRoom, EarlyKeepsRoom DEF Next

\* Of gdb_handle_exception and the host's repeats, for every length of a session: the stub
\* has run no more commands than the host is at, and one more for each error.
THEOREM RepeatsAreErrors == Spec => []RepeatsTakeErrors
<1>1. Init => Typed /\ Room
  BY TypedStarts, RoomAtFirst
<1>2. Typed /\ Room /\ [Next]_vars => Typed' /\ Room'
  BY TypedHolds, RoomHolds
<1>3. Typed /\ Room => RepeatsTakeErrors
  <2>1. ASSUME Typed, Room PROVE RepeatsTakeErrors
    <3>1. Runnable <= next + errors
      BY <2>1 DEF Room
    <3>2. /\ Len(ran) \in Nat /\ Begun(ts) \in 0 .. 1 /\ Unbegun(ts, toStub) \in Nat
          /\ Count(toHost, Naks) \in Nat /\ next \in Nat /\ errors \in Nat
      BY <2>1, RunnableIs
    <3>3. Len(ran) <= Runnable
      BY <3>2 DEF Runnable
    <3>4. Runnable \in Nat
      BY <2>1, RunnableIs
    <3> QED BY <3>1, <3>2, <3>3, <3>4 DEF RepeatsTakeErrors
  <2> QED BY <2>1
<1> QED BY <1>1, <1>2, <1>3, PTL DEF Spec

----------------------------------------------------------------------------
(* Without errors, each command is run once and in its turn *)

\* s is what is left of the packet for the request j, from its i-th character on.
From(s, j, i) ==
  /\ i \in 1 .. Len(PacketOf(j)) /\ Len(s) = Len(PacketOf(j)) - i + 1
  /\ \A k \in 1 .. Len(s) : s[k] = PacketOf(j)[i + k - 1]

\* What getpacket has of the text j, and the whole of it.
Collected(j, n, x, b) ==
  /\ n \in 0 .. Len(TextOf(j)) /\ x = Sums(TextOf(j))[n]
  /\ \A k \in 1 .. n : b[k - 1] = TextOf(j)[k]
HasText(j, n, x, b) ==
  /\ n = Len(TextOf(j)) /\ x = Sum8(TextOf(j)) /\ b[n] = 0
  /\ \A k \in 1 .. n : b[k - 1] = TextOf(j)[k]

LEMMA PacketParts ==
  ASSUME NEW j \in 1 .. Len(Requests)
  PROVE  /\ Len(TextOf(j)) \in 1 .. BUFMAX - 1 /\ TextOf(j) \in Seq(Plain) /\ TextOf(j) \in Seq(Char)
         /\ PacketOf(j) \in Seq(Char) /\ Len(PacketOf(j)) = Len(TextOf(j)) + 4 /\ PacketOf(j)[1] = Dollar
         /\ \A k \in 1 .. Len(TextOf(j)) : /\ PacketOf(j)[k + 1] = TextOf(j)[k]
                                           /\ TextOf(j)[k] \in Char /\ TextOf(j)[k] # Hash /\ TextOf(j)[k] # Dollar
         /\ PacketOf(j)[Len(TextOf(j)) + 2] = Hash
         /\ PacketOf(j)[Len(TextOf(j)) + 3] \in HexChar /\ PacketOf(j)[Len(TextOf(j)) + 4] \in HexChar
         /\ (16 * Hex(PacketOf(j)[Len(TextOf(j)) + 3]) + Hex(PacketOf(j)[Len(TextOf(j)) + 4])) % 256 = Sum8(TextOf(j))
         /\ Sum8(TextOf(j)) = Sums(TextOf(j))[Len(TextOf(j))]
<1> DEFINE t == TextOf(j)
           e == PacketOf(j)
<1>1. IsPacket(e, t)
  BY PacketIs
<1>2. t \in Seq(Plain) /\ Len(t) \in 1 .. BUFMAX - 1
  BY TextIs
<1>3. t \in Seq(Char) /\ Sum8(t) = Sums(t)[Len(t)] /\ Sum8(t) \in Char /\ \A k \in 1 .. Len(t) : t[k] \in Plain
  BY <1>2, PlainSums
<1> HIDE DEF t, e
<1>4. \A k \in 1 .. Len(t) : t[k] \in Char /\ t[k] # Hash /\ t[k] # Dollar
  BY <1>3 DEF Plain
<1>5. (16 * Hex(e[Len(t) + 3]) + Hex(e[Len(t) + 4])) % 256 = Sum8(t)
  <2>1. 16 * Hex(e[Len(t) + 3]) + Hex(e[Len(t) + 4]) = Sum8(t)
    BY <1>1 DEF IsPacket
  <2>2. \A x \in Char : x % 256 = x
    BY DEF Char
  <2> QED BY <1>3, <2>1, <2>2
<1> QED BY <1>1, <1>2, <1>3, <1>4, <1>5 DEF t, e, IsPacket

LEMMA FromTail ==
  ASSUME NEW j \in 1 .. Len(Requests), NEW s \in Seq(Char), NEW i, From(s, j, i)
  PROVE  /\ s # <<>> /\ Head(s) = PacketOf(j)[i] /\ s[1] = PacketOf(j)[i]
         /\ i < Len(PacketOf(j)) => From(Tail(s), j, i + 1)
         /\ i = Len(PacketOf(j)) => Tail(s) = <<>>
<1> DEFINE e == PacketOf(j)
           l == Len(e)
<1>1. l \in Nat
  BY PacketParts
<1>2. i \in 1 .. l /\ Len(s) = l - i + 1 /\ \A k \in 1 .. Len(s) : s[k] = e[i + k - 1]
  BY DEF From
<1> HIDE DEF e, l
<1>3. Len(s) \in Nat \ {0} /\ 1 \in 1 .. Len(s)
  BY <1>1, <1>2
<1>4. s # <<>>
  BY <1>3, EmptySeq
<1>5. /\ Head(s) = s[1] /\ Tail(s) \in Seq(Char) /\ Len(Tail(s)) = Len(s) - 1
      /\ \A k \in 1 .. Len(s) - 1 : Tail(s)[k] = s[k + 1]
  BY <1>4, HeadOff
<1>6. s[1] = e[i]
  <2>1. i + 1 - 1 = i
    BY <1>1, <1>2
  <2> QED BY <1>2, <1>3, <2>1
<1>7. ASSUME i < l PROVE From(Tail(s), j, i + 1)
  <2>1. i + 1 \in 1 .. l /\ Len(Tail(s)) = l - (i + 1) + 1
    BY <1>1, <1>2, <1>5, <1>7
  <2>2. ASSUME NEW k \in 1 .. Len(Tail(s)) PROVE Tail(s)[k] = e[(i + 1) + k - 1]
    <3>1. k \in 1 .. Len(s) - 1 /\ k + 1 \in 1 .. Len(s) /\ i + (k + 1) - 1 = (i + 1) + k - 1
      BY <1>1, <1>2, <1>3, <1>5
    <3>2. Tail(s)[k] = s[k + 1] /\ s[k + 1] = e[i + (k + 1) - 1]
      BY <1>2, <1>5, <3>1
    <3> QED BY <3>1, <3>2
  <2> QED BY <2>1, <2>2 DEF From, e, l
<1>8. ASSUME i = l PROVE Tail(s) = <<>>
  <2>1. Len(Tail(s)) = 0
    BY <1>1, <1>2, <1>5, <1>8
  <2> QED BY <1>5, <2>1, EmptySeq
<1> QED BY <1>4, <1>5, <1>6, <1>7, <1>8 DEF e, l

LEMMA FromWhole ==
  ASSUME NEW j \in 1 .. Len(Requests)
  PROVE  From(PacketOf(j), j, 1)
<1> DEFINE e == PacketOf(j)
<1>1. Len(e) \in Nat /\ Len(e) >= 4
  BY PacketParts
<1> HIDE DEF e
<1>2. 1 \in 1 .. Len(e) /\ Len(e) = Len(e) - 1 + 1 /\ \A k \in 1 .. Len(e) : 1 + k - 1 = k
  BY <1>1
<1> QED BY <1>2 DEF From, e

\* A character of the text is put into the buffer, and then a 0.
LEMMA CollectedNext ==
  ASSUME NEW j \in 1 .. Len(Requests), NEW n, NEW x, NEW b \in Buffer, Collected(j, n, x, b), n < Len(TextOf(j)),
         NEW c, c = TextOf(j)[n + 1]
  PROVE  Collected(j, n + 1, (x + c) % 256, [i \in 0 .. BUFMAX |-> IF i = n THEN c ELSE IF i = BUFMAX THEN 0 ELSE b[i]])
<1> DEFINE t == TextOf(j)
           d == [i \in 0 .. BUFMAX |-> IF i = n THEN c ELSE IF i = BUFMAX THEN 0 ELSE b[i]]
<1>1. Len(t) \in 1 .. BUFMAX - 1 /\ t \in Seq(Plain) /\ BUFMAX \in Nat
  BY PacketParts, Constants
<1>2. n \in 0 .. Len(t) /\ x = Sums(t)[n] /\ \A k \in 1 .. n : b[k - 1] = t[k]
  BY DEF Collected
<1>3. \A k \in 1 .. Len(t) : Sums(t)[k] = (Sums(t)[k - 1] + t[k]) % 256
  BY <1>1, PlainSums
<1> HIDE DEF t
<1>4. n < Len(t) /\ c = t[n + 1]
  BY DEF t
<1>5. n + 1 \in 1 .. Len(t) /\ (n + 1) - 1 = n /\ n + 1 \in 0 .. Len(t)
  BY <1>1, <1>2, <1>4
<1>6. (x + c) % 256 = Sums(t)[n + 1]
  BY <1>2, <1>3, <1>4, <1>5
<1>7. ASSUME NEW k \in 1 .. n + 1 PROVE d[k - 1] = t[k]
  <2>1. CASE k = n + 1
    <3>1. k - 1 = n /\ k - 1 \in 0 .. BUFMAX
      BY <1>1, <1>2, <1>4, <2>1
    <3> QED BY <1>4, <2>1, <3>1
  <2>2. CASE k # n + 1
    <3>1. k \in 1 .. n /\ k - 1 \in 0 .. BUFMAX /\ k - 1 # n /\ k - 1 # BUFMAX
      BY <1>1, <1>2, <1>4, <2>2
    <3>2. d[k - 1] = b[k - 1]
      BY <3>1
    <3> QED BY <1>2, <3>1, <3>2
  <2> QED BY <2>1, <2>2
<1> HIDE DEF d
<1> QED BY <1>5, <1>6, <1>7 DEF Collected, d, t

LEMMA CollectedAll ==
  ASSUME NEW j \in 1 .. Len(Requests), NEW n, NEW x, NEW b \in Buffer, Collected(j, n, x, b), n = Len(TextOf(j))
  PROVE  HasText(j, n, x, [b EXCEPT ![n] = 0])
<1> DEFINE t == TextOf(j)
           d == [b EXCEPT ![n] = 0]
<1>1. Len(t) \in 1 .. BUFMAX - 1 /\ BUFMAX \in Nat /\ Sum8(t) = Sums(t)[Len(t)]
  BY PacketParts, Constants
<1>2. x = Sums(t)[n] /\ \A k \in 1 .. n : b[k - 1] = t[k]
  BY DEF Collected
<1>3. n = Len(t) /\ b \in [0 .. BUFMAX -> Char]
  BY DEF Buffer
<1> HIDE DEF t
<1>4. d[n] = 0
  BY <1>1, <1>3
<1>5. ASSUME NEW k \in 1 .. n PROVE d[k - 1] = t[k]
  <2>1. k - 1 \in 0 .. BUFMAX /\ k - 1 # n
    BY <1>1, <1>3
  <2>2. d[k - 1] = b[k - 1]
    BY <1>3, <2>1
  <2> QED BY <1>2, <2>2
<1> HIDE DEF d
<1> QED BY <1>1, <1>2, <1>3, <1>4, <1>5 DEF HasText, d, t

\* What Take makes of a text: a text has no number before it.
LEMMA TakenText ==
  ASSUME NEW j \in 1 .. Len(Requests), NEW n, NEW x, NEW b \in Buffer, HasText(j, n, x, b)
  PROVE  /\ ~ Numbered(b) /\ Unnumbered(b) = b /\ b[0] = TextOf(j)[1]
         /\ [i \in 1 .. n |-> b[i - 1]] = TextOf(j)
<1> DEFINE t == TextOf(j)
<1>1. Len(t) \in 1 .. BUFMAX - 1 /\ BUFMAX \in Nat /\ t \in Seq(Char) /\ (Len(t) >= 3 => t[3] = Comma)
  BY PacketParts, Constants, TextIs
<1>2. n = Len(t) /\ b[n] = 0 /\ \A k \in 1 .. n : b[k - 1] = t[k]
  BY DEF HasText
<1> HIDE DEF t
<1>3. b[0] = t[1]
  <2>1. 1 \in 1 .. n /\ 1 - 1 = 0
    BY <1>1, <1>2
  <2> QED BY <1>2, <2>1
<1>4. ~ Numbered(b)
  <2>1. CASE Len(t) >= 3
    <3>1. 3 \in 1 .. n /\ 3 - 1 = 2
      BY <1>1, <1>2, <2>1
    <3>2. b[2] = Comma
      BY <1>1, <1>2, <2>1, <3>1
    <3> QED BY <3>2 DEF Numbered, Comma, Colon
  <2>2. CASE ~ (Len(t) >= 3)
    <3>1. strlen(b) \in 0 .. BUFMAX /\ \A k \in 0 .. strlen(b) - 1 : b[k] # 0
      BY strlenIs
    <3>2. n \notin 0 .. strlen(b) - 1 /\ n \in 1 .. 2
      BY <1>1, <1>2, <2>2, <3>1
    <3>3. ~ (strlen(b) > 2)
      BY <3>1, <3>2
    <3> QED BY <3>3 DEF Numbered
  <2> QED BY <2>1, <2>2
<1>5. [i \in 1 .. n |-> b[i - 1]] = t
  <2> DEFINE f == [i \in 1 .. n |-> b[i - 1]]
  <2>1. \A i \in 1 .. n : f[i] = t[i] /\ t[i] \in Char
    BY <1>1, <1>2
  <2>2. f \in [1 .. n -> Char] /\ n \in Nat
    BY <1>1, <1>2, <2>1
  <2> HIDE DEF f
  <2>3. f \in Seq(Char) /\ Len(f) = n
    BY <2>2, IsSequence
  <2>4. f = t
    BY <1>1, <1>2, <2>1, <2>3, SeqEqual
  <2> QED BY <2>4 DEF f
<1>6. Unnumbered(b) = b
  BY <1>4 DEF Unnumbered
<1> QED BY <1>3, <1>4, <1>5, <1>6 DEF t

\* Of the answers to the request j, each but the last one is what a program prints.
Outputs(q, j) ==
  \A i \in 1 .. Len(q) : (Requests[j].op \in {"c", "s"} /\ q[i] # <<>> /\ q[i][1] = 79) <=> i < Len(q)

LEMMA AnswersToText ==
  ASSUME NEW j \in 1 .. Len(Requests), NEW b \in Buffer, b[0] = TextOf(j)[1], mem \in Memory, sigval \in Char
  PROVE  Outputs(Answers(b), j)
<1> DEFINE op == Requests[j].op
<1>1. op \in {"m", "M", "X", "c", "s", "?"}
  BY RequestTyped
<1>2. b[0] = CASE op = "m" -> 109 [] op = "M" -> 77 [] op = "X" -> 88
               [] op = "c" -> 99 [] op = "s" -> 115 [] op = "?" -> 63
  BY TextIs
<1>3. CASE op \notin {"c", "s"}
  <2>1. b[0] \in {109, 77, 88, 63}
    BY <1>1, <1>2, <1>3
  <2>2. Len(Answers(b)) = 1
    BY <2>1 DEF Answers
  <2> HIDE DEF op
  <2>3. \A i \in 1 .. Len(Answers(b)) : ~ (i < Len(Answers(b)))
    BY <2>2
  <2> QED BY <1>3, <2>3 DEF Outputs, op
<1>4. CASE op \in {"c", "s"}
  <2> DEFINE run == Runs[op]
             q == [k \in 1 .. Len(run.prints) |-> OutputPacket(run.prints[k])] \o <<Stopped(computeSignal(run.stop))>>
  <2>1. b[0] \in {99, 115} /\ op = IF b[0] = 99 THEN "c" ELSE "s"
    BY <1>2, <1>4
  <2> HIDE DEF op
  <2>2. \A k \in 1 .. Len(q) : q[k] # <<>> /\ (q[k][1] = 79 <=> k < Len(q))
    BY <1>4, RunAnswersAre, ZenonT(60)
  <2> HIDE DEF run, q
  <2>3. Answers(b) = q
    <3> DEFINE o == IF b[0] = 99 THEN "c" ELSE "s"
               prog == Runs[o]
               p == [k \in 1 .. Len(prog.prints) |-> OutputPacket(prog.prints[k])] \o <<Stopped(computeSignal(prog.stop))>>
    <3>1. b[0] # 109 /\ b[0] \notin {77, 88} /\ b[0] # 63
      BY <2>1
    <3>2. op = o
      BY <2>1 DEF o
    <3> HIDE DEF o, prog, p
    <3>3. Answers(b) = p
      BY <2>1, <3>1, ZenonT(60) DEF Answers, p, prog, o
    <3>4. run = prog
      BY <3>2 DEF run, prog
    <3> QED BY <3>3, <3>4 DEF p, q
  <2> QED BY <1>4, <2>2, <2>3 DEF Outputs, op
<1> QED BY <1>3, <1>4

LEMMA OutputIs ==
  ASSUME NEW q \in Seq(Seq(Char)), q # <<>>, Outputs(q, next)
  PROVE  IsOutput(Rle(Head(q))) <=> Len(q) # 1
<1>1. Head(q) \in Seq(Char) /\ Head(q) = q[1] /\ Len(q) \in Nat \ {0}
  BY HeadOff
<1>2. 1 \in 1 .. Len(q) /\ (1 < Len(q) <=> Len(q) # 1)
  <2>1. \A l \in Nat \ {0} : 1 \in 1 .. l /\ (1 < l <=> l # 1)
    OBVIOUS
  <2> QED BY <1>1, <2>1
<1>3. (Requests[next].op \in {"c", "s"} /\ q[1] # <<>> /\ q[1][1] = 79) <=> Len(q) # 1
  BY <1>2 DEF Outputs
<1>4. /\ Head(q) = <<>> => Rle(Head(q)) = <<>>
      /\ Head(q) # <<>> => Rle(Head(q)) # <<>> /\ Head(Rle(Head(q))) = Head(q)[1]
  BY <1>1, RleIs
<1> QED BY <1>1, <1>3, <1>4 DEF IsOutput

LEMMA OutputsTail ==
  ASSUME NEW q \in Seq(Seq(Char)), q # <<>>, NEW j, Outputs(q, j)
  PROVE  Outputs(Tail(q), j)
<1>1. Len(q) \in Nat \ {0} /\ Len(Tail(q)) = Len(q) - 1 /\ \A k \in 1 .. Len(q) - 1 : Tail(q)[k] = q[k + 1]
  BY HeadOff
<1>2. ASSUME NEW i \in 1 .. Len(Tail(q))
      PROVE  (Requests[j].op \in {"c", "s"} /\ Tail(q)[i] # <<>> /\ Tail(q)[i][1] = 79) <=> i < Len(Tail(q))
  <2>1. i + 1 \in 1 .. Len(q) /\ i \in 1 .. Len(q) - 1 /\ (i + 1 < Len(q) <=> i < Len(Tail(q)))
    BY <1>1
  <2>2. Tail(q)[i] = q[i + 1]
    BY <1>1, <2>1
  <2>3. (Requests[j].op \in {"c", "s"} /\ q[i + 1] # <<>> /\ q[i + 1][1] = 79) <=> i + 1 < Len(q)
    BY <2>1 DEF Outputs
  <2> QED BY <2>1, <2>2, <2>3
<1> QED BY <1>2 DEF Outputs

InTurn == \A i \in 1 .. Len(ran) : ran[i] = TextOf(i)

\* The host awaits that the stub takes a command, of which it has the beginning.
AskingAt ==
  \/ ts = "ack" /\ Len(packets) = 1 /\ toStub = <<Plus>> \o PacketOf(next)
  \/ ts = "hunt" /\ From(toStub, next, 1)
  \/ ts = "data" /\ Collected(next, count, checksum, buffer) /\ From(toStub, next, count + 2)
  \/ ts = "sum1" /\ HasText(next, count, checksum, buffer) /\ From(toStub, next, count + 3)
  \/ /\ ts = "sum2" /\ HasText(next, count, checksum, buffer) /\ From(toStub, next, count + 4)
     /\ high = Hex(PacketOf(next)[count + 3])
Asking == hs = "acked" /\ toHost = <<>> /\ Len(ran) = next - 1 /\ AskingAt

\* It has taken it, and what it answers is on its way, or acknowledged.
Answering ==
  /\ ts = "ack" /\ Len(ran) = next /\ Outputs(packets, next)
  /\ \/ toStub = <<>> /\ hs = "acked" /\ toHost = <<Ack, Sent(Head(packets))>>
     \/ toStub = <<>> /\ hs = "reply" /\ toHost = <<Sent(Head(packets))>>
     \/ Len(packets) # 1 /\ toStub = <<Plus>> /\ hs = "reply" /\ toHost = <<>>

Over ==
  /\ hs = "done" /\ toHost = <<>> /\ Len(ran) = next /\ next = Len(Requests)
  /\ \/ ts = "ack" /\ Len(packets) = 1 /\ toStub = <<Plus>>
     \/ ts = "hunt" /\ toStub = <<>>

Exchange == InTurn /\ (Asking \/ Answering \/ Over)

LEMMA TwoAre ==
  ASSUME NEW S, NEW x \in S, NEW y \in S
  PROVE  <<>> \o (<<x>> \o <<y>>) = <<x, y>>
<1> DEFINE u == <<x>>
           v == <<y>>
           w == <<x, y>>
<1>1. u \in Seq(S) /\ v \in Seq(S) /\ w \in Seq(S) /\ Len(u) = 1 /\ Len(v) = 1 /\ Len(w) = 2
      /\ u[1] = x /\ v[1] = y /\ w[1] = x /\ w[2] = y
  OBVIOUS
<1> HIDE DEF u, v, w
<1>2. Joins(u \o v, u, v, S)
  BY <1>1, Cat
<1> DEFINE z == u \o v
<1>3. z \in Seq(S) /\ Len(z) = 1 + 1 /\ z[1] = u[1] /\ z[1 + 1] = v[1]
  <2>1. 1 \in 1 .. Len(u) /\ 1 \in 1 .. Len(v)
    BY <1>1
  <2> QED BY <1>1, <1>2, <2>1 DEF Joins
<1> HIDE DEF z
<1>4. Len(z) = Len(w) /\ \A i \in 1 .. Len(z) : z[i] = w[i]
  BY <1>1, <1>3
<1>5. z = w
  BY <1>1, <1>3, <1>4, SeqEqual
<1>6. <<>> \o z = z
  BY <1>3, ConcatEmptySeq
<1> QED BY <1>5, <1>6 DEF z, u, v, w

\* What is done for a command: nothing yet, or what its text asks for.
MemoryNow(b) == IF b[0] \in {77, 88} THEN MemoryWritten(b) ELSE mem
SignalNow(b) == CASE b[0] = 99 -> computeSignal(Runs["c"].stop)
                  [] b[0] = 115 -> computeSignal(Runs["s"].stop)
                  [] OTHER -> sigval
Progress ==
  \/ UNCHANGED <<ran, mem, sigval>>
  \/ /\ HasText(next, count, checksum, buffer) /\ Len(ran') = next
     /\ packets' = Answers(buffer) /\ mem' = MemoryNow(buffer) /\ sigval' = SignalNow(buffer)

LEMMA AskingStep ==
  ASSUME Typed, Typed', Asking, InTurn, GetChar
  PROVE  Exchange' /\ Progress
<1> DEFINE j == next
           e == PacketOf(next)
           t == TextOf(next)
           n == Len(TextOf(next))
           c == Head(toStub)
<1>1. j \in 1 .. Len(Requests) /\ toStub \in Seq(Char) /\ buffer \in Buffer /\ count \in Nat /\ BUFMAX \in Nat
  BY Constants DEF Typed
<1>2. /\ toStub' = Tail(toStub) /\ toStub # <<>> /\ next' = next /\ hs' = hs /\ hs = "acked" /\ toHost = <<>>
      /\ Len(ran) = next - 1 /\ AskingAt
      /\ (Hunt(c) \/ Data(c) \/ Sum1(c) \/ Sum2(c) \/ Resend(c))
  BY DEF GetChar, hostVars, Asking
<1>3. /\ n \in 1 .. BUFMAX - 1 /\ Len(e) = n + 4 /\ e[1] = Dollar /\ e[n + 2] = Hash /\ e \in Seq(Char)
      /\ \A k \in 1 .. n : e[k + 1] = t[k] /\ t[k] \in Char /\ t[k] # Hash
      /\ (16 * Hex(e[n + 3]) + Hex(e[n + 4])) % 256 = Sum8(t)
  BY <1>1, PacketParts
<1> HIDE DEF e, t, n
<1>4. ASSUME AskingAt', UNCHANGED <<ran, mem, sigval, toHost>>
      PROVE  Exchange' /\ Progress
  <2>1. hs' = "acked" /\ toHost' = <<>> /\ Len(ran') = next' - 1
    BY <1>2, <1>4
  <2>2. Asking'
    BY <1>4, <2>1 DEF Asking
  <2>3. InTurn'
    BY <1>4 DEF InTurn
  <2> QED BY <1>4, <2>2, <2>3 DEF Exchange, Progress
<1>5. CASE ts = "ack"
  <2>1. Len(packets) = 1 /\ toStub = <<Plus>> \o e
    BY <1>2, <1>5 DEF AskingAt, e
  <2>2. <<Plus>> \in Seq(Char) /\ Joins(toStub, <<Plus>>, e, Char)
    BY <1>3, <2>1, MessagesTyped, Cat
  <2>3. Len(toStub) = 1 + Len(e) /\ toStub[1] = Plus /\ \A k \in 1 .. Len(e) : toStub[1 + k] = e[k]
    BY <2>2 DEF Joins
  <2>4. c = Plus /\ toStub' = e
    <3>1. /\ c = toStub[1] /\ Tail(toStub) \in Seq(Char) /\ Len(Tail(toStub)) = Len(toStub) - 1
          /\ \A k \in 1 .. Len(toStub) - 1 : Tail(toStub)[k] = toStub[k + 1]
      BY <1>1, <1>2, HeadOff
    <3>2. Len(Tail(toStub)) = Len(e) /\ \A k \in 1 .. Len(e) : 1 + k = k + 1
      BY <1>3, <2>3, <3>1
    <3>3. \A k \in 1 .. Len(e) : Tail(toStub)[k] = e[k]
      BY <2>3, <3>1, <3>2
    <3>4. Tail(toStub) = e
      <4> DEFINE w == Tail(toStub)
      <4>1. w \in Seq(Char) /\ Len(w) = Len(e) /\ \A k \in 1 .. Len(w) : w[k] = e[k]
        BY <3>1, <3>2, <3>3
      <4> HIDE DEF w
      <4>2. w = e
        BY <1>3, <4>1, SeqEqual
      <4> QED BY <4>2 DEF w
    <3> QED BY <1>2, <2>3, <3>1, <3>4
  <2>5. Resend(c)
    BY <1>2, <1>5 DEF Hunt, Data, Sum1, Sum2
  <2>6. ts' = "hunt" /\ UNCHANGED <<ran, mem, sigval, toHost>>
    BY <2>1, <2>4, <2>5 DEF Resend, Acknowledged
  <2>7. From(toStub', next, 1)
    BY <1>1, <2>4, FromWhole DEF e
  <2> QED BY <1>2, <1>4, <2>6, <2>7 DEF AskingAt
<1>6. CASE ts = "hunt"
  <2>1. From(toStub, next, 1)
    BY <1>2, <1>6 DEF AskingAt
  <2>2. c = Dollar /\ From(toStub', next, 2)
    <3>1. 1 < Len(PacketOf(next)) /\ 1 + 1 = 2
      BY <1>3 DEF e
    <3>2. Head(toStub) = PacketOf(next)[1] /\ From(Tail(toStub), next, 1 + 1)
      BY <1>1, <2>1, <3>1, FromTail
    <3>3. From(Tail(toStub), next, 2)
      BY <3>2
    <3> QED BY <1>2, <1>3, <3>2, <3>3 DEF e
  <2>3. Hunt(c)
    BY <1>2, <1>6 DEF Data, Sum1, Sum2, Resend
  <2>4. ts' = "data" /\ count' = 0 /\ checksum' = 0 /\ UNCHANGED <<ran, mem, sigval, toHost>>
    BY <2>2, <2>3 DEF Hunt, target
  <2>5. Sums(TextOf(next))[0] = 0
    BY <1>1, PacketParts, PlainSums
  <2>6. Collected(next, 0, 0, buffer')
    BY <1>3, <2>5 DEF Collected, n
  <2>7. 0 + 2 = 2
    OBVIOUS
  <2> QED BY <1>2, <1>4, <2>2, <2>4, <2>6, <2>7 DEF AskingAt
<1>7. CASE ts = "data"
  <2>1. Collected(next, count, checksum, buffer) /\ From(toStub, next, count + 2)
    BY <1>2, <1>7 DEF AskingAt
  <2>2. c = e[count + 2] /\ (count + 2 < Len(e) => From(toStub', next, (count + 2) + 1))
    BY <1>1, <1>2, <2>1, FromTail DEF e
  <2>3. Data(c) /\ count \in 0 .. n
    BY <1>2, <1>7, <2>1 DEF Hunt, Sum1, Sum2, Resend, Collected, n
  <2>4. CASE count = n
    <3>1. c = Hash /\ From(toStub', next, count + 3)
      <4>1. count + 2 = n + 2 /\ count + 2 < Len(e) /\ (count + 2) + 1 = count + 3
        BY <1>1, <1>3, <2>4, SMTT(30)
      <4> QED BY <1>3, <2>2, <4>1
    <3>2. ts' = "sum1" /\ buffer' = [buffer EXCEPT ![count] = 0] /\ UNCHANGED <<count, checksum, ran, mem, sigval, toHost>>
      BY <2>3, <3>1 DEF Data, target
    <3>3. HasText(next, count, checksum, [buffer EXCEPT ![count] = 0])
      BY <1>1, <2>1, <2>4, CollectedAll DEF n
    <3> QED BY <1>2, <1>4, <3>1, <3>2, <3>3 DEF AskingAt
  <2>5. CASE count # n
    <3>1. count + 1 \in 1 .. n /\ (count + 1) + 1 = count + 2 /\ count + 2 < Len(e) /\ count < n /\ count + 1 < BUFMAX
          /\ (count + 2) + 1 = (count + 1) + 2
      <4>1. n \in Nat /\ BUFMAX \in Nat /\ n < BUFMAX /\ Len(e) = n + 4 /\ count \in 0 .. n /\ count # n
        BY <1>1, <1>3, <2>3, <2>5
      <4> QED BY <4>1
    <3>2. c = t[count + 1] /\ c # Hash /\ From(toStub', next, (count + 1) + 2)
      BY <1>3, <2>2, <3>1
    <3>3. /\ count' = count + 1 /\ checksum' = (checksum + c) % 256
          /\ buffer' = [i \in 0 .. BUFMAX |-> IF i = count THEN c ELSE IF i = BUFMAX THEN 0 ELSE buffer[i]]
          /\ UNCHANGED <<ts, ran, mem, sigval, toHost>>
      BY <1>3, <2>3, <3>1, <3>2 DEF Data, target
    <3>4. Collected(next, count + 1, (checksum + c) % 256,
                    [i \in 0 .. BUFMAX |-> IF i = count THEN c ELSE IF i = BUFMAX THEN 0 ELSE buffer[i]])
      BY <1>1, <2>1, <3>1, <3>2, CollectedNext, SMTT(30) DEF n, t
    <3> QED BY <1>2, <1>4, <1>7, <3>2, <3>3, <3>4 DEF AskingAt
  <2> QED BY <2>4, <2>5
<1>8. CASE ts = "sum1"
  <2>1. HasText(next, count, checksum, buffer) /\ From(toStub, next, count + 3) /\ count = n
    BY <1>2, <1>8 DEF AskingAt, HasText, n
  <2>2. c = e[count + 3] /\ From(toStub', next, count + 4)
    <3>1. count + 3 < Len(e) /\ (count + 3) + 1 = count + 4
      BY <1>1, <1>3, <2>1
    <3> QED BY <1>1, <1>2, <2>1, <3>1, FromTail DEF e
  <2>3. Sum1(c)
    BY <1>2, <1>8 DEF Hunt, Data, Sum2, Resend
  <2>4. ts' = "sum2" /\ high' = Hex(e[count + 3]) /\ UNCHANGED <<buffer, count, checksum, ran, mem, sigval, toHost>>
    BY <2>2, <2>3 DEF Sum1, target
  <2> QED BY <1>2, <1>4, <2>1, <2>2, <2>4 DEF AskingAt, e
<1>9. CASE ts = "sum2"
  <2>1. /\ HasText(next, count, checksum, buffer) /\ From(toStub, next, count + 4) /\ count = n
        /\ high = Hex(e[count + 3]) /\ checksum = Sum8(t)
    BY <1>2, <1>9 DEF AskingAt, HasText, n, t, e
  <2>2. c = e[n + 4] /\ toStub' = <<>>
    <3>1. count + 4 = Len(PacketOf(next)) /\ count + 4 = n + 4
      BY <1>3, <2>1 DEF e
    <3>2. Head(toStub) = PacketOf(next)[count + 4] /\ Tail(toStub) = <<>>
      BY <1>1, <2>1, <3>1, FromTail
    <3> QED BY <1>2, <3>1, <3>2 DEF e
  <2>3. SumRight(c)
    BY <1>3, <2>1, <2>2 DEF SumRight
  <2>4. Sum2(c)
    BY <1>2, <1>9 DEF Hunt, Data, Sum1, Resend
  <2>5. Take(<<Ack>>)
    BY <2>3, <2>4 DEF Sum2
  <2>6. ~ Numbered(buffer) /\ Unnumbered(buffer) = buffer /\ buffer[0] = t[1] /\ [i \in 1 .. count |-> buffer[i - 1]] = t
    BY <1>1, <2>1, TakenText DEF t
  <2>7. buffer' = buffer /\ Run(<<Ack>>, count)
    BY <2>5, <2>6 DEF Take
  <2>8. ts' = "ack" /\ ran' = Append(ran, t) /\ packets' = Answers(buffer)
        /\ toHost' = <<>> \o (<<Ack>> \o <<Sent(Head(packets'))>>)
    BY <1>2, <2>6, <2>7 DEF Run, Say
  <2>9. Outputs(packets', next)
    <3>1. mem \in Memory /\ sigval \in Char
      BY DEF Typed
    <3> QED BY <1>1, <2>6, <2>8, <3>1, AnswersToText DEF t
  <2>10. toHost' = <<Ack, Sent(Head(packets'))>>
    <3>1. packets' \in Seq(Seq(Char)) /\ packets' # <<>>
      BY <2>8 DEF Typed
    <3>2. Head(packets') \in Seq(Char)
      BY <3>1, HeadOff
    <3>3. Sent(Head(packets')) \in Message /\ Ack \in Message
      BY <3>2, MessagesTyped
    <3>4. <<>> \o (<<Ack>> \o <<Sent(Head(packets'))>>) = <<Ack, Sent(Head(packets'))>>
      BY <3>3, TwoAre
    <3> QED BY <2>8, <3>4
  <2>11. /\ Len(ran') = Len(ran) + 1 /\ ran'[Len(ran) + 1] = t
         /\ \A i \in 1 .. Len(ran) : ran'[i] = ran[i]
         /\ Len(ran) \in Nat
    <3>1. ran \in Seq(Seq(Char)) /\ t \in Seq(Char)
      BY <1>1, PacketParts DEF Typed, t
    <3> QED BY <2>8, <3>1, AppendProperties, LenProperties
  <2>12. Len(ran') = next /\ InTurn'
    <3>1. Len(ran') = next /\ Len(ran) + 1 = next
      BY <1>1, <1>2, <2>11
    <3>2. \A i \in 1 .. Len(ran') : i \in 1 .. Len(ran) \/ i = Len(ran) + 1
      BY <2>11
    <3>3. \A i \in 1 .. Len(ran') : ran'[i] = TextOf(i)
      BY <2>11, <3>1, <3>2 DEF InTurn, t
    <3> QED BY <3>1, <3>3 DEF InTurn
  <2>13. mem' = MemoryNow(buffer) /\ sigval' = SignalNow(buffer)
    BY <2>7 DEF Run, MemoryNow, SignalNow
  <2>14. Progress
    BY <1>2, <2>1, <2>8, <2>12, <2>13 DEF Progress
  <2> QED BY <1>2, <2>2, <2>8, <2>9, <2>10, <2>12, <2>14 DEF Answering, Exchange
<1>10. ts \in {"ack", "hunt", "data", "sum1", "sum2"}
  BY DEF Typed
<1> QED BY <1>5, <1>6, <1>7, <1>8, <1>9, <1>10

LEMMA AskingGoes ==
  ASSUME Typed, Asking
  PROVE  toStub # <<>> /\ toHost = <<>>
<1>1. next \in 1 .. Len(Requests) /\ toStub \in Seq(Char)
  BY DEF Typed
<1>2. CASE toStub = <<Plus>> \o PacketOf(next)
  <2> DEFINE p == <<Plus>>
             e == PacketOf(next)
  <2>1. e \in Seq(Char) /\ p \in Seq(Char) /\ Len(p) = 1
    BY <1>1, PacketDollars, MessagesTyped
  <2> HIDE DEF p, e
  <2>2. Joins(p \o e, p, e, Char)
    BY <2>1, Cat
  <2>3. Len(p \o e) \in Nat \ {0}
    BY <2>1, <2>2 DEF Joins
  <2>4. toStub = p \o e
    BY <1>2 DEF p, e
  <2>5. toStub # <<>>
    BY <1>1, <2>3, <2>4, EmptySeq
  <2> QED BY <2>5 DEF Asking
<1>3. ASSUME NEW i, From(toStub, next, i) PROVE toStub # <<>>
  BY <1>1, <1>3, FromTail
<1> QED BY <1>2, <1>3 DEF Asking, AskingAt

LEMMA AnsweringStep ==
  ASSUME Typed, Typed', Answering \/ Over, InTurn, GetChar
  PROVE  Exchange'
<1> DEFINE c == Head(toStub)
<1>1. /\ toStub' = Tail(toStub) /\ toStub # <<>> /\ next' = next /\ hs' = hs
      /\ (Hunt(c) \/ Data(c) \/ Sum1(c) \/ Sum2(c) \/ Resend(c))
  BY DEF GetChar, hostVars
<1>2. toStub = <<Plus>> /\ toHost = <<>> /\ ts = "ack"
  BY <1>1 DEF Answering, Over
<1>3. c = Plus /\ toStub' = <<>>
  BY <1>1, <1>2
<1>4. Resend(c)
  BY <1>1, <1>2 DEF Hunt, Data, Sum1, Sum2
<1>5. Acknowledged /\ UNCHANGED ran
  BY <1>3, <1>4 DEF Resend
<1>6. InTurn'
  BY <1>5 DEF InTurn
<1>7. CASE Answering
  <2>1. Len(packets) # 1 /\ hs = "reply" /\ Len(ran) = next /\ Outputs(packets, next)
    BY <1>1, <1>7 DEF Answering
  <2>2. packets' = Tail(packets) /\ toHost' = toHost \o <<Sent(Head(packets'))>> /\ ts' = ts
    BY <1>5, <2>1 DEF Acknowledged, Say
  <2>3. packets \in Seq(Seq(Char)) /\ packets # <<>> /\ packets' \in Seq(Seq(Char)) /\ packets' # <<>>
    BY <1>2, <2>2 DEF Typed
  <2>4. Outputs(packets', next)
    BY <2>1, <2>2, <2>3, OutputsTail
  <2>5. toHost' = <<Sent(Head(packets'))>>
    <3>1. Head(packets') \in Seq(Char)
      BY <2>3, HeadOff
    <3>2. <<Sent(Head(packets'))>> \in Seq(Message)
      BY <3>1, WhatIsSaid
    <3> QED BY <1>2, <2>2, <3>2, ConcatEmptySeq
  <2>6. Answering'
    BY <1>1, <1>2, <1>3, <1>5, <2>1, <2>2, <2>4, <2>5 DEF Answering
  <2> QED BY <1>6, <2>6 DEF Exchange
<1>8. CASE Over
  <2>1. Len(packets) = 1
    BY <1>2, <1>8 DEF Over
  <2>2. ts' = "hunt" /\ toHost' = toHost
    BY <1>5, <2>1 DEF Acknowledged
  <2>3. Over'
    BY <1>1, <1>2, <1>3, <1>5, <1>8, <2>2 DEF Over
  <2> QED BY <1>6, <2>3 DEF Exchange
<1> QED BY <1>7, <1>8

LEMMA HostStep ==
  ASSUME Typed, Typed', Exchange, HostReads
  PROVE  Exchange'
<1> DEFINE m == Head(toHost)
<1>1. /\ toHost # <<>> /\ toHost' = Tail(toHost) /\ UNCHANGED <<ts, ran, packets>>
      /\ (AwaitAck(m) \/ AwaitReply(m) \/ Idle(m))
  BY DEF HostReads, stubVars, target
<1>2. Answering /\ InTurn
  BY <1>1, AskingGoes DEF Exchange, Over
<1>3. InTurn'
  BY <1>1, <1>2 DEF InTurn
<1>4. ts = "ack" /\ Len(ran) = next /\ Outputs(packets, next) /\ toStub = <<>>
  BY <1>1, <1>2 DEF Answering
<1>5. packets \in Seq(Seq(Char)) /\ packets # <<>> /\ next \in 1 .. Len(Requests)
  BY <1>4 DEF Typed
<1>6. Head(packets) \in Seq(Char)
  BY <1>5, HeadOff
<1>7. Sent(Head(packets)).kind = "good" /\ Sent(Head(packets)).of = Rle(Head(packets))
  BY <1>6, MessagesTyped
<1>8. CASE hs = "acked"
  <2>1. toHost = <<Ack, Sent(Head(packets))>>
    BY <1>1, <1>2, <1>8 DEF Answering
  <2>2. m = Ack /\ toHost' = <<Sent(Head(packets))>>
    BY <1>1, <2>1
  <2>3. AwaitAck(m)
    BY <1>1, <1>8 DEF AwaitReply, Idle
  <2>4. hs' = "reply" /\ toStub' = toStub /\ next' = next
    BY <2>2, <2>3 DEF AwaitAck, Ack
  <2>5. Answering'
    BY <1>1, <1>4, <2>2, <2>4 DEF Answering
  <2> QED BY <1>3, <2>5 DEF Exchange
<1>9. CASE hs = "reply"
  <2>1. toHost = <<Sent(Head(packets))>>
    BY <1>1, <1>2, <1>9 DEF Answering
  <2>2. m = Sent(Head(packets)) /\ toHost' = <<>>
    BY <1>1, <2>1
  <2>3. AwaitReply(m) /\ m.kind = "good" /\ m.of = Rle(Head(packets))
    BY <1>1, <1>7, <1>9, <2>2 DEF AwaitAck, Idle
  <2>4. IsOutput(m.of) <=> Len(packets) # 1
    BY <1>4, <1>5, <2>3, OutputIs
  <2>5. \A z \in Seq(Char) : <<>> \o z = z
    BY ConcatEmptySeq
  <2>6. <<Plus>> \in Seq(Char)
    BY MessagesTyped
  <2>7. CASE Len(packets) # 1
    <3>1. Send(<<Plus>>) /\ hs' = hs /\ next' = next
      BY <2>3, <2>4, <2>7 DEF AwaitReply
    <3>2. toStub' = <<Plus>>
      BY <1>4, <2>5, <2>6, <3>1 DEF Send
    <3>3. Answering'
      BY <1>1, <1>4, <1>9, <2>2, <2>7, <3>1, <3>2 DEF Answering
    <3> QED BY <1>3, <3>3 DEF Exchange
  <2>8. CASE Len(packets) = 1 /\ next < Len(Requests)
    <3>1. hs' = "acked" /\ next' = next + 1 /\ Send(<<Plus>> \o Encoded(Text(Requests[next + 1])))
      BY <2>3, <2>4, <2>8 DEF AwaitReply
    <3>2. <<Plus>> \o Encoded(Text(Requests[next + 1])) \in Seq(Char)
      BY <2>8, SendTyped, PacketTyped
    <3>3. toStub' = <<Plus>> \o PacketOf(next')
      BY <1>4, <2>5, <3>1, <3>2 DEF Send, PacketOf, TextOf
    <3>4. Len(ran') = next' - 1
      BY <1>1, <1>4, <1>5, <3>1
    <3>5. AskingAt'
      BY <1>1, <1>4, <2>8, <3>3 DEF AskingAt
    <3>6. Asking'
      BY <2>2, <3>1, <3>4, <3>5 DEF Asking
    <3> QED BY <1>3, <3>6 DEF Exchange
  <2>9. CASE Len(packets) = 1 /\ ~ (next < Len(Requests))
    <3>1. hs' = "done" /\ Send(<<Plus>>) /\ next' = next
      BY <2>3, <2>4, <2>9 DEF AwaitReply
    <3>2. toStub' = <<Plus>>
      BY <1>4, <2>5, <2>6, <3>1 DEF Send
    <3>3. next = Len(Requests)
      BY <1>5, <2>9, Constants
    <3>4. Over'
      BY <1>1, <1>4, <2>2, <2>9, <3>1, <3>2, <3>3 DEF Over
    <3> QED BY <1>3, <3>4 DEF Exchange
  <2> QED BY <2>7, <2>8, <2>9
<1> QED BY <1>1, <1>2, <1>8, <1>9 DEF Answering

LEMMA ExchangeHolds ==
  ASSUME Typed, errors = 0 => Exchange, [Next]_vars
  PROVE  (errors = 0 => Exchange)'
<1>1. Typed' /\ errors \in Nat
  BY TypedHolds DEF Typed
<1>2. SUFFICES ASSUME errors' = 0 PROVE Exchange'
  OBVIOUS
<1>3. CASE GetChar
  <2>1. errors = 0
    BY <1>2, <1>3 DEF GetChar
  <2> QED BY <1>1, <1>3, <2>1, AskingStep, AnsweringStep DEF Exchange
<1>4. CASE HostReads
  <2>1. errors = 0
    BY <1>2, <1>4 DEF HostReads
  <2> QED BY <1>1, <1>4, <2>1, HostStep
<1>5. CASE Timeout
  <2>1. errors = 0 /\ toStub = <<>> /\ toHost = <<>> /\ Repeat
    BY <1>2, <1>5 DEF Timeout
  <2>2. Over
    BY <2>1, AskingGoes DEF Exchange, Answering
  <2> QED BY <2>1, <2>2 DEF Over, Repeat
<1>6. CASE LineError \/ EarlyTimeout
  <2>1. errors' = errors + 1
    BY <1>6 DEF LineError, EarlyTimeout, Fails
  <2> QED BY <1>1, <1>2, <2>1
<1>7. CASE UNCHANGED vars
  <2>1. UNCHANGED <<ts, buffer, count, checksum, high, packets, ran, hs, next, toStub, toHost, errors>>
    BY <1>7 DEF vars, stubVars, hostVars, input, target
  <2>2. InTurn' = InTurn /\ Asking' = Asking /\ Answering' = Answering /\ Over' = Over
    BY <2>1 DEF InTurn, Asking, AskingAt, Answering, Over
  <2> QED BY <1>2, <2>1, <2>2 DEF Exchange
<1> QED BY <1>3, <1>4, <1>5, <1>6, <1>7 DEF Next

LEMMA ExchangeStarts ==
  ASSUME Init
  PROVE  Exchange
<1>1. ts = "hunt" /\ next = 1 /\ ran = <<>> /\ toHost = <<>> /\ toStub = PacketOf(1) /\ hs = "acked"
      /\ 1 \in 1 .. Len(Requests)
  BY Constants DEF Init, PacketOf, TextOf
<1>2. From(toStub, next, 1)
  BY <1>1, FromWhole
<1>3. Len(ran) = next - 1 /\ InTurn
  BY <1>1 DEF InTurn
<1> QED BY <1>1, <1>2, <1>3 DEF Exchange, Asking, AskingAt

\* What getpacket, putpacket and the host's commands come to on a line without errors: the
\* stub has run the commands in the order of the host, each of them once, up to the one the
\* host is at or to the one before.
EachOnce ==
  errors = 0 => Len(ran) \in {next - 1, next} /\ \A i \in 1 .. Len(ran) : ran[i] = Text(Requests[i])

\* For all requests, programs, buffers and memories.
THEOREM CommandsRunOnce == Spec => []EachOnce
<1>1. Init => Typed /\ (errors = 0 => Exchange)
  BY TypedStarts, ExchangeStarts
<1>2. Typed /\ (errors = 0 => Exchange) /\ [Next]_vars => Typed' /\ (errors = 0 => Exchange)'
  BY TypedHolds, ExchangeHolds
<1>3. (errors = 0 => Exchange) => EachOnce
  BY DEF Exchange, Asking, Answering, Over, InTurn, TextOf, EachOnce
<1> QED BY <1>1, <1>2, <1>3, PTL DEF Spec

----------------------------------------------------------------------------
(* What one error makes of a packet on its way *)

\* The packet for the request j is in s, from the k-th character on.
StartsAt(s, k, j) ==
  k + Len(PacketOf(j)) - 1 <= Len(s) /\ \A i \in 1 .. Len(PacketOf(j)) : s[k + i - 1] = PacketOf(j)[i]

LEMMA PacketPlain ==
  ASSUME NEW j \in 1 .. Len(Requests)
  PROVE  /\ PacketOf(j) \in Seq(Char)
         /\ \A k \in 2 .. Len(PacketOf(j)) : PacketOf(j)[k] # Dollar
<1> DEFINE e == PacketOf(j)
           t == TextOf(j)
           n == Len(t)
<1>1. /\ n \in Nat /\ e \in Seq(Char) /\ Len(e) = n + 4
      /\ (\A k \in 1 .. n : e[k + 1] = t[k] /\ t[k] # Dollar)
      /\ e[n + 2] = Hash /\ e[n + 3] \in HexChar /\ e[n + 4] \in HexChar
  BY PacketParts
<1> HIDE DEF e, t, n
<1>2. Dollar \notin HexChar /\ Hash # Dollar
  BY DEF Dollar, HexChar, Hash
<1>3. ASSUME NEW k \in 2 .. Len(e) PROVE e[k] # Dollar
  <2>1. CASE k <= n + 1
    <3>1. k - 1 \in 1 .. n /\ (k - 1) + 1 = k
      BY <1>1, <2>1
    <3> QED BY <1>1, <3>1
  <2>2. CASE k \in {n + 2, n + 3, n + 4}
    BY <1>1, <1>2, <2>2
  <2> QED BY <1>1, <2>1, <2>2
<1> QED BY <1>1, <1>3 DEF e

\* s begins with what is left of the packet for the request j from its i-th character on.
Begins(s, j, i) ==
  /\ i \in 1 .. Len(PacketOf(j)) /\ Len(PacketOf(j)) - i + 1 <= Len(s)
  /\ \A k \in 1 .. Len(PacketOf(j)) - i + 1 : s[k] = PacketOf(j)[i + k - 1]

LEMMA BeginsFrom ==
  ASSUME NEW j \in 1 .. Len(Requests), NEW s \in Seq(Char)
  PROVE  /\ \A i : From(s, j, i) => Begins(s, j, i)
         /\ StartsAt(s, 1, j) => Begins(s, j, 1)
<1> DEFINE e == PacketOf(j)
<1>1. Len(e) \in Nat \ {0} /\ Len(s) \in Nat
  BY PacketParts, LenProperties
<1> HIDE DEF e
<1>2. ASSUME NEW i, From(s, j, i) PROVE Begins(s, j, i)
  <2>1. i \in 1 .. Len(e) /\ Len(s) = Len(e) - i + 1 /\ \A k \in 1 .. Len(s) : s[k] = e[i + k - 1]
    BY <1>2 DEF From, e
  <2>2. Len(e) - i + 1 <= Len(s) /\ \A k \in 1 .. Len(e) - i + 1 : k \in 1 .. Len(s)
    BY <1>1, <2>1
  <2> QED BY <2>1, <2>2 DEF Begins, e
<1>3. ASSUME StartsAt(s, 1, j) PROVE Begins(s, j, 1)
  <2>1. 1 + Len(e) - 1 <= Len(s) /\ \A i \in 1 .. Len(e) : s[1 + i - 1] = e[i]
    BY <1>3 DEF StartsAt, e
  <2>2. /\ 1 \in 1 .. Len(e) /\ Len(e) - 1 + 1 <= Len(s)
        /\ \A k \in 1 .. Len(e) - 1 + 1 : k \in 1 .. Len(e) /\ 1 + k - 1 = k
    BY <1>1, <2>1
  <2> QED BY <2>1, <2>2 DEF Begins, e
<1> QED BY <1>2, <1>3

LEMMA BeginsTail ==
  ASSUME NEW j \in 1 .. Len(Requests), NEW s \in Seq(Char), NEW i, Begins(s, j, i)
  PROVE  /\ s # <<>> /\ s[1] = PacketOf(j)[i]
         /\ i < Len(PacketOf(j)) => Begins(Tail(s), j, i + 1)
<1> DEFINE e == PacketOf(j)
           l == Len(e)
<1>1. l \in Nat /\ Len(s) \in Nat
  BY PacketParts, LenProperties
<1>2. i \in 1 .. l /\ l - i + 1 <= Len(s) /\ \A k \in 1 .. l - i + 1 : s[k] = e[i + k - 1]
  BY DEF Begins
<1> HIDE DEF e, l
<1>3. Len(s) \in Nat \ {0} /\ 1 \in 1 .. l - i + 1 /\ i + 1 - 1 = i
  BY <1>1, <1>2
<1>4. s # <<>> /\ s[1] = e[i]
  BY <1>2, <1>3, EmptySeq
<1>5. Len(Tail(s)) = Len(s) - 1 /\ \A k \in 1 .. Len(s) - 1 : Tail(s)[k] = s[k + 1]
  BY <1>4, HeadOff
<1>6. ASSUME i < l PROVE Begins(Tail(s), j, i + 1)
  <2>1. i + 1 \in 1 .. l /\ l - (i + 1) + 1 <= Len(Tail(s))
    BY <1>1, <1>2, <1>5, <1>6
  <2>2. ASSUME NEW k \in 1 .. l - (i + 1) + 1 PROVE Tail(s)[k] = e[(i + 1) + k - 1]
    <3>1. k \in 1 .. Len(s) - 1 /\ k + 1 \in 1 .. l - i + 1 /\ i + (k + 1) - 1 = (i + 1) + k - 1
      BY <1>1, <1>2, <1>3
    <3>2. Tail(s)[k] = s[k + 1] /\ s[k + 1] = e[i + (k + 1) - 1]
      BY <1>2, <1>5, <3>1
    <3> QED BY <3>1, <3>2
  <2> QED BY <2>1, <2>2 DEF Begins, e, l
<1> QED BY <1>4, <1>6 DEF e, l

LEMMA BeginsCat ==
  ASSUME NEW j \in 1 .. Len(Requests), NEW s \in Seq(Char), NEW z \in Seq(Char), NEW i, Begins(s, j, i)
  PROVE  Begins(s \o z, j, i)
<1> DEFINE u == s \o z
           e == PacketOf(j)
<1>1. Joins(u, s, z, Char)
  BY Cat
<1>2. Len(e) \in Nat
  BY PacketParts
<1> HIDE DEF u, e
<1>3. i \in 1 .. Len(e) /\ Len(e) - i + 1 <= Len(s) /\ \A k \in 1 .. Len(e) - i + 1 : s[k] = e[i + k - 1]
  BY DEF Begins, e
<1>4. Len(u) = Len(s) + Len(z) /\ Len(s) \in Nat /\ Len(z) \in Nat /\ \A k \in 1 .. Len(s) : u[k] = s[k]
  BY <1>1 DEF Joins
<1>5. Len(e) - i + 1 <= Len(u) /\ \A k \in 1 .. Len(e) - i + 1 : k \in 1 .. Len(s)
  BY <1>2, <1>3, <1>4
<1> QED BY <1>3, <1>4, <1>5 DEF Begins, u, e

\* The number of two digits that is the checksum of a packet.
Digits(c, d) == (16 * Hex(c) + Hex(d)) % 256

\* getpacket, with n characters and the checksum x, will not take what s brings: f is the
\* checksum along the way to the # that comes, at k; it is not the one behind the #, or,
\* if the buffer is full before that, it is not the one that ends a full buffer.
DoomedAt(s, n, x, k, f) ==
  /\ k \in 1 .. Len(s) - 2 /\ s[k] = Hash
  /\ f[0] = x /\ \A i \in 1 .. k - 1 : s[i] # Hash /\ f[i] = (f[i - 1] + s[i]) % 256
  /\ n + k - 1 < BUFMAX => Digits(s[k + 1], s[k + 2]) # f[k - 1]
  /\ n + k - 1 >= BUFMAX => f[BUFMAX - n] # 255
Doomed(s, n, x) == \E k \in Nat : \E f : DoomedAt(s, n, x, k, f)

LEMMA DoomedCat ==
  ASSUME NEW s \in Seq(Char), NEW z \in Seq(Char), NEW n \in Nat, NEW x, Doomed(s, n, x)
  PROVE  Doomed(s \o z, n, x)
<1> DEFINE u == s \o z
<1>1. Joins(u, s, z, Char)
  BY Cat
<1> HIDE DEF u
<1>2. Len(u) = Len(s) + Len(z) /\ Len(s) \in Nat /\ Len(z) \in Nat /\ \A k \in 1 .. Len(s) : u[k] = s[k]
  BY <1>1 DEF Joins
<1>3. PICK k \in Nat : \E f : DoomedAt(s, n, x, k, f)
  BY DEF Doomed
<1>4. PICK f : DoomedAt(s, n, x, k, f)
  BY <1>3
<1>5. /\ k \in 1 .. Len(s) - 2 /\ s[k] = Hash
      /\ f[0] = x /\ \A i \in 1 .. k - 1 : s[i] # Hash /\ f[i] = (f[i - 1] + s[i]) % 256
      /\ n + k - 1 < BUFMAX => Digits(s[k + 1], s[k + 2]) # f[k - 1]
      /\ n + k - 1 >= BUFMAX => f[BUFMAX - n] # 255
  BY <1>4 DEF DoomedAt
<1>6. /\ k \in 1 .. Len(u) - 2 /\ k \in 1 .. Len(s) /\ k + 1 \in 1 .. Len(s) /\ k + 2 \in 1 .. Len(s)
      /\ \A i \in 1 .. k - 1 : i \in 1 .. Len(s)
  BY <1>2, <1>5
<1>7. u[k] = s[k] /\ u[k + 1] = s[k + 1] /\ u[k + 2] = s[k + 2] /\ \A i \in 1 .. k - 1 : u[i] = s[i]
  BY <1>2, <1>6
<1>8. ASSUME NEW i \in 1 .. k - 1 PROVE u[i] # Hash /\ f[i] = (f[i - 1] + u[i]) % 256
  <2>1. u[i] = s[i]
    BY <1>7
  <2>2. s[i] # Hash /\ f[i] = (f[i - 1] + s[i]) % 256
    BY <1>5
  <2> QED BY <2>1, <2>2
<1>9. n + k - 1 < BUFMAX => Digits(u[k + 1], u[k + 2]) # f[k - 1]
  BY <1>5, <1>7
<1>10. DoomedAt(u, n, x, k, f)
  BY <1>5, <1>6, <1>7, <1>8, <1>9, Zenon DEF DoomedAt
<1> QED BY <1>10 DEF Doomed, u

LEMMA DoomedNext ==
  ASSUME NEW s \in Seq(Char), NEW n \in 0 .. BUFMAX - 1, NEW x, Doomed(s, n, x)
  PROVE  /\ s # <<>>
         /\ s[1] = Hash => 2 <= Len(Tail(s)) /\ Digits(Tail(s)[1], Tail(s)[2]) # x
         /\ s[1] # Hash /\ n + 1 < BUFMAX => Doomed(Tail(s), n + 1, (x + s[1]) % 256)
         /\ s[1] # Hash /\ n + 1 = BUFMAX => (x + s[1]) % 256 # 255
<1>1. PICK k \in Nat : \E f : DoomedAt(s, n, x, k, f)
  BY DEF Doomed
<1>2. PICK f : DoomedAt(s, n, x, k, f)
  BY <1>1
<1>3. Len(s) \in Nat /\ BUFMAX \in Nat
  BY LenProperties, Constants
<1>4. /\ k \in 1 .. Len(s) - 2 /\ s[k] = Hash
      /\ f[0] = x /\ \A i \in 1 .. k - 1 : s[i] # Hash /\ f[i] = (f[i - 1] + s[i]) % 256
      /\ n + k - 1 < BUFMAX => Digits(s[k + 1], s[k + 2]) # f[k - 1]
      /\ n + k - 1 >= BUFMAX => f[BUFMAX - n] # 255
  BY <1>2 DEF DoomedAt
<1>5. s # <<>>
  BY <1>3, <1>4, EmptySeq
<1> DEFINE r == Tail(s)
<1>6. Len(r) = Len(s) - 1 /\ \A i \in 1 .. Len(s) - 1 : r[i] = s[i + 1]
  BY <1>5, HeadOff
<1> HIDE DEF r
<1>7. ASSUME s[1] = Hash PROVE 2 <= Len(r) /\ Digits(r[1], r[2]) # x
  <2>1. k = 1
    <3>1. 1 \notin 1 .. k - 1
      BY <1>4, <1>7
    <3> QED BY <1>3, <1>4, <3>1
  <2>2. 3 <= Len(s) /\ n + 1 - 1 < BUFMAX /\ 1 - 1 = 0 /\ 1 + 1 = 2 /\ 1 + 2 = 3
    BY <1>3, <1>4, <2>1
  <2>3. Digits(s[2], s[3]) # x
    BY <1>4, <2>1, <2>2
  <2>4. 1 \in 1 .. Len(s) - 1 /\ 2 \in 1 .. Len(s) - 1 /\ 2 + 1 = 3 /\ 2 <= Len(r)
    BY <1>3, <1>6, <2>2
  <2>5. r[1] = s[2] /\ r[2] = s[3]
    BY <1>6, <2>2, <2>4
  <2> QED BY <2>3, <2>4, <2>5
<1>8. ASSUME s[1] # Hash PROVE 1 \in 1 .. k - 1 /\ f[1] = (x + s[1]) % 256
  <2>1. k # 1
    BY <1>4, <1>8
  <2>2. 1 \in 1 .. k - 1 /\ 1 - 1 = 0
    BY <1>3, <1>4, <2>1
  <2> QED BY <1>4, <2>2
<1>9. ASSUME s[1] # Hash, n + 1 < BUFMAX PROVE Doomed(r, n + 1, (x + s[1]) % 256)
  <2> DEFINE g == [i \in 0 .. k - 2 |-> f[i + 1]]
             l == k - 1
  <2>1. 1 \in 1 .. k - 1 /\ f[1] = (x + s[1]) % 256
    BY <1>8, <1>9
  <2>2. l \in Nat /\ l \in 1 .. Len(r) - 2 /\ l \in 1 .. Len(s) - 1 /\ l + 1 = k /\ 0 \in 0 .. k - 2 /\ 0 + 1 = 1
    BY <1>3, <1>4, <1>6, <2>1
  <2>3. r[l] = Hash
    BY <1>4, <1>6, <2>2
  <2>4. g[0] = (x + s[1]) % 256
    BY <2>1, <2>2
  <2>5. ASSUME NEW i \in 1 .. l - 1 PROVE r[i] # Hash /\ g[i] = (g[i - 1] + r[i]) % 256
    <3>1. /\ i \in 0 .. k - 2 /\ i - 1 \in 0 .. k - 2 /\ (i - 1) + 1 = i /\ i + 1 \in 1 .. k - 1 /\ (i + 1) - 1 = i
          /\ i \in 1 .. Len(s) - 1
      BY <1>3, <1>4, <2>2
    <3>2. g[i] = f[i + 1] /\ g[i - 1] = f[i] /\ r[i] = s[i + 1]
      BY <1>6, <3>1
    <3>3. s[i + 1] # Hash /\ f[i + 1] = (f[(i + 1) - 1] + s[i + 1]) % 256
      BY <1>4, <3>1
    <3> QED BY <3>1, <3>2, <3>3
  <2>6. ASSUME (n + 1) + l - 1 < BUFMAX PROVE Digits(r[l + 1], r[l + 2]) # g[l - 1]
    <3>1. /\ n + k - 1 < BUFMAX /\ l - 1 \in 0 .. k - 2 /\ (l - 1) + 1 = k - 1
          /\ l + 1 \in 1 .. Len(s) - 1 /\ l + 2 \in 1 .. Len(s) - 1 /\ (l + 1) + 1 = k + 1 /\ (l + 2) + 1 = k + 2
      BY <1>3, <1>4, <2>1, <2>6
    <3>2. g[l - 1] = f[(l - 1) + 1] /\ r[l + 1] = s[(l + 1) + 1] /\ r[l + 2] = s[(l + 2) + 1]
      BY <1>6, <3>1
    <3>3. g[l - 1] = f[k - 1] /\ r[l + 1] = s[k + 1] /\ r[l + 2] = s[k + 2]
      BY <3>1, <3>2
    <3> QED BY <1>4, <3>1, <3>3
  <2>7. ASSUME (n + 1) + l - 1 >= BUFMAX PROVE g[BUFMAX - (n + 1)] # 255
    <3>1. n + k - 1 >= BUFMAX /\ BUFMAX - (n + 1) \in 0 .. k - 2 /\ (BUFMAX - (n + 1)) + 1 = BUFMAX - n
      BY <1>3, <1>4, <1>9, <2>1, <2>7
    <3>2. g[BUFMAX - (n + 1)] = f[(BUFMAX - (n + 1)) + 1]
      BY <3>1
    <3> QED BY <1>4, <3>1, <3>2
  <2> HIDE DEF g, l
  <2>8. DoomedAt(r, n + 1, (x + s[1]) % 256, l, g)
    BY <2>2, <2>3, <2>4, <2>5, <2>6, <2>7 DEF DoomedAt
  <2> QED BY <2>2, <2>8 DEF Doomed
<1>10. ASSUME s[1] # Hash, n + 1 = BUFMAX PROVE (x + s[1]) % 256 # 255
  <2>1. 1 \in 1 .. k - 1 /\ f[1] = (x + s[1]) % 256
    BY <1>8, <1>10
  <2>2. n + k - 1 >= BUFMAX /\ BUFMAX - n = 1
    BY <1>3, <1>4, <1>10, <2>1
  <2> QED BY <1>4, <2>1, <2>2
<1> QED BY <1>5, <1>7, <1>9, <1>10 DEF r

LEMMA DoomedBefore ==
  ASSUME NEW s \in Seq(Char), s # <<>>, NEW n \in Nat, n + 1 < BUFMAX, NEW x, s[1] # Hash,
         Doomed(Tail(s), n + 1, (x + s[1]) % 256)
  PROVE  Doomed(s, n, x)
<1> DEFINE r == Tail(s)
<1>1. Len(s) \in Nat \ {0} /\ Len(r) = Len(s) - 1 /\ \A i \in 1 .. Len(s) - 1 : r[i] = s[i + 1]
  BY HeadOff
<1>2. PICK l \in Nat : \E g : DoomedAt(r, n + 1, (x + s[1]) % 256, l, g)
  BY DEF Doomed
<1>3. PICK g : DoomedAt(r, n + 1, (x + s[1]) % 256, l, g)
  BY <1>2
<1> HIDE DEF r
<1>4. /\ l \in 1 .. Len(r) - 2 /\ r[l] = Hash
      /\ g[0] = (x + s[1]) % 256 /\ \A i \in 1 .. l - 1 : r[i] # Hash /\ g[i] = (g[i - 1] + r[i]) % 256
      /\ (n + 1) + l - 1 < BUFMAX => Digits(r[l + 1], r[l + 2]) # g[l - 1]
      /\ (n + 1) + l - 1 >= BUFMAX => g[BUFMAX - (n + 1)] # 255
  BY <1>3 DEF DoomedAt
<1>5. BUFMAX \in Nat
  BY Constants
<1> DEFINE f == [i \in 0 .. l |-> IF i = 0 THEN x ELSE g[i - 1]]
           k == l + 1
<1>6. k \in Nat /\ k \in 1 .. Len(s) - 2 /\ s[k] = Hash
  <2>1. l \in 1 .. Len(s) - 1 /\ k \in 1 .. Len(s) - 2
    BY <1>1, <1>4
  <2> QED BY <1>1, <1>4, <2>1
<1>7. f[0] = x
  BY <1>4
<1>8. ASSUME NEW i \in 1 .. k - 1 PROVE s[i] # Hash /\ f[i] = (f[i - 1] + s[i]) % 256
  <2>1. i \in 0 .. l /\ i - 1 \in 0 .. l /\ i # 0
    BY <1>4
  <2>2. f[i] = g[i - 1]
    BY <2>1
  <2>3. CASE i = 1
    <3>1. f[i - 1] = x /\ g[i - 1] = g[0]
      BY <2>1, <2>3
    <3> QED BY <1>4, <2>2, <2>3, <3>1
  <2>4. CASE i # 1
    <3>1. i - 1 \in 1 .. l - 1 /\ i - 1 \in 1 .. Len(s) - 1 /\ (i - 1) + 1 = i /\ i - 1 # 0
      BY <1>1, <1>4, <2>4
    <3>2. f[i - 1] = g[(i - 1) - 1]
      BY <2>1, <3>1
    <3>3. r[i - 1] = s[i]
      BY <1>1, <3>1
    <3>4. r[i - 1] # Hash /\ g[i - 1] = (g[(i - 1) - 1] + r[i - 1]) % 256
      BY <1>4, <3>1, SMTT(30)
    <3> QED BY <2>2, <3>2, <3>3, <3>4
  <2> QED BY <2>3, <2>4
<1>9. ASSUME n + k - 1 < BUFMAX PROVE Digits(s[k + 1], s[k + 2]) # f[k - 1]
  <2>1. /\ (n + 1) + l - 1 < BUFMAX /\ k - 1 = l /\ l \in 0 .. l /\ l # 0
        /\ l + 1 \in 1 .. Len(s) - 1 /\ l + 2 \in 1 .. Len(s) - 1 /\ (l + 1) + 1 = k + 1 /\ (l + 2) + 1 = k + 2
    BY <1>1, <1>4, <1>9
  <2>2. f[k - 1] = g[l - 1]
    BY <2>1
  <2>3. r[l + 1] = s[k + 1] /\ r[l + 2] = s[k + 2]
    BY <1>1, <2>1
  <2> QED BY <1>4, <2>1, <2>2, <2>3
<1>10. ASSUME n + k - 1 >= BUFMAX PROVE f[BUFMAX - n] # 255
  <2>1. (n + 1) + l - 1 >= BUFMAX /\ BUFMAX - n \in 0 .. l /\ BUFMAX - n # 0 /\ (BUFMAX - n) - 1 = BUFMAX - (n + 1)
    BY <1>4, <1>5, <1>10
  <2>2. f[BUFMAX - n] = g[BUFMAX - (n + 1)]
    BY <2>1
  <2> QED BY <1>4, <2>1, <2>2
<1> HIDE DEF f, k
<1>11. DoomedAt(s, n, x, k, f)
  BY <1>6, <1>7, <1>8, <1>9, <1>10 DEF DoomedAt
<1> QED BY <1>6, <1>11 DEF Doomed

LEMMA SumDiffers ==
  \A a \in Char : \A d \in 1 .. 255 : (a + d) % 256 # a
BY DEF Char

LEMMA SumWithout ==
  \A a, c \in Char : c # 0 => 256 - c \in 1 .. 255 /\ (((a + c) % 256) + (256 - c)) % 256 = a
BY DEF Char

\* A text whose checksum so far is d more than it should be is not taken.
LEMMA DoomedText ==
  ASSUME NEW j \in 1 .. Len(Requests), NEW s \in Seq(Char), NEW m \in 0 .. Len(TextOf(j)), Begins(s, j, m + 2),
         NEW n \in Nat, n <= m, NEW d \in 1 .. 255
  PROVE  Doomed(s, n, (Sums(TextOf(j))[m] + d) % 256)
<1> DEFINE t == TextOf(j)
           e == PacketOf(j)
           l == Len(t)
           sum == Sums(t)
           k == l - m + 1
           f == [i \in 0 .. l - m |-> (sum[m + i] + d) % 256]
<1>1. /\ l \in 1 .. BUFMAX - 1 /\ Len(e) = l + 4 /\ e[l + 2] = Hash
      /\ \A i \in 1 .. l : e[i + 1] = t[i] /\ t[i] \in Char /\ t[i] # Hash
      /\ Digits(e[l + 3], e[l + 4]) = sum[l]
      /\ t \in Seq(Plain)
  BY PacketParts DEF Digits
<1>2. (\A i \in 1 .. l : sum[i] = (sum[i - 1] + t[i]) % 256) /\ \A i \in 0 .. l : sum[i] \in Char
  BY <1>1, PlainSums
<1>3. BUFMAX \in Nat /\ Len(s) \in Nat /\ m \in 0 .. l /\ l \in 1 .. BUFMAX - 1 /\ Len(e) = l + 4
  BY <1>1, Constants, LenProperties
<1>4. Len(e) - (m + 2) + 1 <= Len(s) /\ \A i \in 1 .. Len(e) - (m + 2) + 1 : s[i] = e[(m + 2) + i - 1]
  BY DEF Begins
<1> HIDE DEF t, e, l, sum
<1>5. ASSUME NEW i \in 1 .. k - 1 PROVE s[i] # Hash /\ f[i] = (f[i - 1] + s[i]) % 256
  <2>1. /\ i \in 1 .. Len(e) - (m + 2) + 1 /\ (m + 2) + i - 1 = (m + i) + 1 /\ m + i \in 1 .. l
        /\ i \in 0 .. l - m /\ i - 1 \in 0 .. l - m /\ m + (i - 1) = (m + i) - 1 /\ (m + i) - 1 \in 0 .. l
    BY <1>1, <1>3
  <2>2. s[i] = t[m + i] /\ t[m + i] \in Char /\ t[m + i] # Hash
    BY <1>1, <1>4, <2>1
  <2>3. f[i] = (sum[m + i] + d) % 256 /\ f[i - 1] = (sum[(m + i) - 1] + d) % 256
    BY <2>1
  <2>4. sum[m + i] = (sum[(m + i) - 1] + t[m + i]) % 256 /\ sum[(m + i) - 1] \in Char
    BY <1>2, <2>1
  <2>5. (((sum[(m + i) - 1] + d) % 256) + t[m + i]) % 256 = (((sum[(m + i) - 1] + t[m + i]) % 256) + d) % 256
    <3>1. PICK a \in Char : a = sum[(m + i) - 1]
      BY <2>4
    <3>2. PICK h \in Char : h = t[m + i]
      BY <2>2
    <3>3. (((a + d) % 256) + h) % 256 = (((a + h) % 256) + d) % 256
      BY DEF Char
    <3> QED BY <3>1, <3>2, <3>3, Zenon
  <2> QED BY <2>2, <2>3, <2>4, <2>5, ZenonT(60)
<1>6. f[0] = (sum[m] + d) % 256
  <2>1. 0 \in 0 .. l - m /\ m + 0 = m
    BY <1>1, <1>3
  <2> QED BY <2>1
<1>7. k \in 1 .. Len(s) - 2 /\ s[k] = Hash /\ s[k + 1] = e[l + 3] /\ s[k + 2] = e[l + 4]
  <2>1. /\ k \in 1 .. Len(s) - 2
        /\ k \in 1 .. Len(e) - (m + 2) + 1 /\ (m + 2) + k - 1 = l + 2
        /\ k + 1 \in 1 .. Len(e) - (m + 2) + 1 /\ (m + 2) + (k + 1) - 1 = l + 3
        /\ k + 2 \in 1 .. Len(e) - (m + 2) + 1 /\ (m + 2) + (k + 2) - 1 = l + 4
    <3>1. Len(e) - (m + 2) + 1 <= Len(s)
      BY <1>4
    <3> QED BY <1>3, <3>1
  <2> QED BY <1>1, <1>4, <2>1
<1>8. Digits(s[k + 1], s[k + 2]) # f[k - 1]
  <2>1. k - 1 \in 0 .. l - m /\ m + (k - 1) = l /\ l \in 0 .. l
    BY <1>3
  <2>2. f[k - 1] = (sum[l] + d) % 256
    BY <2>1
  <2>3. (sum[l] + d) % 256 # sum[l]
    BY <1>2, <2>1, SumDiffers, ZenonT(60)
  <2> QED BY <1>1, <1>7, <2>2, <2>3
<1>9. k \in Nat /\ ~ (n + k - 1 >= BUFMAX)
  BY <1>3
<1> HIDE DEF k, f
<1>10. DoomedAt(s, n, (sum[m] + d) % 256, k, f)
  BY <1>5, <1>6, <1>7, <1>8, <1>9 DEF DoomedAt
<1> QED BY <1>9, <1>10 DEF Doomed, sum, t

LEMMA GarbledTail ==
  ASSUME NEW s, NEW u, NEW c, Garbles(s, u, c, Char)
  PROVE  /\ s # <<>> /\ u # <<>> /\ s \in Seq(Char) /\ u \in Seq(Char) /\ c \in Char /\ u[1] = c /\ Tail(u) = Tail(s)
         /\ s[1] = c => u = s
<1>1. c \in Char /\ s \in Seq(Char) /\ u \in Seq(Char) /\ Len(u) = Len(s) /\ Len(s) \in Nat \ {0}
      /\ u[1] = c /\ \A k \in 2 .. Len(s) : u[k] = s[k]
  BY DEF Garbles
<1>2. s # <<>> /\ u # <<>>
  BY <1>1, EmptySeq
<1>3. Tail(s) \in Seq(Char) /\ Len(Tail(s)) = Len(s) - 1 /\ \A k \in 1 .. Len(s) - 1 : Tail(s)[k] = s[k + 1]
  BY <1>1, <1>2, HeadOff
<1>4. Tail(u) \in Seq(Char) /\ Len(Tail(u)) = Len(u) - 1 /\ \A k \in 1 .. Len(u) - 1 : Tail(u)[k] = u[k + 1]
  BY <1>1, <1>2, HeadOff
<1>5. \A k \in 1 .. Len(s) - 1 : k + 1 \in 2 .. Len(s)
  BY <1>1
<1>6. Tail(u) = Tail(s)
  BY <1>1, <1>3, <1>4, <1>5, SeqEqual
<1>7. ASSUME s[1] = c PROVE u = s
  <2>1. \A k \in 1 .. Len(s) : k = 1 \/ k \in 2 .. Len(s)
    BY <1>1
  <2>2. \A k \in 1 .. Len(s) : u[k] = s[k]
    BY <1>1, <1>7, <2>1
  <2> QED BY <1>1, <2>2, SeqEqual
<1> QED BY <1>1, <1>2, <1>6, <1>7

\* The next character of a text that is being collected is lost.
LEMMA TextLoss ==
  ASSUME ErrorsShow, NEW j \in 1 .. Len(Requests), NEW s \in Seq(Char), NEW n \in 0 .. Len(TextOf(j)) - 1,
         Begins(s, j, n + 2)
  PROVE  Doomed(Tail(s), n, Sums(TextOf(j))[n])
<1> DEFINE t == TextOf(j)
           sum == Sums(t)
<1>1. Len(t) \in 1 .. BUFMAX - 1 /\ t \in Seq(Plain) /\ Len(PacketOf(j)) = Len(t) + 4 /\ BUFMAX \in Nat
  BY PacketParts, Constants
<1>2. n + 1 \in 1 .. Len(t) /\ (n + 1) - 1 = n /\ n \in 0 .. Len(t) /\ n + 1 \in 0 .. Len(t) /\ n \in Nat /\ n <= n + 1
      /\ n + 2 < Len(PacketOf(j)) /\ (n + 2) + 1 = (n + 1) + 2
  BY <1>1
<1>3. sum[n + 1] = (sum[n] + t[n + 1]) % 256 /\ sum[n] \in Char /\ t[n + 1] \in Plain
  BY <1>1, <1>2, PlainSums
<1>4. t[n + 1] # 0
  BY <1>2 DEF ErrorsShow, TextOf
<1>5. s # <<>> /\ Begins(Tail(s), j, (n + 1) + 2)
  BY <1>2, BeginsTail
<1>6. Tail(s) \in Seq(Char)
  BY <1>5, HeadOff
<1> HIDE DEF t, sum
<1>7. t[n + 1] \in Char
  BY <1>3 DEF Plain
<1> DEFINE d == 256 - t[n + 1]
<1>8. d \in 1 .. 255 /\ (sum[n + 1] + d) % 256 = sum[n]
  BY <1>3, <1>4, <1>7, SumWithout, SMTT(30)
<1> HIDE DEF d
<1>9. Doomed(Tail(s), n, (Sums(TextOf(j))[n + 1] + d) % 256)
  BY <1>2, <1>5, <1>6, <1>8, DoomedText, ZenonT(60) DEF t
<1> QED BY <1>8, <1>9 DEF sum, t

\* It becomes another one.
LEMMA TextGarbled ==
  ASSUME ErrorsShow, NEW j \in 1 .. Len(Requests), NEW s \in Seq(Char), NEW n \in 0 .. Len(TextOf(j)) - 1,
         Begins(s, j, n + 2), NEW c \in Noise, NEW u, Garbles(s, u, c, Char), c # TextOf(j)[n + 1]
  PROVE  Doomed(u, n, Sums(TextOf(j))[n])
<1> DEFINE t == TextOf(j)
           sum == Sums(t)
           e == PacketOf(j)
           x == sum[n]
<1>1. Len(t) \in 1 .. BUFMAX - 1 /\ t \in Seq(Plain) /\ Len(e) = Len(t) + 4 /\ BUFMAX \in Nat
  BY PacketParts, Constants
<1>2. n + 1 \in 1 .. Len(t) /\ (n + 1) - 1 = n /\ n \in 0 .. Len(t) /\ n + 1 \in 0 .. Len(t) /\ n + 1 \in Nat /\ n + 1 <= n + 1
      /\ n + 2 < Len(e) /\ (n + 2) + 1 = (n + 1) + 2 /\ n + 1 < BUFMAX /\ n \in Nat
  BY <1>1
<1>3. sum[n + 1] = (x + t[n + 1]) % 256 /\ x \in Char /\ t[n + 1] \in Plain
  BY <1>1, <1>2, PlainSums
<1>4. u # <<>> /\ u \in Seq(Char) /\ c \in Char /\ u[1] = c /\ Tail(u) = Tail(s)
  BY GarbledTail
<1>5. Begins(Tail(s), j, (n + 1) + 2) /\ Tail(u) \in Seq(Char)
  BY <1>2, <1>4, BeginsTail, HeadOff
<1>6. CASE c = Hash
  <2>1. /\ Len(e) - (n + 2) + 1 <= Len(s) /\ Len(u) = Len(s) /\ \A k \in 2 .. Len(s) : u[k] = s[k]
        /\ \A k \in 1 .. Len(e) - (n + 2) + 1 : s[k] = e[(n + 2) + k - 1]
    BY DEF Begins, Garbles
  <2> HIDE DEF e, t
  <2>2. /\ 2 \in 2 .. Len(s) /\ 2 \in 1 .. Len(e) - (n + 2) + 1 /\ (n + 2) + 2 - 1 = n + 3
        /\ 3 \in 2 .. Len(s) /\ 3 \in 1 .. Len(e) - (n + 2) + 1 /\ (n + 2) + 3 - 1 = n + 4
        /\ 1 \in 1 .. Len(u) - 2
    <3>1. Len(s) \in Nat
      BY LenProperties
    <3> QED BY <1>1, <1>2, <2>1, <3>1
  <2>3. u[2] = e[n + 3] /\ u[3] = e[n + 4]
    BY <2>1, <2>2
  <2>4. (16 * Hex(e[n + 3]) + Hex(e[n + 4])) % 256 # sum[n]
    BY <1>6 DEF ErrorsShow, TextOf, PacketOf, e, t
  <2> HIDE DEF x
  <2>5. Digits(u[2], u[3]) # x
    BY <2>3, <2>4 DEF Digits, x
  <2> DEFINE f == [i \in 0 .. 0 |-> x]
  <2>6. f[0] = x
    OBVIOUS
  <2> HIDE DEF f
  <2>7. 1 + 1 = 2 /\ 1 + 2 = 3 /\ 1 - 1 = 0 /\ ~ (n + 1 - 1 >= BUFMAX) /\ 1 .. 0 = {}
    BY <1>1, <1>2
  <2>8. DoomedAt(u, n, x, 1, f)
    BY <1>4, <1>6, <2>2, <2>5, <2>6, <2>7 DEF DoomedAt
  <2> QED BY <2>8 DEF Doomed, x, sum, t
<1>7. CASE c # Hash
  <2>1. t[n + 1] \in Char
    BY <1>3 DEF Plain
  <2>2. PICK d \in 1 .. 255 : (((x + t[n + 1]) % 256) + d) % 256 = (x + c) % 256
    <3> HIDE DEF t, x
    <3>1. x \in Char /\ t[n + 1] \in Char /\ c # t[n + 1]
      BY <1>3, <2>1 DEF t
    <3>2. PICK a \in Char : a = x
      BY <3>1
    <3>3. PICK h \in Char : h = t[n + 1]
      BY <3>1
    <3>4. \E d \in 1 .. 255 : (((a + h) % 256) + d) % 256 = (a + c) % 256
      <4>1. a \in 0 .. 255 /\ h \in 0 .. 255 /\ c \in 0 .. 255 /\ c # h
        BY <1>4, <3>1, <3>3 DEF Char
      <4>2. CASE c > h
        <5>1. c - h \in 1 .. 255 /\ (((a + h) % 256) + (c - h)) % 256 = (a + c) % 256
          BY <4>1, <4>2
        <5> QED BY <5>1, ZenonT(60)
      <4>3. CASE c < h
        <5>1. 256 + c - h \in 1 .. 255 /\ (((a + h) % 256) + (256 + c - h)) % 256 = (a + c) % 256
          BY <4>1, <4>3
        <5> QED BY <5>1, ZenonT(60)
      <4> QED BY <4>1, <4>2, <4>3
    <3> QED BY <3>2, <3>3, <3>4, ZenonT(60)
  <2>3. Doomed(Tail(u), n + 1, (Sums(TextOf(j))[n + 1] + d) % 256)
    <3>1. /\ n + 1 \in 0 .. Len(TextOf(j)) /\ n + 1 \in Nat /\ n + 1 <= n + 1
          /\ Begins(Tail(u), j, (n + 1) + 2) /\ Tail(u) \in Seq(Char)
      BY <1>2, <1>4, <1>5
    <3>2. PICK v \in Seq(Char) : v = Tail(u)
      BY <3>1
    <3>3. PICK m \in 0 .. Len(TextOf(j)) : m = n + 1
      BY <3>1
    <3> HIDE DEF t, sum, e, x
    <3>4. Begins(v, j, m + 2) /\ m \in Nat /\ m <= m
      BY <3>1, <3>2, <3>3
    <3>5. Doomed(v, m, (Sums(TextOf(j))[m] + d) % 256)
      BY <3>4, DoomedText, ZenonT(60)
    <3> QED BY <3>2, <3>3, <3>5
  <2>4. Doomed(Tail(u), n + 1, (x + u[1]) % 256)
    <3>1. (Sums(TextOf(j))[n + 1] + d) % 256 = (x + u[1]) % 256
      BY <1>3, <1>4, <2>2
    <3> QED BY <2>3, <3>1, Zenon
  <2> HIDE DEF x
  <2>5. Doomed(u, n, x)
    BY <1>2, <1>4, <1>7, <2>4, DoomedBefore
  <2> QED BY <2>5 DEF x
<1> QED BY <1>6, <1>7

LEMMA CharSums ==
  ASSUME NEW s \in Seq(Char)
  PROVE  /\ Len(s) \in Nat /\ Sums(s)[0] = 0
         /\ \A k \in 1 .. Len(s) : s[k] \in Char /\ Sums(s)[k] = (Sums(s)[k - 1] + s[k]) % 256
<1>1. Len(s) \in Nat /\ \A k \in 1 .. Len(s) : s[k] \in Char
  BY LenProperties, ElementOfSeq
<1>2. Char \subseteq Nat
  BY DEF Char
<1>3. \A k \in 1 .. Len(s) : s[k] \in Nat
  BY <1>1, <1>2
<1> QED BY <1>1, <1>3, SumsAre

\* Checksums of what begins in the same way.
LEMMA SumsAgree ==
  ASSUME NEW s \in Seq(Char), NEW t \in Seq(Char), NEW l \in Nat, l <= Len(s), l <= Len(t),
         \A k \in 1 .. l : s[k] = t[k]
  PROVE  Sums(s)[l] = Sums(t)[l]
<1> DEFINE S == {n \in Nat : n <= l => Sums(s)[n] = Sums(t)[n]}
<1>1. Len(s) \in Nat /\ Len(t) \in Nat
  BY LenProperties
<1>2. /\ Sums(s)[0] = 0 /\ \A k \in 1 .. Len(s) : Sums(s)[k] = (Sums(s)[k - 1] + s[k]) % 256
      /\ Sums(t)[0] = 0 /\ \A k \in 1 .. Len(t) : Sums(t)[k] = (Sums(t)[k - 1] + t[k]) % 256
  BY CharSums
<1>3. 0 \in S
  BY <1>2
<1>4. ASSUME NEW n \in Nat, n \in S PROVE n + 1 \in S
  <2>1. SUFFICES ASSUME n + 1 <= l PROVE Sums(s)[n + 1] = Sums(t)[n + 1]
    OBVIOUS
  <2>2. n + 1 \in 1 .. l /\ n + 1 \in 1 .. Len(s) /\ n + 1 \in 1 .. Len(t) /\ (n + 1) - 1 = n /\ n <= l
    BY <1>1, <2>1
  <2>3. Sums(s)[n] = Sums(t)[n] /\ s[n + 1] = t[n + 1]
    BY <1>4, <2>2
  <2>4. Sums(s)[n + 1] = (Sums(s)[n] + s[n + 1]) % 256 /\ Sums(t)[n + 1] = (Sums(t)[n] + t[n + 1]) % 256
    BY <1>2, <2>2
  <2> QED BY <2>3, <2>4, Zenon
<1> HIDE DEF S
<1>5. Nat \subseteq S
  BY <1>3, <1>4, Induct
<1>6. l \in S
  BY <1>5
<1> QED BY <1>6 DEF S

\* How two packets that have become one are laid out: a text, what is there for its #, its
\* checksum, and a packet.
LEMMA MergedIs ==
  ASSUME NEW j \in 1 .. Len(Requests), NEW z \in Seq(Char)
  PROVE  LET t == TextOf(j)
             l == Len(t)
             e == PacketOf(j)
             m == Merged(t, z)
         IN /\ m \in Seq(Char) /\ Len(z) \in Nat /\ Len(m) = l + Len(z) + 2 + l + 4
            /\ \A k \in 1 .. l : m[k] = t[k]
            /\ \A k \in 1 .. Len(z) : m[l + k] = z[k]
            /\ m[l + Len(z) + 1] = e[l + 3] /\ m[l + Len(z) + 2] = e[l + 4]
            /\ \A k \in 1 .. Len(e) : m[l + Len(z) + 2 + k] = e[k]
<1> DEFINE t == TextOf(j)
           l == Len(t)
           e == PacketOf(j)
           d == SubSeq(e, l + 3, l + 4)
<1>1. l \in Nat /\ t \in Seq(Char) /\ e \in Seq(Char) /\ Len(e) = l + 4 /\ Len(z) \in Nat
  BY PacketParts, LenProperties
<1>2. Merged(t, z) = ((t \o z) \o d) \o e
  BY DEF Merged, PacketOf
<1> HIDE DEF t, e
<1>3. d \in Seq(Char) /\ Len(d) = 2 /\ d[1] = e[l + 3] /\ d[2] = e[l + 4]
  <2>1. l + 3 \in 1 .. Len(e) + 1 /\ l + 4 \in (l + 3) - 1 .. Len(e) /\ (l + 4) - (l + 3) + 1 = 2
        /\ l + 3 + 1 - 1 = l + 3 /\ l + 3 + 2 - 1 = l + 4
    BY <1>1
  <2>2. d \in Seq(Char) /\ Len(d) = 2 /\ \A k \in 1 .. 2 : d[k] = e[l + 3 + k - 1]
    BY <1>1, <2>1, SubSeqProperties
  <2> QED BY <2>1, <2>2
<1> HIDE DEF d
<1> DEFINE p == t \o z
           q == p \o d
           m == q \o e
<1>4. Joins(p, t, z, Char)
  BY <1>1, Cat
<1>5. p \in Seq(Char) /\ Len(p) = l + Len(z) /\ (\A k \in 1 .. l : p[k] = t[k]) /\ \A k \in 1 .. Len(z) : p[l + k] = z[k]
  BY <1>4 DEF Joins
<1> HIDE DEF p
<1>6. Joins(q, p, d, Char)
  BY <1>3, <1>5, Cat
<1>7. /\ q \in Seq(Char) /\ Len(q) = l + Len(z) + 2 /\ \A k \in 1 .. Len(p) : q[k] = p[k]
      /\ q[l + Len(z) + 1] = d[1] /\ q[l + Len(z) + 2] = d[2]
  <2>1. 1 \in 1 .. Len(d) /\ 2 \in 1 .. Len(d)
    BY <1>3
  <2>2. q[Len(p) + 1] = d[1] /\ q[Len(p) + 2] = d[2]
    BY <1>6, <2>1 DEF Joins
  <2>3. q \in Seq(Char) /\ Len(q) = Len(p) + Len(d) /\ \A k \in 1 .. Len(p) : q[k] = p[k]
    BY <1>6 DEF Joins
  <2> QED BY <1>3, <1>5, <2>2, <2>3
<1> HIDE DEF q
<1>8. Joins(m, q, e, Char)
  BY <1>1, <1>7, Cat
<1>9. /\ m \in Seq(Char) /\ Len(m) = Len(q) + Len(e) /\ (\A k \in 1 .. Len(q) : m[k] = q[k])
      /\ \A k \in 1 .. Len(e) : m[Len(q) + k] = e[k]
  BY <1>8 DEF Joins
<1>10. m = Merged(t, z)
  BY <1>2 DEF m, q, p
<1> HIDE DEF m
<1>11. Len(m) = l + Len(z) + 2 + l + 4
  BY <1>1, <1>7, <1>9
<1>12. \A k \in 1 .. l : m[k] = t[k]
  <2>1. \A k \in 1 .. l : k \in 1 .. Len(q) /\ k \in 1 .. Len(p)
    BY <1>1, <1>5, <1>7
  <2> QED BY <1>5, <1>7, <1>9, <2>1
<1>13. \A k \in 1 .. Len(z) : m[l + k] = z[k]
  <2>1. \A k \in 1 .. Len(z) : l + k \in 1 .. Len(q) /\ l + k \in 1 .. Len(p)
    BY <1>1, <1>5, <1>7
  <2> QED BY <1>5, <1>7, <1>9, <2>1
<1>14. m[l + Len(z) + 1] = e[l + 3] /\ m[l + Len(z) + 2] = e[l + 4]
  <2>1. l + Len(z) + 1 \in 1 .. Len(q) /\ l + Len(z) + 2 \in 1 .. Len(q)
    BY <1>1, <1>7
  <2> QED BY <1>3, <1>7, <1>9, <2>1
<1>15. \A k \in 1 .. Len(e) : m[l + Len(z) + 2 + k] = e[k]
  BY <1>7, <1>9
<1> QED BY <1>1, <1>9, <1>10, <1>11, <1>12, <1>13, <1>14, <1>15 DEF t, e

\* getpacket has n characters and the checksum x of a text whose # was lost, or became z,
\* and s is what has still to come of it.
MergingAt(s, n, x, j, z) ==
  LET m == Merged(TextOf(j), z)
      e == Len(TextOf(j)) + Len(z) + 2
  IN /\ n \in Len(TextOf(j)) .. e /\ x = Sums(m)[n]
     /\ Len(s) = e - n /\ \A k \in 1 .. e - n : s[k] = m[n + k]

LEMMA LostHashIs ==
  ASSUME NEW z \in LostHash
  PROVE  z \in Seq(Char) /\ Len(z) \in 0 .. 1 /\ \A k \in 1 .. Len(z) : z[k] # Hash
<1>1. CASE z = <<>>
  BY <1>1
<1>2. CASE z # <<>>
  <2>1. PICK c \in Noise \ {Hash} : z = <<c>>
    BY <1>2 DEF LostHash
  <2>2. c \in Char
    BY PacketConstantsOK DEF PacketConstantsOK, Char
  <2> QED BY <2>1, <2>2
<1> QED BY <1>1, <1>2

\* What comes until the second packet is no #, and until the # of the second packet neither.
LEMMA MergedSums ==
  ASSUME NEW j \in 1 .. Len(Requests), NEW z \in LostHash
  PROVE  LET l == Len(TextOf(j))
             m == Merged(TextOf(j), z)
         IN /\ l \in 1 .. BUFMAX - 1 /\ Len(z) \in 0 .. 1 /\ Len(m) = l + Len(z) + 2 + l + 4
            /\ \A k \in 1 .. Len(m) : Sums(m)[k] = (Sums(m)[k - 1] + m[k]) % 256
            /\ Sums(m)[l] = Sums(TextOf(j))[l]
            /\ \A k \in l + 1 .. Len(m) - 3 : m[k] # Hash
<1> DEFINE t == TextOf(j)
           l == Len(t)
           e == PacketOf(j)
           m == Merged(t, z)
<1>1. /\ l \in 1 .. BUFMAX - 1 /\ Len(e) = l + 4 /\ e[1] = Dollar /\ t \in Seq(Char)
      /\ \A k \in 1 .. l : e[k + 1] = t[k] /\ t[k] # Hash
      /\ e[l + 3] \in HexChar /\ e[l + 4] \in HexChar
  BY PacketParts
<1>2. z \in Seq(Char) /\ Len(z) \in 0 .. 1 /\ \A k \in 1 .. Len(z) : z[k] # Hash
  BY LostHashIs
<1>3. /\ m \in Seq(Char) /\ Len(m) = l + Len(z) + 2 + l + 4
      /\ \A k \in 1 .. l : m[k] = t[k]
      /\ \A k \in 1 .. Len(z) : m[l + k] = z[k]
      /\ m[l + Len(z) + 1] = e[l + 3] /\ m[l + Len(z) + 2] = e[l + 4]
      /\ \A k \in 1 .. Len(e) : m[l + Len(z) + 2 + k] = e[k]
  BY <1>2, MergedIs
<1> HIDE DEF t, e, m
<1>5. Len(m) \in Nat /\ \A k \in 1 .. Len(m) : Sums(m)[k] = (Sums(m)[k - 1] + m[k]) % 256
  BY <1>3, CharSums, ZenonT(60)
<1>6. BUFMAX \in Nat
  BY Constants
<1>7. Sums(m)[l] = Sums(t)[l]
  <2>1. l \in Nat /\ l <= Len(m) /\ l <= Len(t)
    BY <1>1, <1>2, <1>3, <1>6
  <2> QED BY <1>1, <1>3, <2>1, SumsAgree
<1>8. Dollar # Hash /\ Hash \notin HexChar
  BY DEF Dollar, Hash, HexChar
<1>9. ASSUME NEW k \in l + 1 .. Len(m) - 3 PROVE m[k] # Hash
  <2>1. l \in Nat /\ Len(z) \in Nat /\ Len(m) = l + Len(z) + 2 + l + 4
    BY <1>1, <1>2, <1>3, <1>6, SMTT(30)
  <2>2. CASE k <= l + Len(z)
    <3>1. PICK i \in 1 .. Len(z) : k = l + i
      <4>1. k - l \in 1 .. Len(z) /\ k = l + (k - l)
        BY <2>1, <2>2
      <4> QED BY <4>1
    <3> QED BY <1>2, <1>3, <3>1
  <2>3. CASE k = l + Len(z) + 1 \/ k = l + Len(z) + 2
    BY <1>1, <1>3, <1>8, <2>3
  <2>4. CASE k > l + Len(z) + 2
    <3>1. PICK i \in 1 .. l + 1 : k = l + Len(z) + 2 + i
      <4>1. k - (l + Len(z) + 2) \in 1 .. l + 1 /\ k = l + Len(z) + 2 + (k - (l + Len(z) + 2))
        BY <2>1, <2>4
      <4> QED BY <4>1
    <3>2. i \in 1 .. Len(e)
      BY <1>1, <2>1
    <3>3. m[k] = e[i]
      BY <1>3, <3>1, <3>2
    <3>4. CASE i = 1
      BY <1>1, <1>8, <3>3, <3>4
    <3>5. CASE i # 1
      <4>1. i - 1 \in 1 .. l /\ (i - 1) + 1 = i
        BY <2>1, <3>5
      <4> QED BY <1>1, <3>3, <4>1
    <3> QED BY <3>4, <3>5
  <2> QED BY <2>1, <2>2, <2>3, <2>4
<1> QED BY <1>1, <1>2, <1>3, <1>5, <1>7, <1>9 DEF t, m

LEMMA MergingNext ==
  ASSUME ErrorsShow, NEW j \in 1 .. Len(Requests), NEW z \in LostHash, NEW s \in Seq(Char), s # <<>>,
         NEW n \in 0 .. BUFMAX - 1, NEW x, MergingAt(s, n, x, j, z)
  PROVE  /\ s[1] # Hash
         /\ n + 1 < BUFMAX => MergingAt(Tail(s), n + 1, (x + s[1]) % 256, j, z)
         /\ n + 1 = BUFMAX => (x + s[1]) % 256 # 255
<1> DEFINE t == TextOf(j)
           l == Len(t)
           m == Merged(t, z)
           e == l + Len(z) + 2
<1>1. /\ l \in 1 .. BUFMAX - 1 /\ Len(z) \in 0 .. 1 /\ Len(m) = l + Len(z) + 2 + l + 4
      /\ \A k \in 1 .. Len(m) : Sums(m)[k] = (Sums(m)[k - 1] + m[k]) % 256
      /\ \A k \in l + 1 .. Len(m) - 3 : m[k] # Hash
  BY MergedSums
<1>2. n \in l .. e /\ x = Sums(m)[n] /\ Len(s) = e - n /\ \A k \in 1 .. e - n : s[k] = m[n + k]
  BY DEF MergingAt
<1> HIDE DEF t, m
<1>3. /\ Len(s) \in Nat \ {0} /\ Len(Tail(s)) = Len(s) - 1 /\ \A k \in 1 .. Len(s) - 1 : Tail(s)[k] = s[k + 1]
  BY HeadOff
<1>4. l \in Nat /\ Len(z) \in Nat /\ Len(m) = e + l + 4 /\ BUFMAX \in Nat /\ l < BUFMAX
  BY <1>1, Constants
<1> DEFINE L == Len(m)
<1> HIDE DEF l
<1>5. n + 1 \in l .. e /\ 1 \in 1 .. e - n /\ n + 1 \in 1 .. L /\ n + 1 \in l + 1 .. L - 3 /\ (n + 1) - 1 = n
  BY <1>2, <1>3, <1>4
<1>6. s[1] = m[n + 1] /\ m[n + 1] # Hash /\ (x + s[1]) % 256 = Sums(m)[n + 1]
  BY <1>1, <1>2, <1>5, SMTT(30) DEF l
<1>7. MergingAt(Tail(s), n + 1, (x + s[1]) % 256, j, z)
  <2>1. Len(Tail(s)) = e - (n + 1)
    BY <1>2, <1>3, <1>4
  <2>2. ASSUME NEW k \in 1 .. e - (n + 1) PROVE Tail(s)[k] = m[(n + 1) + k]
    <3>1. k \in 1 .. Len(s) - 1 /\ k + 1 \in 1 .. e - n /\ n + (k + 1) = (n + 1) + k
      BY <1>2, <1>3, <1>4
    <3>2. Tail(s)[k] = s[k + 1] /\ s[k + 1] = m[n + (k + 1)]
      BY <1>2, <1>3, <3>1
    <3> QED BY <3>1, <3>2
  <2> QED BY <1>5, <1>6, <2>1, <2>2 DEF MergingAt, m, l, t
<1>8. ASSUME n + 1 = BUFMAX PROVE (x + s[1]) % 256 # 255
  <2>1. ~ (Len(m) - 3 < BUFMAX)
    BY <1>2, <1>4, <1>5, <1>8
  <2>2. Sums(m)[BUFMAX] # 255
    BY <2>1 DEF ErrorsShow, m, t, TextOf
  <2> QED BY <1>6, <1>8, <2>2
<1> QED BY <1>6, <1>7, <1>8

\* The packet that is sent again is not taken as the rest of the first one.
LEMMA MergingEnds ==
  ASSUME ErrorsShow, NEW j \in 1 .. Len(Requests), NEW z \in LostHash,
         NEW n \in 0 .. BUFMAX - 1, NEW x, MergingAt(<<>>, n, x, j, z)
  PROVE  Doomed(PacketOf(j), n, x)
<1> DEFINE t == TextOf(j)
           l == Len(t)
           m == Merged(t, z)
           p == PacketOf(j)
           sum == Sums(m)
           k == l + 2
           f == [i \in 0 .. l + 1 |-> sum[n + i]]
<1>1. /\ l \in 1 .. BUFMAX - 1 /\ Len(z) \in 0 .. 1 /\ Len(m) = l + Len(z) + 2 + l + 4
      /\ \A i \in 1 .. Len(m) : sum[i] = (sum[i - 1] + m[i]) % 256
      /\ \A i \in l + 1 .. Len(m) - 3 : m[i] # Hash
  BY MergedSums
<1>2. n \in l .. l + Len(z) + 2 /\ x = sum[n] /\ 0 = l + Len(z) + 2 - n
  BY DEF MergingAt
<1>3. Len(p) = l + 4 /\ p[l + 2] = Hash /\ Digits(p[l + 3], p[l + 4]) = Sum8(t)
  BY PacketParts DEF Digits
<1>4. \A i \in 1 .. Len(p) : m[l + Len(z) + 2 + i] = p[i]
  BY LostHashIs, MergedIs
<1>5. IF Len(m) - 3 < BUFMAX THEN sum[Len(m) - 3] # Sum8(t) ELSE sum[BUFMAX] # 255
  BY DEF ErrorsShow, TextOf
<1> HIDE DEF t, m, p, sum
<1> DEFINE L == Len(m)
<1> HIDE DEF l, L
<1>6. l \in Nat /\ n = l + Len(z) + 2 /\ L = n + l + 4 /\ BUFMAX \in Nat /\ n < BUFMAX /\ l < BUFMAX /\ Len(p) = l + 4 /\ n \in Nat
  <2>1. Len(z) \in Nat /\ l \in Nat /\ BUFMAX \in Nat
    BY <1>1, Constants DEF l
  <2> QED BY <1>1, <1>2, <1>3, <2>1 DEF l, L
<1>7. ASSUME NEW i \in 1 .. k - 1 PROVE p[i] # Hash /\ f[i] = (f[i - 1] + p[i]) % 256
  <2>1. i \in 1 .. Len(p) /\ n + i \in l + 1 .. L - 3 /\ n + i \in 1 .. L /\ i \in 0 .. l + 1 /\ i - 1 \in 0 .. l + 1
        /\ n + (i - 1) = (n + i) - 1
    BY <1>2, <1>6
  <2>2. p[i] = m[n + i]
    BY <1>4, <1>6, <2>1
  <2>3. m[n + i] # Hash /\ sum[n + i] = (sum[(n + i) - 1] + m[n + i]) % 256
    BY <1>1, <2>1 DEF L, l
  <2>4. f[i] = sum[n + i] /\ f[i - 1] = sum[(n + i) - 1]
    BY <2>1
  <2> QED BY <2>2, <2>3, <2>4
<1>8. f[0] = x
  <2>1. 0 \in 0 .. l + 1 /\ n + 0 = n
    BY <1>6
  <2> QED BY <1>2, <2>1
<1>9. k \in Nat /\ k \in 1 .. Len(p) - 2 /\ p[k] = Hash /\ k + 1 = l + 3 /\ k + 2 = l + 4
  BY <1>3, <1>6 DEF l
<1>10. ASSUME n + k - 1 < BUFMAX PROVE Digits(p[k + 1], p[k + 2]) # f[k - 1]
  <2>1. L - 3 < BUFMAX /\ k - 1 \in 0 .. l + 1 /\ n + (k - 1) = L - 3
    BY <1>6, <1>10
  <2>2. f[k - 1] = sum[L - 3] /\ sum[L - 3] # Sum8(t)
    BY <1>5, <2>1 DEF L
  <2>3. Digits(p[k + 1], p[k + 2]) = Sum8(t)
    BY <1>3, <1>9 DEF l
  <2> QED BY <2>2, <2>3
<1>11. ASSUME n + k - 1 >= BUFMAX PROVE f[BUFMAX - n] # 255
  <2>1. ~ (L - 3 < BUFMAX) /\ BUFMAX - n \in 0 .. l + 1 /\ n + (BUFMAX - n) = BUFMAX
    BY <1>6, <1>11
  <2>2. f[BUFMAX - n] = sum[BUFMAX]
    BY <2>1
  <2> QED BY <1>5, <2>1, <2>2 DEF L
<1> HIDE DEF k, f
<1>12. DoomedAt(p, n, x, k, f)
  BY <1>7, <1>8, <1>9, <1>10, <1>11 DEF DoomedAt
<1> QED BY <1>9, <1>12 DEF Doomed, p

\* The # of a command is lost: the host will time out and send it again.
Merging == hs = "acked" /\ toHost = <<>> /\ \E z \in LostHash : MergingAt(toStub, count, checksum, next, z)

\* A character of a text, which the # follows: what it is tells whether the text is all there.
LEMMA NextOfText ==
  ASSUME NEW j \in 1 .. Len(Requests), NEW s \in Seq(Char), NEW n \in Nat, NEW x, NEW b \in Buffer,
         Collected(j, n, x, b), Begins(s, j, n + 2)
  PROVE  /\ s[1] = Hash => HasText(j, n, x, [b EXCEPT ![n] = 0])
         /\ s[1] # Hash =>
              /\ n + 1 < BUFMAX /\ Begins(Tail(s), j, (n + 1) + 2)
              /\ \A d : (\A i \in 0 .. n : d[i] = IF i = n THEN s[1] ELSE b[i])
                         => Collected(j, n + 1, (x + s[1]) % 256, d)
<1> DEFINE t == TextOf(j)
           l == Len(t)
           e == PacketOf(j)
<1>1. l \in 1 .. BUFMAX - 1 /\ Len(e) = l + 4 /\ e[l + 2] = Hash /\ \A k \in 1 .. l : e[k + 1] = t[k] /\ t[k] # Hash
  BY PacketParts
<1>2. n \in 0 .. l
  BY DEF Collected
<1>3. s[1] = e[n + 2] /\ (n + 2 < Len(e) => Begins(Tail(s), j, (n + 2) + 1))
  BY BeginsTail
<1> HIDE DEF e, t
<1>4. BUFMAX \in Nat /\ l \in Nat /\ l < BUFMAX
  BY <1>1, Constants
<1>5. CASE n = l
  <2>1. s[1] = Hash
    BY <1>1, <1>3, <1>5
  <2>2. HasText(j, n, x, [b EXCEPT ![n] = 0])
    BY <1>5, CollectedAll DEF t
  <2> QED BY <2>1, <2>2
<1>6. CASE n # l
  <2>1. n + 1 \in 1 .. l /\ (n + 1) + 1 = n + 2 /\ n < l /\ n + 2 < Len(e) /\ (n + 2) + 1 = (n + 1) + 2 /\ n + 1 < BUFMAX
    BY <1>1, <1>2, <1>4, <1>6
  <2>2. s[1] = t[n + 1] /\ s[1] # Hash
    BY <1>1, <1>3, <2>1
  <2>3. Begins(Tail(s), j, (n + 1) + 2)
    BY <1>3, <2>1
  <2>4. Collected(j, n + 1, (x + s[1]) % 256,
                  [i \in 0 .. BUFMAX |-> IF i = n THEN s[1] ELSE IF i = BUFMAX THEN 0 ELSE b[i]])
    BY <2>1, <2>2, CollectedNext, SMTT(30) DEF t
  <2> DEFINE f == [i \in 0 .. BUFMAX |-> IF i = n THEN s[1] ELSE IF i = BUFMAX THEN 0 ELSE b[i]]
  <2>5. ASSUME NEW d, \A i \in 0 .. n : d[i] = IF i = n THEN s[1] ELSE b[i]
        PROVE  \A k \in 1 .. n + 1 : f[k - 1] = d[k - 1]
    <3>1. \A k \in 1 .. n + 1 : k - 1 \in 0 .. BUFMAX /\ k - 1 # BUFMAX /\ k - 1 \in 0 .. n
      BY <1>4, <2>1
    <3> QED BY <2>5, <3>1
  <2> HIDE DEF f
  <2>6. ASSUME NEW d, \A i \in 0 .. n : d[i] = IF i = n THEN s[1] ELSE b[i]
        PROVE  Collected(j, n + 1, (x + s[1]) % 256, d)
    BY <2>4, <2>5, <2>6 DEF Collected, f
  <2> QED BY <2>1, <2>2, <2>3, <2>6
<1> QED BY <1>5, <1>6

LEMMA MergingBegins ==
  ASSUME NEW j \in 1 .. Len(Requests), NEW z \in LostHash, NEW s \in Seq(Char), Len(s) = Len(z) + 2,
         \A k \in 1 .. Len(z) : s[k] = z[k],
         s[Len(z) + 1] = PacketOf(j)[Len(TextOf(j)) + 3], s[Len(z) + 2] = PacketOf(j)[Len(TextOf(j)) + 4]
  PROVE  MergingAt(s, Len(TextOf(j)), Sums(TextOf(j))[Len(TextOf(j))], j, z)
<1> DEFINE t == TextOf(j)
           l == Len(t)
           e == PacketOf(j)
           m == Merged(t, z)
           h == l + Len(z) + 2
<1>1. /\ \A k \in 1 .. Len(z) : m[l + k] = z[k]
      /\ m[l + Len(z) + 1] = e[l + 3] /\ m[l + Len(z) + 2] = e[l + 4]
  BY LostHashIs, MergedIs
<1>2. l \in 1 .. BUFMAX - 1 /\ Len(z) \in 0 .. 1 /\ Sums(m)[l] = Sums(t)[l] /\ BUFMAX \in Nat
  BY MergedSums, Constants
<1>3. s[Len(z) + 1] = e[l + 3] /\ s[Len(z) + 2] = e[l + 4]
  OBVIOUS
<1> HIDE DEF t, e, m
<1>4. l \in l .. h /\ Len(s) = h - l /\ \A k \in 1 .. h - l : k \in 1 .. Len(z) \/ k = Len(z) + 1 \/ k = Len(z) + 2
  BY <1>2
<1>5. l + Len(z) + 1 = l + (Len(z) + 1) /\ l + Len(z) + 2 = l + (Len(z) + 2)
  BY <1>2
<1>6. \A k \in 1 .. h - l : s[k] = m[l + k]
  BY <1>1, <1>3, <1>4, <1>5
<1> QED BY <1>2, <1>4, <1>6 DEF MergingAt, m, t

\* The # of a text is lost, or becomes another character.
LEMMA HashLost ==
  ASSUME NEW j \in 1 .. Len(Requests), NEW s \in Seq(Char), From(s, j, Len(TextOf(j)) + 2)
  PROVE  /\ s[1] = Hash
         /\ MergingAt(Tail(s), Len(TextOf(j)), Sums(TextOf(j))[Len(TextOf(j))], j, <<>>)
         /\ \A c \in Noise \ {Hash}, u \in Seq(Char) :
              Garbles(s, u, c, Char)
                => MergingAt(u, Len(TextOf(j)), Sums(TextOf(j))[Len(TextOf(j))], j, <<c>>)
<1> DEFINE l == Len(TextOf(j))
           e == PacketOf(j)
<1>1. l \in Nat /\ Len(e) = l + 4 /\ e[l + 2] = Hash
  <2>1. l \in 1 .. BUFMAX - 1 /\ BUFMAX \in Nat
    BY PacketParts, Constants
  <2> QED BY <2>1, PacketParts
<1>2. Len(s) = Len(e) - (l + 2) + 1 /\ \A k \in 1 .. Len(s) : s[k] = e[(l + 2) + k - 1]
  BY DEF From
<1> HIDE DEF l, e
<1>3. Len(s) = 3 /\ s[1] = Hash /\ s[2] = e[l + 3] /\ s[3] = e[l + 4]
  <2>1. Len(s) = 3 /\ (l + 2) + 1 - 1 = l + 2 /\ (l + 2) + 2 - 1 = l + 3 /\ (l + 2) + 3 - 1 = l + 4
    BY <1>1, <1>2
  <2>2. 1 \in 1 .. Len(s) /\ 2 \in 1 .. Len(s) /\ 3 \in 1 .. Len(s)
    BY <2>1
  <2>3. s[1] = e[(l + 2) + 1 - 1] /\ s[2] = e[(l + 2) + 2 - 1] /\ s[3] = e[(l + 2) + 3 - 1]
    BY <1>2, <2>2
  <2> QED BY <1>1, <2>1, <2>3
<1>4. MergingAt(Tail(s), l, Sums(TextOf(j))[l], j, <<>>)
  <2> DEFINE z == <<>>
             r == Tail(s)
  <2>1. z \in LostHash /\ Len(z) = 0 /\ Len(z) + 2 = 2 /\ Len(z) + 1 = 1
    BY DEF LostHash
  <2>2. s # <<>>
    <3>1. CASE s = <<>>
      <4>1. Len(s) = 0
        BY <3>1
      <4> QED BY <1>3, <4>1
    <3> QED BY <3>1
  <2>3. r \in Seq(Char) /\ Len(r) = Len(s) - 1 /\ \A k \in 1 .. Len(s) - 1 : r[k] = s[k + 1]
    BY <2>2, HeadOff
  <2>4. Len(r) = 2 /\ r[1] = e[l + 3] /\ r[2] = e[l + 4]
    <3>1. 1 \in 1 .. Len(s) - 1 /\ 2 \in 1 .. Len(s) - 1 /\ 1 + 1 = 2 /\ 2 + 1 = 3
      BY <1>3
    <3> HIDE DEF r, z
    <3>2. r[1] = s[1 + 1] /\ r[2] = s[2 + 1] /\ Len(r) = Len(s) - 1
      BY <2>3, <3>1
    <3>3. r[1] = s[2] /\ r[2] = s[3] /\ Len(r) = 2
      BY <1>3, <3>1, <3>2
    <3> QED BY <1>3, <3>3
  <2> HIDE DEF z, r
  <2>5. \A k \in 1 .. Len(z) : r[k] = z[k]
    BY <2>1
  <2>6. MergingAt(r, l, Sums(TextOf(j))[l], j, z)
    BY <2>1, <2>3, <2>4, <2>5, MergingBegins DEF l, e
  <2> QED BY <2>6 DEF z, r
<1>5. ASSUME NEW c \in Noise \ {Hash}, NEW u \in Seq(Char), Garbles(s, u, c, Char)
      PROVE  MergingAt(u, l, Sums(TextOf(j))[l], j, <<c>>)
  <2> DEFINE z == <<c>>
  <2>1. z \in LostHash /\ Len(z) = 1 /\ z[1] = c /\ Len(z) + 2 = 3 /\ Len(z) + 1 = 2
    BY DEF LostHash
  <2>2. Len(u) = 3 /\ u[1] = c /\ u[2] = e[l + 3] /\ u[3] = e[l + 4]
    <3>1. Len(u) = Len(s) /\ u[1] = c /\ \A k \in 2 .. Len(s) : u[k] = s[k]
      BY <1>5 DEF Garbles
    <3> QED BY <1>3, <3>1
  <2> HIDE DEF z
  <2>3. \A k \in 1 .. Len(z) : u[k] = z[k]
    BY <2>1, <2>2
  <2>4. MergingAt(u, l, Sums(TextOf(j))[l], j, z)
    BY <2>1, <2>2, <2>3, MergingBegins DEF l, e
  <2> QED BY <2>4 DEF z
<1> QED BY <1>3, <1>4, <1>5 DEF l

\* The functions that Unrle names.
Dec(r) == CHOOSE f : f = [i \in 1 .. Len(r) + 1 |->
            IF i > Len(r) THEN <<>>
            ELSE IF i + 2 <= Len(r) /\ r[i + 1] = Star
              THEN [k \in 1 .. r[i + 2] - 28 |-> r[i]] \o f[i + 3]
              ELSE <<r[i]>> \o f[i + 1]]
Coded(r, i) == i + 2 <= Len(r) /\ r[i + 1] = Star
DecHead(r, i) == IF Coded(r, i) THEN [k \in 1 .. r[i + 2] - 28 |-> r[i]] ELSE <<r[i]>>
DecStep(r) == [i \in 1 .. Len(r) |-> IF Coded(r, i) THEN i + 3 ELSE i + 1]

LEMMA Repeated ==
  ASSUME NEW S, NEW c \in S, NEW n \in Int
  PROVE  [k \in 1 .. n |-> c] \in Seq(S) /\ (n \in Nat => Len([k \in 1 .. n |-> c]) = n)
<1> DEFINE f == [k \in 1 .. n |-> c]
<1>1. PICK m \in Nat : 1 .. n = 1 .. m /\ (n \in Nat => m = n)
  <2>1. CASE n \in Nat
    BY <2>1
  <2>2. CASE n \notin Nat
    <3>1. 1 .. n = 1 .. 0
      BY <2>2
    <3> QED BY <2>2, <3>1
  <2> QED BY <2>1, <2>2
<1>2. f \in [1 .. m -> S]
  BY <1>1
<1> HIDE DEF f
<1>3. f \in Seq(S) /\ Len(f) = m
  BY <1>2, IsSequence
<1> QED BY <1>1, <1>3 DEF f

LEMMA DecHeadIs ==
  ASSUME NEW r \in Seq(Char), NEW i \in 1 .. Len(r)
  PROVE  DecHead(r, i) \in Seq(Char) /\ DecStep(r)[i] \in i + 1 .. Len(r) + 1
<1>1. Len(r) \in Nat /\ \A k \in 1 .. Len(r) : r[k] \in Char
  BY LenProperties, ElementOfSeq
<1>2. CASE Coded(r, i)
  <2>1. i + 2 \in 1 .. Len(r)
    BY <1>1, <1>2 DEF Coded
  <2>2. r[i + 2] - 28 \in Int /\ r[i] \in Char
    <3>1. r[i + 2] \in Char /\ r[i] \in Char
      BY <1>1, <2>1
    <3>2. \A c \in Char : c - 28 \in Int
      BY DEF Char
    <3> QED BY <3>1, <3>2
  <2>3. DecHead(r, i) \in Seq(Char)
    BY <1>2, <2>2, Repeated DEF DecHead
  <2>4. i + 3 \in i + 1 .. Len(r) + 1
    BY <1>1, <2>1
  <2> QED BY <1>2, <2>3, <2>4 DEF DecStep
<1>3. CASE ~ Coded(r, i)
  <2>1. <<r[i]>> \in Seq(Char)
    BY <1>1, One
  <2>2. i + 1 \in i + 1 .. Len(r) + 1
    BY <1>1
  <2> QED BY <1>3, <2>1, <2>2 DEF DecHead, DecStep
<1> QED BY <1>2, <1>3

LEMMA DecIs ==
  ASSUME NEW r \in Seq(Char)
  PROVE  /\ Unrle(r) = Dec(r)[1] /\ Len(r) \in Nat
         /\ Dec(r)[Len(r) + 1] = <<>>
         /\ \A i \in 1 .. Len(r) : Dec(r)[i] = DecHead(r, i) \o Dec(r)[DecStep(r)[i]]
         /\ \A i \in 1 .. Len(r) + 1 : Dec(r)[i] \in Seq(Char)
<1>0. PICK n \in Nat : n = Len(r)
  BY LenProperties
<1> DEFINE V == Seq(Char)
           step == DecStep(r)
           G == [x \in (1 .. n) \X V |-> DecHead(r, x[1]) \o x[2]]
           Body(f, i) == IF i > n THEN <<>>
                         ELSE IF i + 2 <= n /\ r[i + 1] = Star
                           THEN [k \in 1 .. r[i + 2] - 28 |-> r[i]] \o f[i + 3]
                           ELSE <<r[i]>> \o f[i + 1]
<1>1. \A i \in 1 .. n : step[i] \in i + 1 .. n + 1 /\ DecHead(r, i) \in V
  BY <1>0, DecHeadIs
<1>2. \A f : \A i \in 1 .. n : Body(f, i) = DecHead(r, i) \o f[step[i]]
  <2> TAKE f
  <2> TAKE i \in 1 .. n
  <2>1. ~ (i > n)
    OBVIOUS
  <2>2. CASE Coded(r, i)
    <3>1. step[i] = i + 3 /\ i + 2 <= n /\ r[i + 1] = Star
      BY <1>0, <2>2 DEF DecStep, Coded
    <3> QED BY <2>1, <2>2, <3>1 DEF DecHead
  <2>3. CASE ~ Coded(r, i)
    <3>1. step[i] = i + 1 /\ ~ (i + 2 <= n /\ r[i + 1] = Star)
      BY <1>0, <2>3 DEF DecStep, Coded
    <3> QED BY <2>1, <2>3, <3>1 DEF DecHead
  <2> QED BY <2>2, <2>3
<1>3. \A f : Body(f, n + 1) = <<>>
  OBVIOUS
<1>4. \A i \in 1 .. n : \A v \in V : G[<<i, v>>] = DecHead(r, i) \o v
  OBVIOUS
<1>5. G \in [(1 .. n) \X V -> V]
  <2>1. ASSUME NEW x \in (1 .. n) \X V PROVE DecHead(r, x[1]) \o x[2] \in V
    <3>1. x[1] \in 1 .. n /\ x[2] \in V
      OBVIOUS
    <3>2. DecHead(r, x[1]) \in V
      BY <1>1, <3>1
    <3> QED BY <3>1, <3>2, ConcatProperties
  <2> QED BY <2>1
<1>6. <<>> \in V
  BY EmptySeq
<1>7. Dec(r) = CHOOSE f : f = [i \in 1 .. n + 1 |-> Body(f, i)]
  BY <1>0 DEF Dec
<1>8. \A i \in 1 .. n : step[i] \in i + 1 .. n + 1
  BY <1>1
<1> HIDE DEF G, V, step, Body
<1>9. PICK f \in [1 .. n + 1 -> V] : Precedes(f, 1, n, <<>>, step, G)
  BY <1>5, <1>6, <1>8, BackwardRecursion
<1>10. ASSUME NEW i \in 1 .. n + 1 PROVE f[i] = Body(f, i)
  <2>1. CASE i = n + 1
    BY <1>3, <1>9, <2>1 DEF Precedes
  <2>2. CASE i \in 1 .. n
    <3>1. f[i] = G[<<i, f[step[i]]>>]
      BY <1>9, <2>2 DEF Precedes
    <3>2. step[i] \in 1 .. n + 1
      BY <1>8, <2>2
    <3>3. f[step[i]] \in V
      BY <3>2
    <3>4. G[<<i, f[step[i]]>>] = DecHead(r, i) \o f[step[i]]
      BY <1>4, <2>2, <3>3
    <3>5. Body(f, i) = DecHead(r, i) \o f[step[i]]
      BY <1>2, <2>2
    <3> QED BY <3>1, <3>4, <3>5
  <2> QED BY <2>1, <2>2
<1>11. f = [i \in 1 .. n + 1 |-> Body(f, i)]
  BY <1>10
<1> DEFINE g == Dec(r)
<1>12. g = [i \in 1 .. n + 1 |-> Body(g, i)]
  BY <1>7, <1>11
<1> HIDE DEF g
<1>13. g[n + 1] = <<>>
  BY <1>3, <1>12
<1>14. ASSUME NEW i \in 1 .. n PROVE g[i] = DecHead(r, i) \o g[step[i]]
  <2>1. i \in 1 .. n + 1
    OBVIOUS
  <2>2. g[i] = Body(g, i)
    BY <1>12, <2>1, Zenon
  <2> QED BY <1>2, <2>2
<1>15. Heeds(g, n, V, <<>>, step, G)
  BY <1>4, <1>13, <1>14 DEF Heeds
<1>16. \A i \in 1 .. n + 1 : g[i] \in V
  BY <1>5, <1>6, <1>8, <1>15, BackwardTyped
<1>17. Unrle(r) = g[1]
  BY DEF Unrle, Dec, g
<1> QED BY <1>0, <1>13, <1>14, <1>16, <1>17 DEF g, V, step

\* e is r from p on, and u is s from i on.
Suffix(r, p, e) == p \in 1 .. Len(r) + 1 /\ Len(r) + 1 = p + Len(e) /\ \A k \in 1 .. Len(e) : r[p + k - 1] = e[k]
Rest(u, s, i) == u \in Seq(Char) /\ Len(s) + 1 = i + Len(u) /\ \A k \in 1 .. Len(u) : u[k] = s[i + k - 1]

LEMMA SuffixJoin ==
  ASSUME NEW r \in Seq(Char), NEW h \in Seq(Char), NEW e \in Seq(Char), NEW p, Suffix(r, p, h \o e)
  PROVE  /\ p + Len(h) \in Nat /\ Suffix(r, p + Len(h), e) /\ p + Len(h) <= Len(r) + 1
         /\ \A k \in 1 .. Len(h) : r[p + k - 1] = h[k]
<1> DEFINE u == h \o e
           q == p + Len(h)
<1>1. Joins(u, h, e, Char)
  BY Cat
<1>2. Len(r) \in Nat
  BY LenProperties
<1>3. Suffix(r, p, u)
  OBVIOUS
<1> HIDE DEF u
<1>4. /\ Len(u) = Len(h) + Len(e) /\ Len(h) \in Nat /\ Len(e) \in Nat
      /\ \A i \in 1 .. Len(h) : u[i] = h[i]
      /\ \A i \in 1 .. Len(e) : u[Len(h) + i] = e[i]
  BY <1>1 DEF Joins
<1>5. p \in 1 .. Len(r) + 1 /\ Len(r) + 1 = p + Len(u) /\ \A k \in 1 .. Len(u) : r[p + k - 1] = u[k]
  BY <1>3 DEF Suffix
<1>6. q \in 1 .. Len(r) + 1 /\ Len(r) + 1 = q + Len(e)
  BY <1>2, <1>4, <1>5
<1>7. ASSUME NEW k \in 1 .. Len(e) PROVE r[q + k - 1] = e[k]
  <2>1. Len(h) + k \in 1 .. Len(u) /\ p + (Len(h) + k) - 1 = q + k - 1
    BY <1>4, <1>5
  <2>2. r[p + (Len(h) + k) - 1] = u[Len(h) + k]
    BY <1>5, <2>1
  <2> QED BY <1>4, <2>1, <2>2
<1>8. ASSUME NEW k \in 1 .. Len(h) PROVE r[p + k - 1] = h[k]
  <2>1. k \in 1 .. Len(u)
    BY <1>4
  <2> QED BY <1>4, <1>5, <2>1
<1> HIDE DEF q
<1>9. Suffix(r, q, e)
  BY <1>6, <1>7 DEF Suffix
<1>10. q \in Nat /\ q <= Len(r) + 1
  BY <1>2, <1>6
<1> QED BY <1>8, <1>9, <1>10 DEF q

\* n times the same, and then the rest.
LEMMA RestMore ==
  ASSUME NEW s \in Seq(Char), NEW i \in 1 .. Len(s), NEW n \in Nat, i + n \in i + 1 .. Len(s) + 1,
         \A k \in 1 .. n - 1 : s[i + k] = s[i],
         NEW h \in Seq(Char), Len(h) = n, \A k \in 1 .. n : h[k] = s[i], NEW u, Rest(u, s, i + n)
  PROVE  Rest(h \o u, s, i)
<1> DEFINE w == h \o u
<1>1. u \in Seq(Char) /\ Len(s) + 1 = (i + n) + Len(u) /\ \A k \in 1 .. Len(u) : u[k] = s[(i + n) + k - 1]
  BY DEF Rest
<1>2. Joins(w, h, u, Char)
  BY <1>1, Cat
<1> HIDE DEF w
<1>3. /\ w \in Seq(Char) /\ Len(w) = n + Len(u) /\ Len(u) \in Nat
      /\ \A k \in 1 .. n : w[k] = h[k]
      /\ \A k \in 1 .. Len(u) : w[n + k] = u[k]
  BY <1>2 DEF Joins
<1>4. Len(s) + 1 = i + Len(w)
  BY <1>1, <1>3
<1>5. ASSUME NEW k \in 1 .. Len(w) PROVE w[k] = s[i + k - 1]
  <2>1. CASE k \in 1 .. n
    <3>1. w[k] = s[i]
      BY <1>3, <2>1
    <3>2. CASE k = 1
      <4>1. i + k - 1 = i
        BY <3>2
      <4> QED BY <3>1, <4>1
    <3>3. CASE k # 1
      <4>1. k - 1 \in 1 .. n - 1 /\ i + (k - 1) = i + k - 1
        BY <2>1, <3>3
      <4>2. s[i + (k - 1)] = s[i]
        BY <4>1
      <4> QED BY <3>1, <4>1, <4>2
    <3> QED BY <3>2, <3>3
  <2>2. CASE k \notin 1 .. n
    <3>1. k - n \in 1 .. Len(u) /\ n + (k - n) = k /\ (i + n) + (k - n) - 1 = i + k - 1
      BY <1>3, <2>2
    <3>2. w[n + (k - n)] = u[k - n] /\ u[k - n] = s[(i + n) + (k - n) - 1]
      BY <1>1, <1>3, <3>1
    <3> QED BY <3>1, <3>2
  <2> QED BY <2>1, <2>2
<1>6. Rest(w, s, i)
  BY <1>3, <1>4, <1>5 DEF Rest
<1> QED BY <1>6 DEF w

\* What putpacket sends is what the host makes of it, if there is no * in it.
LEMMA UnrleRle ==
  ASSUME NEW s \in Seq(Char), \A k \in 1 .. Len(s) : s[k] # Star
  PROVE  Unrle(Rle(s)) = s
<1> DEFINE r == Rle(s)
<1>1. /\ r = Enc(s)[1] /\ Len(s) \in Nat
      /\ Enc(s)[Len(s) + 1] = <<>>
      /\ \A i \in 1 .. Len(s) : Enc(s)[i] = EncHead(s, i) \o Enc(s)[EncStep(s)[i]]
      /\ \A i \in 1 .. Len(s) + 1 : Enc(s)[i] \in Seq(Char)
  BY EncIs
<1>2. r \in Seq(Char)
  BY RleIs
<1> HIDE DEF r
<1>3. /\ Unrle(r) = Dec(r)[1] /\ Len(r) \in Nat
      /\ Dec(r)[Len(r) + 1] = <<>>
      /\ \A i \in 1 .. Len(r) : Dec(r)[i] = DecHead(r, i) \o Dec(r)[DecStep(r)[i]]
      /\ \A i \in 1 .. Len(r) + 1 : Dec(r)[i] \in Seq(Char)
  BY <1>2, DecIs
<1> DEFINE S == {i \in 1 .. Len(s) + 1 : \A p \in 1 .. Len(r) + 1 : Suffix(r, p, Enc(s)[i]) => Rest(Dec(r)[p], s, i)}
           n == Len(s) + 1
<1>4. n \in S
  <2>1. n \in 1 .. Len(s) + 1
    BY <1>1
  <2>2. ASSUME NEW p \in 1 .. Len(r) + 1, Suffix(r, p, Enc(s)[n]) PROVE Rest(Dec(r)[p], s, n)
    <3>1. Len(r) + 1 = p + 0
      BY <1>1, <2>2 DEF Suffix
    <3>2. p = Len(r) + 1
      BY <1>3, <3>1
    <3>3. Dec(r)[p] = <<>>
      BY <1>3, <3>2
    <3>4. Rest(<<>>, s, n)
      BY <1>1 DEF Rest
    <3> QED BY <3>3, <3>4
  <2> QED BY <2>1, <2>2
<1>5. ASSUME NEW i \in 1 .. n - 1, \A j \in i + 1 .. n : j \in S PROVE i \in S
  <2>1. i \in 1 .. Len(s) /\ i \in 1 .. Len(s) + 1
    BY <1>1
  <2>2. SUFFICES ASSUME NEW p \in 1 .. Len(r) + 1, Suffix(r, p, Enc(s)[i]) PROVE Rest(Dec(r)[p], s, i)
    BY <2>1
  <2> DEFINE h == EncHead(s, i)
             j == EncStep(s)[i]
             e == Enc(s)[j]
  <2>3. /\ h \in Seq(Char) /\ Len(h) >= 1 /\ j \in i + 1 .. Len(s) + 1
    BY <2>1, EncHeadIs
  <2>4. j \in 1 .. Len(s) + 1 /\ e \in Seq(Char) /\ Enc(s)[i] = h \o e
    BY <1>1, <2>1, <2>3
  <2>5. \A q \in 1 .. Len(r) + 1 : Suffix(r, q, e) => Rest(Dec(r)[q], s, j)
    <3>1. j \in S
      BY <1>5, <2>3
    <3> QED BY <3>1
  <2> HIDE DEF S
  <2>6. Suffix(r, p, h \o e)
    BY <2>2, <2>4
  <2>7. /\ p + Len(h) \in Nat /\ Suffix(r, p + Len(h), e) /\ p + Len(h) <= Len(r) + 1
        /\ \A k \in 1 .. Len(h) : r[p + k - 1] = h[k]
    BY <1>2, <2>3, <2>4, <2>6, SuffixJoin, SMTT(30)
  <2>8. p \in 1 .. Len(r) /\ p + Len(h) \in 1 .. Len(r) + 1 /\ p \in Nat /\ Len(h) \in Nat
    <3>1. Len(h) \in Nat
      BY <2>3, LenProperties
    <3> QED BY <1>3, <2>3, <2>7, <3>1
  <2>9. s[i] \in Char /\ RunLen(s, i) \in 1 .. 99 /\ i + RunLen(s, i) \in i + 1 .. Len(s) + 1
        /\ \A k \in 1 .. RunLen(s, i) - 1 : s[i + k] = s[i]
    BY <2>1, RunLenIs, ElementOfSeq
  <2>10. Dec(r)[p] = DecHead(r, p) \o Dec(r)[DecStep(r)[p]]
    BY <1>3, <2>8
  <2>11. CASE RunLen(s, i) > 3
    <3> DEFINE l == RunLen(s, i)
    <3>1. h = <<s[i], Star, l + 28>> /\ j = i + l
      BY <2>1, <2>11 DEF EncHead, EncStep
    <3>2. Len(h) = 3 /\ h[1] = s[i] /\ h[2] = Star /\ h[3] = l + 28 /\ 1 \in 1 .. Len(h) /\ 2 \in 1 .. Len(h) /\ 3 \in 1 .. Len(h)
      BY <3>1
    <3> HIDE DEF h, j, e, l
    <3>3. r[p + 1 - 1] = h[1] /\ r[p + 2 - 1] = h[2] /\ r[p + 3 - 1] = h[3]
      BY <2>7, <3>2
    <3>4. p + 1 - 1 = p /\ p + 2 - 1 = p + 1 /\ p + 3 - 1 = p + 2 /\ p + 2 <= Len(r) /\ p + Len(h) = p + 3
      BY <1>3, <2>7, <2>8, <3>2
    <3>5. r[p] = s[i] /\ r[p + 1] = Star /\ r[p + 2] = l + 28
      BY <3>2, <3>3, <3>4
    <3>6. Coded(r, p) /\ DecStep(r)[p] = p + 3
      BY <2>8, <3>4, <3>5 DEF Coded, DecStep
    <3>7. l \in Nat /\ l + 28 - 28 = l
      <4>1. \A x \in 1 .. 99 : x \in Nat /\ x + 28 - 28 = x
        OBVIOUS
      <4>2. l \in 1 .. 99
        BY <2>9 DEF l
      <4> QED BY <4>1, <4>2
    <3> DEFINE d == [k \in 1 .. l |-> s[i]]
    <3>8. DecHead(r, p) = d
      BY <3>5, <3>6, <3>7 DEF DecHead
    <3>9. d \in Seq(Char) /\ Len(d) = l /\ \A k \in 1 .. l : d[k] = s[i]
      BY <2>9, <3>7, Repeated
    <3> HIDE DEF d
    <3>10. Rest(Dec(r)[p + 3], s, i + l)
      <4>1. Suffix(r, p + 3, e) /\ p + 3 \in 1 .. Len(r) + 1
        BY <2>7, <2>8, <3>4
      <4> QED BY <2>5, <3>1, <4>1
    <3>11. Rest(d \o Dec(r)[p + 3], s, i)
      BY <2>1, <2>9, <3>7, <3>9, <3>10, RestMore DEF l
    <3> QED BY <2>10, <3>6, <3>8, <3>11
  <2>12. CASE ~ (RunLen(s, i) > 3)
    <3>1. h = <<s[i]>> /\ j = i + 1
      BY <2>1, <2>12 DEF EncHead, EncStep
    <3>2. Len(h) = 1 /\ h[1] = s[i] /\ 1 \in 1 .. Len(h)
      BY <3>1
    <3>3. e = Enc(s)[i + 1] /\ e \in Seq(Char)
      BY <2>4, <3>1
    <3> HIDE DEF h, j, e
    <3>4. r[p + 1 - 1] = h[1]
      BY <2>7, <3>2
    <3>5. p + 1 - 1 = p /\ p + Len(h) = p + 1
      BY <2>8, <3>2
    <3>6. r[p] = s[i]
      BY <3>2, <3>4, <3>5
    <3>7. ~ Coded(r, p)
      <4>1. SUFFICES ASSUME p + 2 <= Len(r) PROVE r[p + 1] # Star
        BY DEF Coded
      <4>2. Len(r) + 1 = (p + 1) + Len(e) /\ \A k \in 1 .. Len(e) : r[(p + 1) + k - 1] = e[k]
        BY <2>7, <3>5 DEF Suffix
      <4>3. Len(e) \in Nat
        BY <3>3, LenProperties
      <4>4. 1 \in 1 .. Len(e) /\ (p + 1) + 1 - 1 = p + 1
        BY <1>3, <2>8, <4>1, <4>2, <4>3
      <4>5. r[p + 1] = e[1]
        BY <4>2, <4>4
      <4>6. i + 1 \in 1 .. Len(s)
        <5>1. CASE i = Len(s)
          <6>1. e = <<>>
            BY <1>1, <3>3, <5>1
          <6>2. Len(e) = 0
            BY <6>1
          <6> QED BY <4>4, <6>2
        <5> QED BY <1>1, <2>1, <5>1
      <4> DEFINE g == EncHead(s, i + 1)
                 f == Enc(s)[EncStep(s)[i + 1]]
      <4>7. g \in Seq(Char) /\ g[1] = s[i + 1] /\ Len(g) >= 1 /\ EncStep(s)[i + 1] \in (i + 1) + 1 .. Len(s) + 1
        BY <4>6, EncHeadIs
      <4>8. EncStep(s)[i + 1] \in 1 .. Len(s) + 1
        BY <1>1, <2>1, <4>7
      <4>9. f \in Seq(Char) /\ e = g \o f
        BY <1>1, <3>3, <4>6, <4>8
      <4> HIDE DEF g, f
      <4>10. Joins(g \o f, g, f, Char)
        BY <4>7, <4>9, Cat
      <4>11. (g \o f)[1] = g[1]
        <5>1. Len(g) \in Nat
          BY <4>7, LenProperties
        <5>2. 1 \in 1 .. Len(g)
          BY <4>7, <5>1
        <5> QED BY <4>10, <5>2 DEF Joins
      <4>12. e[1] = s[i + 1]
        BY <4>7, <4>9, <4>11
      <4> QED BY <4>5, <4>6, <4>12
    <3>8. DecStep(r)[p] = p + 1 /\ DecHead(r, p) = <<s[i]>>
      BY <2>8, <3>6, <3>7 DEF DecStep, DecHead
    <3> DEFINE d == <<s[i]>>
    <3>9. d \in Seq(Char) /\ Len(d) = 1 /\ d[1] = s[i]
      BY <2>9, One
    <3> HIDE DEF d
    <3>10. \A k \in 1 .. 1 : d[k] = s[i]
      BY <3>9
    <3>11. \A k \in 1 .. 1 - 1 : s[i + k] = s[i]
      OBVIOUS
    <3>12. Rest(Dec(r)[p + 1], s, i + 1)
      <4>1. Suffix(r, p + 1, e) /\ p + 1 \in 1 .. Len(r) + 1
        BY <2>7, <2>8, <3>5
      <4> QED BY <2>5, <3>1, <4>1
    <3>13. i + 1 \in i + 1 .. Len(s) + 1
      BY <1>1, <2>1
    <3>14. Rest(d \o Dec(r)[p + 1], s, i)
      BY <2>1, <3>9, <3>10, <3>11, <3>12, <3>13, RestMore
    <3> QED BY <2>10, <3>8, <3>14 DEF d
  <2> QED BY <2>9, <2>11, <2>12
<1> HIDE DEF S
<1>6. n \in Nat /\ 1 \in 1 .. n
  BY <1>1
<1> HIDE DEF n
<1>7. 1 \in S
  BY <1>4, <1>5, <1>6, Downwards
<1>8. Suffix(r, 1, Enc(s)[1])
  <2>1. 1 \in 1 .. Len(r) + 1 /\ Len(r) + 1 = 1 + Len(r) /\ \A k \in 1 .. Len(r) : 1 + k - 1 = k
    BY <1>3
  <2> QED BY <1>1, <2>1 DEF Suffix
<1>9. Rest(Dec(r)[1], s, 1)
  <2>1. 1 \in 1 .. Len(r) + 1
    BY <1>3
  <2> QED BY <1>7, <1>8, <2>1 DEF S
<1> DEFINE u == Dec(r)[1]
<1>10. u \in Seq(Char) /\ Len(s) + 1 = 1 + Len(u) /\ \A k \in 1 .. Len(u) : u[k] = s[1 + k - 1]
  BY <1>9 DEF Rest
<1> HIDE DEF u
<1>11. Len(u) = Len(s) /\ \A k \in 1 .. Len(u) : u[k] = s[k]
  <2>1. Len(u) \in Nat /\ \A k \in 1 .. Len(u) : 1 + k - 1 = k
    BY <1>10, LenProperties
  <2> QED BY <1>1, <1>10, <2>1
<1>12. u = s
  BY <1>10, <1>11, SeqEqual
<1> QED BY <1>3, <1>12 DEF u, r

\* What a sequence of sequences is flattened to, one after the other.
Flattening(q, f, S) ==
  /\ f \in [0 .. Len(q) -> Seq(S)] /\ f[0] = <<>> /\ FlattenSeq(q) = f[Len(q)]
  /\ \A k \in 1 .. Len(q) : f[k] = f[k - 1] \o q[k]

LEMMA FlattenIs ==
  ASSUME NEW S, NEW q \in Seq(Seq(S))
  PROVE  \E f : Flattening(q, f, S)
<1>0. PICK n \in Nat : n = Len(q)
  BY LenProperties
<1>1. CASE n = 0
  <2>1. q = <<>>
    BY <1>0, <1>1, EmptySeq
  <2>2. FlattenSeq(q) = q
    BY <1>0, <1>1 DEF FlattenSeq
  <2> DEFINE f == [k \in 0 .. 0 |-> <<>>]
  <2>3. f \in [0 .. 0 -> Seq(S)] /\ f[0] = <<>>
    BY EmptySeq
  <2> HIDE DEF f
  <2>4. Len(q) = 0
    BY <1>0, <1>1
  <2>5. FlattenSeq(q) = f[0]
    BY <2>1, <2>2, <2>3
  <2>6. \A k \in 1 .. 0 : f[k] = f[k - 1] \o q[k]
    OBVIOUS
  <2>7. Flattening(q, f, S)
    BY <2>3, <2>4, <2>5, <2>6 DEF Flattening
  <2> QED BY <2>7
<1>2. CASE n # 0
  <2> DEFINE V == Seq(S)
             G == [x \in (1 .. n) \X V |-> x[2] \o q[x[1]]]
             flat == CHOOSE f : f = [i \in 1 .. n |-> IF i = 1 THEN q[i] ELSE f[i - 1] \o q[i]]
  <2>1. \A k \in 1 .. n : q[k] \in V
    BY <1>0, ElementOfSeq
  <2>2. G \in [(1 .. n) \X V -> V]
    <3>1. ASSUME NEW x \in (1 .. n) \X V PROVE x[2] \o q[x[1]] \in V
      <4>1. x[2] \in V /\ x[1] \in 1 .. n
        OBVIOUS
      <4>2. q[x[1]] \in V
        BY <2>1, <4>1
      <4> QED BY <4>1, <4>2, ConcatProperties
    <3> QED BY <3>1
  <2>3. \A k \in 1 .. n : \A v \in V : G[<<k, v>>] = v \o q[k]
    OBVIOUS
  <2>4. <<>> \in V /\ \A k \in 1 .. n : <<>> \o q[k] = q[k]
    BY <2>1, EmptySeq, ConcatEmptySeq
  <2> HIDE DEF G, V
  <2>5. PICK f \in [0 .. n -> V] : Follows(f, n, <<>>, G)
    BY <2>2, <2>4, Recursion
  <2>6. ASSUME NEW k \in 1 .. n PROVE f[k] = f[k - 1] \o q[k] /\ k - 1 \in 0 .. n
    <3>1. f[k] = G[<<k, f[k - 1]>>] /\ k - 1 \in 0 .. n
      BY <2>5 DEF Follows
    <3>2. f[k - 1] \in V
      BY <3>1
    <3> QED BY <2>3, <3>1, <3>2
  <2>7. f[0] = <<>>
    BY <2>5 DEF Follows
  <2> DEFINE h == [i \in 1 .. n |-> f[i]]
  <2>8. ASSUME NEW k \in 1 .. n PROVE h[k] = IF k = 1 THEN q[k] ELSE h[k - 1] \o q[k]
    <3>1. CASE k = 1
      <4>1. k - 1 = 0
        BY <3>1
      <4>2. h[k] = <<>> \o q[k]
        BY <2>6, <2>7, <4>1
      <4> QED BY <2>4, <3>1, <4>2
    <3>2. CASE k # 1
      <4>1. k - 1 \in 1 .. n
        BY <3>2
      <4> QED BY <2>6, <3>2, <4>1
    <3> QED BY <3>1, <3>2
  <2>9. h = [i \in 1 .. n |-> h[i]]
    OBVIOUS
  <2> HIDE DEF h
  <2>10. h = [i \in 1 .. n |-> IF i = 1 THEN q[i] ELSE h[i - 1] \o q[i]]
    BY <2>8, <2>9
  <2>11. flat = [i \in 1 .. n |-> IF i = 1 THEN q[i] ELSE flat[i - 1] \o q[i]]
    BY <2>10
  <2>12. \A i \in 1 .. n : flat[i] = IF i = 1 THEN q[i] ELSE flat[i - 1] \o q[i]
    BY <2>11
  <2>13. FlattenSeq(q) = flat[n]
    BY <1>0, <1>2 DEF FlattenSeq
  <2> HIDE DEF flat
  <2> DEFINE T == {k \in Nat : k + 1 \in 1 .. n => flat[k + 1] = f[k + 1]}
  <2>14. 0 \in T
    <3>1. ASSUME 0 + 1 \in 1 .. n PROVE flat[0 + 1] = f[0 + 1]
      <4>1. 1 \in 1 .. n /\ 1 - 1 = 0 /\ 0 + 1 = 1
        BY <3>1
      <4>2. flat[1] = q[1] /\ f[1] = f[0] \o q[1]
        BY <2>6, <2>12, <4>1
      <4>3. f[1] = q[1]
        BY <2>4, <2>7, <4>1, <4>2
      <4> QED BY <4>1, <4>2, <4>3
    <3> QED BY <3>1
  <2>15. ASSUME NEW k \in Nat, k \in T PROVE k + 1 \in T
    <3>1. ASSUME k + 1 + 1 \in 1 .. n PROVE flat[k + 1 + 1] = f[k + 1 + 1]
      <4>1. PICK m \in 1 .. n : m = k + 1 + 1
        BY <3>1
      <4>2. m # 1 /\ m - 1 = k + 1 /\ k + 1 \in 1 .. n
        BY <4>1
      <4>3. flat[m] = flat[m - 1] \o q[m] /\ f[m] = f[m - 1] \o q[m]
        BY <2>6, <2>12, <4>2
      <4>4. flat[m - 1] = f[m - 1]
        BY <2>15, <4>2
      <4> QED BY <4>1, <4>3, <4>4
    <3> QED BY <3>1
  <2> HIDE DEF T
  <2>16. Nat \subseteq T
    BY <2>14, <2>15, Induct
  <2>17. flat[n] = f[n]
    <3>1. n - 1 \in T /\ n - 1 + 1 = n /\ n \in 1 .. n
      BY <1>2, <2>16
    <3> QED BY <3>1 DEF T
  <2>18. Flattening(q, f, S)
    BY <1>0, <2>6, <2>7, <2>13, <2>17 DEF Flattening, V
  <2> QED BY <2>18
<1> QED BY <1>1, <1>2

\* Where the pieces are.
Placed(q, f, k) ==
  /\ Len(f[k]) = Len(f[k - 1]) + Len(q[k]) /\ Len(f[k - 1]) \in Nat /\ Len(q[k]) \in Nat
  /\ Len(f[k]) <= Len(FlattenSeq(q))
  /\ \A x \in 1 .. Len(q[k]) : FlattenSeq(q)[Len(f[k - 1]) + x] = q[k][x]

LEMMA FlattenAt ==
  ASSUME NEW S, NEW q \in Seq(Seq(S)), NEW f, Flattening(q, f, S), NEW k \in 1 .. Len(q)
  PROVE  Placed(q, f, k)
<1>0. PICK n \in Nat : n = Len(q)
  BY LenProperties
<1>1. /\ f \in [0 .. n -> Seq(S)] /\ f[0] = <<>> /\ FlattenSeq(q) = f[n]
      /\ \A i \in 1 .. n : f[i] = f[i - 1] \o q[i]
  BY <1>0 DEF Flattening
<1>2. ASSUME NEW i \in 1 .. n PROVE Joins(f[i], f[i - 1], q[i], S) /\ i - 1 \in 0 .. n /\ f[i - 1] \in Seq(S)
  <2>1. i - 1 \in 0 .. n
    OBVIOUS
  <2>2. f[i - 1] \in Seq(S) /\ q[i] \in Seq(S)
    BY <1>0, <1>1, <2>1, ElementOfSeq
  <2>3. Joins(f[i - 1] \o q[i], f[i - 1], q[i], S)
    BY <2>2, Cat
  <2> QED BY <1>1, <2>1, <2>2, <2>3
<1>3. k \in 1 .. n
  BY <1>0
<1>4. /\ Len(f[k]) = Len(f[k - 1]) + Len(q[k]) /\ Len(f[k - 1]) \in Nat /\ Len(q[k]) \in Nat
      /\ \A x \in 1 .. Len(q[k]) : f[k][Len(f[k - 1]) + x] = q[k][x]
  BY <1>2, <1>3 DEF Joins
<1>40. Len(f[k]) \in Nat /\ \A x \in 1 .. Len(q[k]) : Len(f[k - 1]) + x \in 1 .. Len(f[k])
  <2>1. \A a, b \in Nat : a + b \in Nat /\ \A x \in 1 .. b : a + x \in 1 .. a + b
    OBVIOUS
  <2> QED BY <1>4, <2>1
<1> DEFINE T == {m \in Nat : k + m <= n => /\ Len(f[k + m]) \in Nat /\ Len(f[k]) <= Len(f[k + m])
                                           /\ \A x \in 1 .. Len(f[k]) : f[k + m][x] = f[k][x]}
<1>5. 0 \in T
  <2>1. k + 0 = k /\ Len(f[k]) \in Nat
    BY <1>3, <1>40
  <2> QED BY <2>1
<1>6. ASSUME NEW m \in Nat, m \in T PROVE m + 1 \in T
  <2>1. ASSUME k + (m + 1) <= n
        PROVE  /\ Len(f[k + (m + 1)]) \in Nat /\ Len(f[k]) <= Len(f[k + (m + 1)])
               /\ \A x \in 1 .. Len(f[k]) : f[k + (m + 1)][x] = f[k][x]
    <3>1. PICK i \in 1 .. n : i = k + (m + 1)
      BY <1>3, <2>1
    <3>2. i - 1 = k + m /\ k + m <= n
      BY <1>3, <3>1
    <3>3. Len(f[i - 1]) \in Nat /\ Len(f[k]) <= Len(f[i - 1]) /\ \A x \in 1 .. Len(f[k]) : f[i - 1][x] = f[k][x]
      BY <1>6, <3>2
    <3>4. /\ Len(f[i]) = Len(f[i - 1]) + Len(q[i]) /\ Len(q[i]) \in Nat
          /\ \A x \in 1 .. Len(f[i - 1]) : f[i][x] = f[i - 1][x]
      BY <1>2 DEF Joins
    <3>5. Len(f[k]) \in Nat
      BY <1>40
    <3>6. Len(f[i]) \in Nat /\ Len(f[k]) <= Len(f[i])
      <4>1. \A a, b, c \in Nat : a <= b => b + c \in Nat /\ a <= b + c
        OBVIOUS
      <4> QED BY <3>3, <3>4, <3>5, <4>1
    <3>7. \A x \in 1 .. Len(f[k]) : x \in 1 .. Len(f[i - 1])
      BY <3>3, <3>5
    <3> QED BY <3>1, <3>3, <3>4, <3>6, <3>7
  <2> QED BY <2>1
<1> HIDE DEF T
<1>7. Nat \subseteq T
  BY <1>5, <1>6, Induct
<1>8. n - k \in Nat /\ k + (n - k) = n /\ k + (n - k) <= n
  BY <1>3
<1>9. /\ Len(f[k + (n - k)]) \in Nat /\ Len(f[k]) <= Len(f[k + (n - k)])
      /\ \A x \in 1 .. Len(f[k]) : f[k + (n - k)][x] = f[k][x]
  <2>1. n - k \in T
    BY <1>7, <1>8
  <2> QED BY <1>8, <2>1 DEF T
<1>10. Len(f[k]) <= Len(f[n]) /\ \A x \in 1 .. Len(f[k]) : f[n][x] = f[k][x]
  BY <1>8, <1>9
<1> QED BY <1>1, <1>4, <1>40, <1>10 DEF Placed

\* The parts of a command with an address and a length.
Numbers(t, r) == t[2] = HexDigit(r.addr) /\ t[3] = Comma /\ t[4] = HexDigit(r.len)
Behind(t, d) == Len(t) = 5 + Len(d) /\ t[5] = Colon /\ \A k \in 1 .. Len(d) : t[5 + k] = d[k]

LEMMA TextBegins ==
  ASSUME NEW a \in Char, NEW x \in Char, NEW y \in Char
  PROVE  LET t == <<a>> \o <<x, Comma, y>>
         IN t \in Seq(Char) /\ Len(t) = 4 /\ t[1] = a /\ t[2] = x /\ t[3] = Comma /\ t[4] = y
<1> DEFINE u == <<a>>
           w == <<x, Comma, y>>
           t == u \o w
<1>1. u \in Seq(Char) /\ Len(u) = 1 /\ u[1] = a /\ w \in Seq(Char) /\ Len(w) = 3 /\ w[1] = x /\ w[2] = Comma /\ w[3] = y
  BY DEF Char, Comma
<1> HIDE DEF u, w
<1>2. Joins(t, u, w, Char)
  BY <1>1, Cat
<1> HIDE DEF t
<1>3. t \in Seq(Char) /\ Len(t) = 4 /\ (\A i \in 1 .. 1 : t[i] = u[i]) /\ \A i \in 1 .. 3 : t[1 + i] = w[i]
  BY <1>1, <1>2 DEF Joins
<1>4. t[1] = u[1] /\ t[1 + 1] = w[1] /\ t[1 + 2] = w[2] /\ t[1 + 3] = w[3]
  BY <1>3
<1> QED BY <1>1, <1>3, <1>4 DEF t, u, w

LEMMA TextGoesOn ==
  ASSUME NEW a \in Char, NEW x \in Char, NEW y \in Char, NEW d \in Seq(Char)
  PROVE  LET t == <<a>> \o <<x, Comma, y>> \o <<Colon>> \o d
         IN Behind(t, d) /\ t[1] = a /\ t[2] = x /\ t[3] = Comma /\ t[4] = y
<1> DEFINE u == <<a>> \o <<x, Comma, y>>
           c == <<Colon>>
           v == u \o c
           t == v \o d
<1>1. u \in Seq(Char) /\ Len(u) = 4 /\ u[1] = a /\ u[2] = x /\ u[3] = Comma /\ u[4] = y
  BY TextBegins
<1>2. c \in Seq(Char) /\ Len(c) = 1 /\ c[1] = Colon
  BY DEF Char, Colon
<1> HIDE DEF u, c
<1>3. Joins(v, u, c, Char)
  BY <1>1, <1>2, Cat
<1> HIDE DEF v
<1>4. v \in Seq(Char) /\ Len(v) = 5 /\ (\A i \in 1 .. 4 : v[i] = u[i]) /\ \A i \in 1 .. 1 : v[4 + i] = c[i]
  BY <1>1, <1>2, <1>3 DEF Joins
<1>5. v[1] = u[1] /\ v[2] = u[2] /\ v[3] = u[3] /\ v[4] = u[4] /\ v[4 + 1] = c[1]
  BY <1>4
<1>6. Joins(t, v, d, Char)
  BY <1>4, Cat
<1> HIDE DEF t
<1>7. Len(t) = 5 + Len(d) /\ (\A i \in 1 .. 5 : t[i] = v[i]) /\ \A i \in 1 .. Len(d) : t[5 + i] = d[i]
  BY <1>4, <1>6 DEF Joins
<1>8. t[1] = v[1] /\ t[2] = v[2] /\ t[3] = v[3] /\ t[4] = v[4] /\ t[5] = v[5]
  BY <1>7
<1>9. v[5] = Colon
  BY <1>2, <1>5
<1> QED BY <1>1, <1>5, <1>7, <1>8, <1>9 DEF Behind, t, v, c, u

LEMMA TextParts ==
  ASSUME NEW j \in 1 .. Len(Requests)
  PROVE  /\ Requests[j].op \in {"m", "M", "X"} => Numbers(TextOf(j), Requests[j]) /\ Len(TextOf(j)) >= 4
         /\ Requests[j].op = "m" => Len(TextOf(j)) = 4
         /\ Requests[j].op = "M" => Behind(TextOf(j), mem2hex(Requests[j].data))
         /\ Requests[j].op = "X" => Behind(TextOf(j), EscapedData(Requests[j].data))
         /\ Requests[j].op \notin {"m", "M", "X"} => Len(TextOf(j)) = 1
<1> DEFINE r == Requests[j]
           x == HexDigit(r.addr)
           y == HexDigit(r.len)
<1>1. r.op \in {"m", "M", "X", "c", "s", "?"} /\ r.addr \in 0 .. 15 /\ r.len \in 0 .. 15 /\ r.data \in Seq(Char)
  BY RequestTyped
<1>2. TextOf(j) = Text(r)
  BY DEF TextOf
<1> HIDE DEF r
<1>3. x \in Char /\ y \in Char
  <2>1. x \in HexChar /\ y \in HexChar
    BY <1>1, HexChars
  <2> QED BY <2>1, HexCharIsPlain
<1>4. mem2hex(r.data) \in Seq(Char) /\ EscapedData(r.data) \in Seq(Char)
  <2>1. mem2hex(r.data) \in Seq(HexChar) /\ EscapedData(r.data) \in Seq(Plain)
    BY <1>1, mem2hexIs, EscapedIsPlain
  <2> QED BY <2>1, HexCharIsPlain, SeqMonotonic
<1>5. 109 \in Char /\ 77 \in Char /\ 88 \in Char
  BY DEF Char
<1>6. CASE r.op = "m"
  <2>1. Text(r) = <<109>> \o <<x, Comma, y>>
    BY <1>6 DEF Text
  <2> DEFINE t == <<109>> \o <<x, Comma, y>>
  <2>2. Len(t) = 4 /\ t[2] = x /\ t[3] = Comma /\ t[4] = y
    BY <1>3, <1>5, TextBegins
  <2> HIDE DEF t
  <2>3. TextOf(j) = t
    BY <1>2, <2>1 DEF t
  <2>4. Numbers(TextOf(j), r) /\ Len(TextOf(j)) = 4 /\ 4 >= 4
    BY <2>2, <2>3 DEF Numbers
  <2> QED BY <1>6, <2>4 DEF r
<1>7. CASE r.op = "M"
  <2> DEFINE d == mem2hex(r.data)
  <2>1. Text(r) = <<77>> \o <<x, Comma, y>> \o <<Colon>> \o d
    BY <1>7 DEF Text
  <2>2. d \in Seq(Char) /\ Len(d) \in Nat
    BY <1>4, LenProperties
  <2> HIDE DEF d
  <2> DEFINE t == <<77>> \o <<x, Comma, y>> \o <<Colon>> \o d
  <2>3. Behind(t, d) /\ t[2] = x /\ t[3] = Comma /\ t[4] = y
    BY <1>3, <1>5, <2>2, TextGoesOn
  <2> HIDE DEF t
  <2>4. TextOf(j) = t
    BY <1>2, <2>1 DEF t
  <2>5. Len(t) >= 4
    BY <2>2, <2>3 DEF Behind
  <2> QED BY <1>7, <2>3, <2>4, <2>5 DEF Numbers, r, d
<1>8. CASE r.op = "X"
  <2> DEFINE d == EscapedData(r.data)
  <2>1. Text(r) = <<88>> \o <<x, Comma, y>> \o <<Colon>> \o d
    BY <1>8 DEF Text
  <2>2. d \in Seq(Char) /\ Len(d) \in Nat
    BY <1>4, LenProperties
  <2> HIDE DEF d
  <2> DEFINE t == <<88>> \o <<x, Comma, y>> \o <<Colon>> \o d
  <2>3. Behind(t, d) /\ t[2] = x /\ t[3] = Comma /\ t[4] = y
    BY <1>3, <1>5, <2>2, TextGoesOn
  <2> HIDE DEF t
  <2>4. TextOf(j) = t
    BY <1>2, <2>1 DEF t
  <2>5. Len(t) >= 4
    BY <2>2, <2>3 DEF Behind
  <2> QED BY <1>8, <2>3, <2>4, <2>5 DEF Numbers, r, d
<1>9. CASE r.op \in {"c", "s", "?"}
  <2>1. \E a : Text(r) = <<a>>
    BY <1>9 DEF Text
  <2>2. Len(Text(r)) = 1
    BY <2>1
  <2> QED BY <1>2, <1>9, <2>2 DEF r
<1> QED BY <1>1, <1>6, <1>7, <1>8, <1>9 DEF r

\* A number of one digit.
LEMMA OneDigit ==
  ASSUME NEW b \in Buffer, NEW p \in 0 .. BUFMAX - 1, NEW d \in 0 .. 15, b[p] = HexDigit(d), Hex(b[p + 1]) = -1
  PROVE  NumberEnd(b, p) = p + 1 /\ hexToInt(b, p) = d
<1>1. BUFMAX \in Nat /\ p \in 0 .. BUFMAX /\ p \in Nat
  BY Constants
<1>2. Hex(b[p]) = d
  BY HexChars
<1>3. /\ NumberEnd(b, p) \in p .. BUFMAX
      /\ Hex(b[NumberEnd(b, p)]) = -1
      /\ \A k \in p .. NumberEnd(b, p) - 1 : Hex(b[k]) # -1
  <2>1. p \in 0 .. BUFMAX
    BY Constants
  <2> QED BY <2>1, NumberEndIs
<1>4. NumberEnd(b, p) = p + 1
  <2> DEFINE e == NumberEnd(b, p)
  <2>1. e \in p .. BUFMAX /\ Hex(b[e]) = -1 /\ \A k \in p .. e - 1 : Hex(b[k]) # -1
    BY <1>3
  <2> HIDE DEF e
  <2>2. e # p
    BY <1>2, <2>1
  <2>3. p + 1 \notin p .. e - 1
    BY <2>1
  <2>4. e = p + 1
    BY Constants, <2>1, <2>2, <2>3
  <2> QED BY <2>4 DEF e
<1> DEFINE q == p + 1
           v == CHOOSE f : f = [k \in p .. q |-> IF k = p THEN 0 ELSE (16 * f[k - 1] + Hex(b[k - 1])) % WORD]
           h == [k \in p .. q |-> IF k = p THEN 0 ELSE d]
<1>5. p \in Nat /\ p \in p .. q /\ q \in p .. q /\ q # p /\ q - 1 = p /\ \A k \in p .. q : k = p \/ k = q
  OBVIOUS
<1>6. (16 * 0 + d) % WORD = d
  <2>1. WORD \in Nat /\ WORD > 31
    BY PacketConstantsOK
  <2> QED BY <2>1
<1>7. h[p] = 0 /\ h[q] = d
  BY <1>5
<1>8. h = [k \in p .. q |-> h[k]]
  OBVIOUS
<1> HIDE DEF h, q
<1>9. \A k \in p .. q : h[k] = IF k = p THEN 0 ELSE (16 * h[k - 1] + Hex(b[k - 1])) % WORD
  BY <1>2, <1>5, <1>6, <1>7
<1>10. h = [k \in p .. q |-> IF k = p THEN 0 ELSE (16 * h[k - 1] + Hex(b[k - 1])) % WORD]
  BY <1>8, <1>9
<1>11. v = [k \in p .. q |-> IF k = p THEN 0 ELSE (16 * v[k - 1] + Hex(b[k - 1])) % WORD]
  BY <1>10
<1>12. hexToInt(b, p) = v[q]
  BY <1>4 DEF hexToInt, q
<1> HIDE DEF v
<1>13. v[p] = 0 /\ v[q] = (16 * v[p] + Hex(b[p])) % WORD
  BY <1>5, <1>11
<1>14. v[q] = d
  BY <1>2, <1>6, <1>13
<1> QED BY <1>4, <1>12, <1>14

\* What the stub reads of a command with an address and a length.
LEMMA Parsed ==
  ASSUME NEW j \in 1 .. Len(Requests), NEW n, NEW x, NEW b \in Buffer, HasText(j, n, x, b),
         Requests[j].op \in {"m", "M", "X"}
  PROVE  /\ TwoNumbers(b) /\ Addr(b) = Requests[j].addr /\ Length(b) = Requests[j].len /\ LenEnd(b) = 4
         /\ b[4] = IF Requests[j].op = "m" THEN 0 ELSE Colon
<1> DEFINE t == TextOf(j)
           r == Requests[j]
<1>1. /\ Len(t) \in 1 .. BUFMAX - 1 /\ Len(t) >= 4 /\ BUFMAX \in Nat
      /\ t[2] = HexDigit(r.addr) /\ t[3] = Comma /\ t[4] = HexDigit(r.len)
  BY PacketParts, TextParts, Constants DEF Numbers
<1>2. n = Len(t) /\ b[n] = 0 /\ \A k \in 1 .. n : b[k - 1] = t[k]
  BY DEF HasText
<1>3. r.addr \in 0 .. 15 /\ r.len \in 0 .. 15 /\ r.op \in {"m", "M", "X"}
  BY RequestTyped
<1>4. (r.op = "m" => Len(t) = 4) /\ (r.op # "m" => Len(t) >= 5 /\ t[5] = Colon)
  <2>1. CASE r.op = "m"
    BY <2>1, TextParts
  <2>2. CASE r.op # "m"
    <3>1. \E d \in Seq(Char) : Behind(t, d)
      <4>1. mem2hex(r.data) \in Seq(Char) /\ EscapedData(r.data) \in Seq(Char)
        <5>1. r.data \in Seq(Char)
          BY RequestTyped
        <5>2. mem2hex(r.data) \in Seq(HexChar) /\ EscapedData(r.data) \in Seq(Plain)
          BY <5>1, mem2hexIs, EscapedIsPlain
        <5> QED BY <5>2, HexCharIsPlain, SeqMonotonic
      <4> QED BY <1>3, <2>2, <4>1, TextParts
    <3>2. PICK d \in Seq(Char) : Behind(t, d)
      BY <3>1
    <3>3. Len(d) \in Nat /\ Len(t) = 5 + Len(d) /\ t[5] = Colon
      BY <3>2, LenProperties DEF Behind
    <3> QED BY <2>2, <3>3
  <2> QED BY <2>1, <2>2
<1> HIDE DEF t, r
<1>5. b[1] = HexDigit(r.addr) /\ b[2] = Comma /\ b[3] = HexDigit(r.len)
  <2>1. 2 \in 1 .. n /\ 3 \in 1 .. n /\ 4 \in 1 .. n /\ 2 - 1 = 1 /\ 3 - 1 = 2 /\ 4 - 1 = 3
    BY <1>1, <1>2
  <2>2. b[2 - 1] = t[2] /\ b[3 - 1] = t[3] /\ b[4 - 1] = t[4]
    BY <1>2, <2>1
  <2> QED BY <1>1, <2>1, <2>2
<1>6. b[4] = IF r.op = "m" THEN 0 ELSE Colon
  <2>1. CASE r.op = "m"
    BY <1>2, <1>4, <2>1
  <2>2. CASE r.op # "m"
    <3>1. 5 \in 1 .. n /\ 5 - 1 = 4
      BY <1>1, <1>2, <1>4, <2>2
    <3>2. b[5 - 1] = t[5]
      BY <1>2, <3>1
    <3> QED BY <1>4, <2>2, <3>1, <3>2
  <2> QED BY <2>1, <2>2
<1>7. Hex(b[2]) = -1 /\ Hex(b[4]) = -1
  BY <1>5, <1>6 DEF Comma, Colon, Hex
<1>8. 1 \in 0 .. BUFMAX - 1 /\ 3 \in 0 .. BUFMAX - 1 /\ 1 + 1 = 2 /\ 3 + 1 = 4 /\ 2 + 1 = 3
  BY <1>1
<1>9. NumberEnd(b, 1) = 1 + 1 /\ hexToInt(b, 1) = r.addr
  BY <1>3, <1>5, <1>7, <1>8, OneDigit, ZenonT(60)
<1>10. NumberEnd(b, 3) = 3 + 1 /\ hexToInt(b, 3) = r.len
  BY <1>3, <1>5, <1>7, <1>8, OneDigit, ZenonT(60)
<1>11. AddrEnd(b) = 2
  BY <1>8, <1>9 DEF AddrEnd
<1>12. LenEnd(b) = 4
  BY <1>8, <1>10, <1>11 DEF LenEnd
<1>13. Addr(b) = r.addr
  BY <1>9 DEF Addr
<1>14. Length(b) = r.len
  <2>1. hexToInt(b, AddrEnd(b) + 1) = r.len
    BY <1>8, <1>10, <1>11
  <2>2. r.len < WORD \div 2
    <3>1. WORD \in Nat /\ WORD > 31
      BY PacketConstantsOK
    <3> QED BY <1>3, <3>1
  <2> QED BY <2>1, <2>2 DEF Length
<1>15. TwoNumbers(b)
  BY <1>5, <1>11, <1>12 DEF TwoNumbers
<1> QED BY <1>6, <1>12, <1>13, <1>14, <1>15 DEF r

\* Where the digits of a byte are.
LEMMA mem2hexAt ==
  ASSUME NEW bytes \in Seq(Char), NEW i \in 0 .. Len(bytes) - 1
  PROVE  /\ 2 * i + 1 \in 1 .. Len(mem2hex(bytes)) /\ mem2hex(bytes)[2 * i + 1] = HexDigit(bytes[i + 1] \div 16)
         /\ 2 * i + 2 \in 1 .. Len(mem2hex(bytes)) /\ mem2hex(bytes)[2 * i + 2] = HexDigit(bytes[i + 1] % 16)
<1>1. Len(bytes) \in Nat /\ Len(mem2hex(bytes)) = 2 * Len(bytes)
  BY mem2hexIs, LenProperties
<1>2. 2 * i + 1 \in 1 .. 2 * Len(bytes) /\ 2 * i + 2 \in 1 .. 2 * Len(bytes)
  BY <1>1
<1>3. i \in Nat
  BY <1>1
<1>4. (2 * i + 1) % 2 = 1 /\ ((2 * i + 1) + 1) \div 2 = i + 1 /\ (2 * i + 2) % 2 = 0 /\ (2 * i + 2) \div 2 = i + 1
  BY <1>3
<1>5. PICK k \in 1 .. 2 * Len(bytes) : k = 2 * i + 1
  BY <1>2
<1>6. PICK m \in 1 .. 2 * Len(bytes) : m = 2 * i + 2
  BY <1>2
<1>7. k % 2 = 1 /\ (k + 1) \div 2 = i + 1 /\ m % 2 = 0 /\ m \div 2 = i + 1
  BY <1>4, <1>5, <1>6
<1>8. mem2hex(bytes)[k] = HexDigit(bytes[(k + 1) \div 2] \div 16)
  BY <1>7 DEF mem2hex
<1>9. mem2hex(bytes)[m] = HexDigit(bytes[m \div 2] % 16)
  BY <1>7 DEF mem2hex
<1> QED BY <1>1, <1>2, <1>5, <1>6, <1>7, <1>8, <1>9

\* The data of a command in the buffer.
LEMMA DataAt ==
  ASSUME NEW j \in 1 .. Len(Requests), NEW n, NEW x, NEW b \in Buffer, HasText(j, n, x, b),
         NEW d \in Seq(Char), Behind(TextOf(j), d)
  PROVE  \A k \in 1 .. Len(d) : At(b, 4 + k) = d[k]
<1> DEFINE t == TextOf(j)
<1>1. Len(t) \in 1 .. BUFMAX - 1 /\ BUFMAX \in Nat /\ Len(d) \in Nat
  BY PacketParts, Constants, LenProperties
<1>2. n = Len(t) /\ \A k \in 1 .. n : b[k - 1] = t[k]
  BY DEF HasText
<1>3. Len(t) = 5 + Len(d) /\ \A k \in 1 .. Len(d) : t[5 + k] = d[k]
  BY DEF Behind
<1> HIDE DEF t
<1>4. ASSUME NEW k \in 1 .. Len(d) PROVE At(b, 4 + k) = d[k]
  <2>1. 5 + k \in 1 .. n /\ (5 + k) - 1 = 4 + k /\ 4 + k <= BUFMAX
    BY <1>1, <1>2, <1>3
  <2>2. b[(5 + k) - 1] = t[5 + k]
    BY <1>2, <2>1
  <2> QED BY <1>3, <2>1, <2>2 DEF At
<1> QED BY <1>4

LEMMA HexData ==
  ASSUME NEW j \in 1 .. Len(Requests), NEW n, NEW x, NEW b \in Buffer, HasText(j, n, x, b), Requests[j].op = "M",
         NEW i \in 0 .. Requests[j].len - 1
  PROVE  hex2mem(b, 5, i) = Requests[j].data[i + 1]
<1> DEFINE bytes == Requests[j].data
           d == mem2hex(bytes)
<1>1. bytes \in Seq(Char) /\ Len(bytes) = Requests[j].len /\ Requests[j].len \in 0 .. 15
  BY RequestTyped, DataFits
<1>2. d \in Seq(Char)
  <2>1. d \in Seq(HexChar)
    BY <1>1, mem2hexIs
  <2> QED BY <2>1, HexCharIsPlain, SeqMonotonic
<1>3. Behind(TextOf(j), d)
  BY TextParts
<1> HIDE DEF bytes
<1>4. \A k \in 1 .. Len(d) : At(b, 4 + k) = d[k]
  BY <1>2, <1>3, DataAt
<1>5. i \in 0 .. Len(bytes) - 1 /\ i \in Nat /\ i + 1 \in 1 .. Len(bytes)
  BY <1>1
<1>6. /\ 2 * i + 1 \in 1 .. Len(d) /\ d[2 * i + 1] = HexDigit(bytes[i + 1] \div 16)
      /\ 2 * i + 2 \in 1 .. Len(d) /\ d[2 * i + 2] = HexDigit(bytes[i + 1] % 16)
  BY <1>1, <1>5, mem2hexAt
<1>7. bytes[i + 1] \in Char
  BY <1>1, <1>5, ElementOfSeq
<1>8. PICK c \in Char : c = bytes[i + 1]
  BY <1>7
<1>9. c \div 16 \in 0 .. 15 /\ c % 16 \in 0 .. 15 /\ 16 * (c \div 16) + (c % 16) = c /\ c % 256 = c
  BY ByteParts DEF Char
<1> HIDE DEF d
<1>10. At(b, 4 + (2 * i + 1)) = HexDigit(c \div 16) /\ At(b, 4 + (2 * i + 2)) = HexDigit(c % 16)
  BY <1>4, <1>6, <1>8
<1>11. 4 + (2 * i + 1) = 5 + 2 * i /\ 4 + (2 * i + 2) = 5 + 2 * i + 1
  BY <1>5
<1>12. Hex(At(b, 5 + 2 * i)) = c \div 16 /\ Hex(At(b, 5 + 2 * i + 1)) = c % 16
  BY <1>9, <1>10, <1>11, HexChars, ZenonT(60)
<1>13. hex2mem(b, 5, i) = (16 * (c \div 16) + (c % 16)) % 256
  BY <1>12 DEF hex2mem
<1> QED BY <1>8, <1>9, <1>13 DEF bytes

\* Where the bytes of binary data are, as ebin2mem finds them.
Walking(b, p, i, at) ==
  /\ at \in [0 .. i -> Nat] /\ at[0] = p
  /\ \A k \in 1 .. i : at[k] = at[k - 1] + (IF At(b, at[k - 1]) = Escape THEN 2 ELSE 1)

LEMMA ebin2memAt ==
  ASSUME NEW b \in Buffer, NEW p \in Nat, NEW i \in Nat
  PROVE  \E at : /\ Walking(b, p, i, at)
                 /\ ebin2mem(b, p, i) = IF At(b, at[i]) = Escape THEN Toggled(At(b, at[i] + 1)) ELSE At(b, at[i])
<1> DEFINE G == [x \in (1 .. i) \X Nat |-> x[2] + (IF At(b, x[2]) = Escape THEN 2 ELSE 1)]
           at == CHOOSE f : f = [k \in 0 .. i |->
                   IF k = 0 THEN p ELSE f[k - 1] + (IF At(b, f[k - 1]) = Escape THEN 2 ELSE 1)]
<1>1. G \in [(1 .. i) \X Nat -> Nat]
  OBVIOUS
<1>2. \A k \in 1 .. i : \A v \in Nat : G[<<k, v>>] = v + (IF At(b, v) = Escape THEN 2 ELSE 1)
  OBVIOUS
<1> HIDE DEF G
<1>3. PICK f \in [0 .. i -> Nat] : Follows(f, i, p, G)
  BY <1>1, Recursion
<1>4. ASSUME NEW k \in 0 .. i
      PROVE  f[k] = IF k = 0 THEN p ELSE f[k - 1] + (IF At(b, f[k - 1]) = Escape THEN 2 ELSE 1)
  <2>1. CASE k = 0
    BY <1>3, <2>1 DEF Follows
  <2>2. CASE k \in 1 .. i
    <3>1. k - 1 \in 0 .. i /\ k # 0
      BY <2>2
    <3>2. f[k - 1] \in Nat
      BY <3>1
    <3>3. f[k] = G[<<k, f[k - 1]>>]
      BY <1>3, <2>2 DEF Follows
    <3>4. f[k] = f[k - 1] + (IF At(b, f[k - 1]) = Escape THEN 2 ELSE 1)
      BY <1>2, <2>2, <3>2, <3>3
    <3> QED BY <3>1, <3>4
  <2> QED BY <2>1, <2>2
<1>5. f = [k \in 0 .. i |-> IF k = 0 THEN p ELSE f[k - 1] + (IF At(b, f[k - 1]) = Escape THEN 2 ELSE 1)]
  BY <1>4
<1>6. at = [k \in 0 .. i |-> IF k = 0 THEN p ELSE at[k - 1] + (IF At(b, at[k - 1]) = Escape THEN 2 ELSE 1)]
  BY <1>5
<1>7. ebin2mem(b, p, i) = IF At(b, at[i]) = Escape THEN Toggled(At(b, at[i] + 1)) ELSE At(b, at[i])
  BY DEF ebin2mem
<1> HIDE DEF at
<1>8. at[0] = p
  BY <1>6
<1>9. ASSUME NEW k \in 1 .. i PROVE at[k] = at[k - 1] + (IF At(b, at[k - 1]) = Escape THEN 2 ELSE 1)
  BY <1>6
<1>10. Obeys(at, i, Nat, p, G)
  <2>1. ASSUME NEW k \in 1 .. i, at[k - 1] \in Nat PROVE at[k] = G[<<k, at[k - 1]>>]
    <3>1. G[<<k, at[k - 1]>>] = at[k - 1] + (IF At(b, at[k - 1]) = Escape THEN 2 ELSE 1)
      BY <1>2, <2>1
    <3> QED BY <1>9, <3>1
  <2> QED BY <1>8, <2>1 DEF Obeys
<1>11. \A k \in 0 .. i : at[k] \in Nat
  BY <1>1, <1>10, RecursionTyped
<1>12. \A k \in 0 .. i : at[k] = IF k = 0 THEN p ELSE at[k - 1] + (IF At(b, at[k - 1]) = Escape THEN 2 ELSE 1)
  BY <1>6
<1> DEFINE w == [k \in 0 .. i |-> at[k]]
<1>13. w = at
  BY <1>6
<1>14. w \in [0 .. i -> Nat]
  BY <1>11
<1>15. Walking(b, p, i, at)
  BY <1>8, <1>9, <1>13, <1>14 DEF Walking
<1> QED BY <1>7, <1>15

\* The piece for a byte, and what ebin2mem makes of it.
Piece(c) == IF c \in {Hash, Dollar, Star, Escape} THEN <<Escape, Toggled(c)>> ELSE <<c>>

LEMMA PieceIs ==
  ASSUME NEW c \in Char
  PROVE  /\ Piece(c) \in Seq(Char) /\ Len(Piece(c)) \in 1 .. 2
         /\ Piece(c)[1] = Escape => Len(Piece(c)) = 2 /\ Toggled(Piece(c)[2]) = c
         /\ Piece(c)[1] # Escape => Len(Piece(c)) = 1 /\ Piece(c)[1] = c
<1>1. CASE c \in {Hash, Dollar, Star, Escape}
  <2>1. Toggled(c) \in Char /\ Escape \in Char /\ Toggled(Toggled(c)) = c
    BY <1>1 DEF Toggled, Hash, Dollar, Star, Escape, Char
  <2>2. Piece(c) = <<Escape, Toggled(c)>>
    BY <1>1 DEF Piece
  <2> QED BY <2>1, <2>2
<1>2. CASE c \notin {Hash, Dollar, Star, Escape}
  <2>1. Piece(c) = <<c>> /\ c # Escape
    BY <1>2 DEF Piece
  <2> QED BY <2>1
<1> QED BY <1>1, <1>2

LEMMA BinaryData ==
  ASSUME NEW j \in 1 .. Len(Requests), NEW n, NEW x, NEW b \in Buffer, HasText(j, n, x, b), Requests[j].op = "X",
         NEW i \in 0 .. Requests[j].len - 1
  PROVE  ebin2mem(b, 5, i) = Requests[j].data[i + 1]
<1> DEFINE bytes == Requests[j].data
           d == EscapedData(bytes)
           q == [k \in 1 .. Len(bytes) |-> Piece(bytes[k])]
<1>1. bytes \in Seq(Char) /\ Len(bytes) = Requests[j].len /\ Requests[j].len \in 0 .. 15
  BY RequestTyped, DataFits
<1>2. d \in Seq(Char)
  <2>1. d \in Seq(Plain)
    BY <1>1, EscapedIsPlain
  <2> QED BY <2>1, HexCharIsPlain, SeqMonotonic
<1>3. Behind(TextOf(j), d)
  BY TextParts
<1>4. d = FlattenSeq(q)
  BY DEF EscapedData, Piece
<1> HIDE DEF bytes, d
<1>5. \A k \in 1 .. Len(d) : At(b, 4 + k) = d[k]
  BY <1>2, <1>3, DataAt
<1>6. \A k \in 1 .. Len(bytes) : bytes[k] \in Char /\ q[k] = Piece(bytes[k])
  BY <1>1, ElementOfSeq
<1>7. q \in Seq(Seq(Char)) /\ Len(q) = Len(bytes)
  <2>1. q \in [1 .. Len(bytes) -> Seq(Char)] /\ Len(bytes) \in Nat
    BY <1>1, <1>6, PieceIs
  <2> HIDE DEF q
  <2> QED BY <2>1, IsSequence
<1> HIDE DEF q
<1>8. PICK f : Flattening(q, f, Char)
  BY <1>7, FlattenIs
<1>9. PICK at : /\ Walking(b, 5, i, at)
                /\ ebin2mem(b, 5, i) = IF At(b, at[i]) = Escape THEN Toggled(At(b, at[i] + 1)) ELSE At(b, at[i])
  <2>1. i \in Nat /\ 5 \in Nat
    BY <1>1
  <2> QED BY <2>1, ebin2memAt
<1>10. ASSUME NEW k \in 1 .. Len(bytes)
       PROVE  /\ Len(f[k - 1]) \in Nat /\ Len(f[k]) = Len(f[k - 1]) + Len(q[k]) /\ Len(q[k]) \in 1 .. 2
              /\ \A y \in 1 .. Len(q[k]) : At(b, 4 + (Len(f[k - 1]) + y)) = q[k][y]
  <2> k \in 1 .. Len(q)
    BY <1>7
  <2>1. /\ Len(f[k]) = Len(f[k - 1]) + Len(q[k]) /\ Len(f[k - 1]) \in Nat /\ Len(q[k]) \in Nat
        /\ Len(f[k]) <= Len(d)
        /\ \A y \in 1 .. Len(q[k]) : d[Len(f[k - 1]) + y] = q[k][y]
    <3>1. /\ Len(f[k]) = Len(f[k - 1]) + Len(q[k]) /\ Len(f[k - 1]) \in Nat /\ Len(q[k]) \in Nat
          /\ Len(f[k]) <= Len(FlattenSeq(q))
          /\ \A y \in 1 .. Len(q[k]) : FlattenSeq(q)[Len(f[k - 1]) + y] = q[k][y]
      <4>1. q \in Seq(Seq(Char)) /\ Flattening(q, f, Char) /\ k \in 1 .. Len(q)
        BY <1>7, <1>8
      <4>2. Placed(q, f, k)
        BY <4>1, FlattenAt
      <4> QED BY <4>2 DEF Placed
    <3> QED BY <1>4, <3>1
  <2>2. Len(q[k]) \in 1 .. 2
    BY <1>6, PieceIs
  <2>3. Len(d) \in Nat
    BY <1>2, LenProperties
  <2>4. \A u, v, w \in Nat : u + v <= w => \A y \in 1 .. v : u + y \in 1 .. w
    OBVIOUS
  <2>5. \A y \in 1 .. Len(q[k]) : Len(f[k - 1]) + y \in 1 .. Len(d)
    BY <2>1, <2>3, <2>4
  <2> QED BY <1>5, <2>1, <2>2, <2>5
<1>A. /\ \A u \in Nat : 4 + (u + 1) = 5 + u /\ 4 + (u + 2) = 5 + u + 1
      /\ \A v \in 1 .. 2 : 1 \in 1 .. v
  OBVIOUS
\* The piece for byte k is where ebin2mem looks for it.
<1> DEFINE T == {k \in Nat : k <= i => at[k] = 5 + Len(f[k])}
<1>11. 0 \in T
  <2>1. at[0] = 5 /\ f[0] = <<>>
    BY <1>8, <1>9 DEF Walking, Flattening
  <2>2. Len(f[0]) = 0
    BY <2>1
  <2>3. at[0] = 5 + Len(f[0])
    BY <2>1, <2>2
  <2> QED BY <2>3
<1>12. ASSUME NEW k \in Nat, k \in T PROVE k + 1 \in T
  <2>1. ASSUME k + 1 <= i PROVE at[k + 1] = 5 + Len(f[k + 1])
    <3>1. PICK m \in 1 .. i : m = k + 1
      BY <1>1, <2>1
    <3>2. m - 1 = k /\ m \in 1 .. Len(bytes) /\ k <= i
      BY <1>1, <3>1
    <3>3. at[k] = 5 + Len(f[k])
      BY <1>12, <3>2
    <3>4. at[m] = at[k] + (IF At(b, at[k]) = Escape THEN 2 ELSE 1)
      BY <1>9, <3>2 DEF Walking
    <3>5. /\ Len(f[k]) \in Nat /\ Len(f[m]) = Len(f[k]) + Len(q[m]) /\ Len(q[m]) \in 1 .. 2
          /\ \A y \in 1 .. Len(q[m]) : At(b, 4 + (Len(f[k]) + y)) = q[m][y]
      BY <1>10, <3>2
    <3>6. 1 \in 1 .. Len(q[m]) /\ 4 + (Len(f[k]) + 1) = 5 + Len(f[k])
      BY <1>A, <3>5
    <3>7. At(b, at[k]) = q[m][1]
      BY <3>3, <3>5, <3>6
    <3>8. Len(q[m]) = IF At(b, at[k]) = Escape THEN 2 ELSE 1
      <4>1. q[m] = Piece(bytes[m]) /\ bytes[m] \in Char
        BY <1>6, <3>2
      <4>2. /\ Piece(bytes[m])[1] = Escape => Len(Piece(bytes[m])) = 2
            /\ Piece(bytes[m])[1] # Escape => Len(Piece(bytes[m])) = 1
        BY <4>1, PieceIs
      <4> QED BY <3>7, <4>1, <4>2
    <3>9. \A u \in Nat : \A v \in 1 .. 2 : (5 + u) + v = 5 + (u + v)
      OBVIOUS
    <3>10. at[m] = 5 + Len(f[m])
      BY <3>3, <3>4, <3>5, <3>8, <3>9
    <3> QED BY <3>1, <3>10
  <2> QED BY <2>1
<1> HIDE DEF T
<1>13. Nat \subseteq T
  BY <1>11, <1>12, Induct
<1>14. at[i] = 5 + Len(f[i])
  <2>1. i \in Nat /\ i <= i
    BY <1>1
  <2>2. i \in T
    BY <1>13, <2>1
  <2> QED BY <2>1, <2>2 DEF T
<1>15. PICK m \in 1 .. Len(bytes) : m = i + 1
  BY <1>1
<1>16. m - 1 = i
  BY <1>1, <1>15
<1>17. /\ Len(f[i]) \in Nat /\ Len(q[m]) \in 1 .. 2
       /\ \A y \in 1 .. Len(q[m]) : At(b, 4 + (Len(f[i]) + y)) = q[m][y]
  BY <1>10, <1>16
<1>18. 1 \in 1 .. Len(q[m]) /\ 4 + (Len(f[i]) + 1) = 5 + Len(f[i]) /\ 4 + (Len(f[i]) + 2) = 5 + Len(f[i]) + 1
  BY <1>A, <1>17
<1>19. At(b, at[i]) = q[m][1]
  BY <1>14, <1>17, <1>18
<1>20. q[m] = Piece(bytes[m]) /\ bytes[m] \in Char
  BY <1>6
<1>21. CASE q[m][1] = Escape
  <2>1. Len(q[m]) = 2 /\ Toggled(q[m][2]) = bytes[m]
    BY <1>20, <1>21, PieceIs
  <2>2. 2 \in 1 .. Len(q[m])
    BY <2>1
  <2>3. At(b, at[i] + 1) = q[m][2]
    BY <1>14, <1>17, <1>18, <2>2
  <2> QED BY <1>9, <1>15, <1>19, <1>21, <2>1, <2>3 DEF bytes
<1>22. CASE q[m][1] # Escape
  <2>1. q[m][1] = bytes[m]
    BY <1>20, <1>22, PieceIs
  <2> QED BY <1>9, <1>15, <1>19, <1>22, <2>1 DEF bytes
<1> QED BY <1>21, <1>22

\* What a request does to memory and to the signal.
AfterOne(j, m) ==
  [a \in 0 .. MEM - 1 |->
     IF Requests[j].op \in {"M", "X"} /\ a \in Requests[j].addr .. Requests[j].addr + Requests[j].len - 1
       THEN Requests[j].data[a - Requests[j].addr + 1] ELSE m[a]]
SignalledOne(j, s) == IF Requests[j].op \in {"c", "s"} THEN computeSignal(Runs[Requests[j].op].stop) ELSE s

LEMMA AfterOneTyped ==
  ASSUME NEW j \in 1 .. Len(Requests), NEW m \in Memory
  PROVE  AfterOne(j, m) \in Memory
<1> DEFINE r == Requests[j]
<1>1. /\ r.addr \in 0 .. 15 /\ r.len \in 0 .. 15 /\ r.data \in Seq(Char)
      /\ r.op \in {"M", "X"} => Len(r.data) = r.len
  BY RequestTyped, DataFits
<1>2. ASSUME NEW a \in 0 .. MEM - 1
      PROVE  (IF r.op \in {"M", "X"} /\ a \in r.addr .. r.addr + r.len - 1
                THEN r.data[a - r.addr + 1] ELSE m[a]) \in Char
  <2>1. CASE r.op \in {"M", "X"} /\ a \in r.addr .. r.addr + r.len - 1
    <3>1. a - r.addr + 1 \in 1 .. Len(r.data)
      <4>1. \A u, d, l \in Nat : u \in d .. d + l - 1 => u - d + 1 \in 1 .. l
        OBVIOUS
      <4>2. a \in Nat /\ r.addr \in Nat /\ r.len \in Nat
        BY <1>1, SMTT(30)
      <4> QED BY <1>1, <2>1, <4>1, <4>2
    <3>2. r.data[a - r.addr + 1] \in Char
      BY <1>1, <3>1, ElementOfSeq
    <3> QED BY <2>1, <3>2
  <2>2. CASE ~ (r.op \in {"M", "X"} /\ a \in r.addr .. r.addr + r.len - 1)
    BY <2>2 DEF Memory
  <2> QED BY <2>1, <2>2
<1> QED BY <1>2 DEF AfterOne, Memory

LEMMA MemoryAfterIs ==
  /\ MemoryAfter[0] = [a \in 0 .. MEM - 1 |-> 0]
  /\ \A j \in 1 .. Len(Requests) : MemoryAfter[j] = AfterOne(j, MemoryAfter[j - 1])
  /\ \A j \in 0 .. Len(Requests) : MemoryAfter[j] \in Memory
<1>0. PICK n \in Nat : n = Len(Requests)
  BY Constants
<1> DEFINE V == Memory
           z == [a \in 0 .. MEM - 1 |-> 0]
           G == [x \in (1 .. n) \X V |-> AfterOne(x[1], x[2])]
           g == CHOOSE f : f = [i \in 0 .. n |-> IF i = 0 THEN z ELSE AfterOne(i, f[i - 1])]
<1>1. \A k \in 1 .. n : \A v \in V : AfterOne(k, v) \in V
  BY <1>0, AfterOneTyped
<1>2. G \in [(1 .. n) \X V -> V]
  BY <1>1
<1>3. \A k \in 1 .. n : \A v \in V : G[<<k, v>>] = AfterOne(k, v)
  OBVIOUS
<1>4. z \in V
  BY DEF Memory, Char
<1> HIDE DEF G, V, z
<1>5. PICK f \in [0 .. n -> V] : Follows(f, n, z, G)
  BY <1>2, <1>4, Recursion
<1>6. ASSUME NEW k \in 0 .. n PROVE f[k] = IF k = 0 THEN z ELSE AfterOne(k, f[k - 1])
  <2>1. CASE k = 0
    BY <1>5, <2>1 DEF Follows
  <2>2. CASE k \in 1 .. n
    <3>1. k - 1 \in 0 .. n
      BY <2>2
    <3>2. f[k - 1] \in V
      BY <3>1
    <3>3. f[k] = G[<<k, f[k - 1]>>]
      BY <1>5, <2>2 DEF Follows
    <3>4. f[k] = AfterOne(k, f[k - 1])
      BY <1>3, <2>2, <3>2, <3>3
    <3> QED BY <2>2, <3>4
  <2> QED BY <2>1, <2>2
<1>7. f = [i \in 0 .. n |-> IF i = 0 THEN z ELSE AfterOne(i, f[i - 1])]
  BY <1>6
<1>8. g = [i \in 0 .. n |-> IF i = 0 THEN z ELSE AfterOne(i, g[i - 1])]
  BY <1>7
<1>9. MemoryAfter = g
  BY <1>0 DEF MemoryAfter, AfterOne, z
<1> HIDE DEF g
<1>10. \A k \in 1 .. n : g[k] = AfterOne(k, g[k - 1])
  BY <1>8
<1>11. g[0] = z
  BY <1>8
<1>12. ASSUME NEW k \in 1 .. n, g[k - 1] \in V PROVE g[k] = G[<<k, g[k - 1]>>]
  <2>1. G[<<k, g[k - 1]>>] = AfterOne(k, g[k - 1])
    BY <1>3, <1>12
  <2> QED BY <1>10, <2>1
<1>13. Obeys(g, n, V, z, G)
  BY <1>11, <1>12 DEF Obeys
<1>14. \A k \in 0 .. n : g[k] \in V
  BY <1>2, <1>4, <1>13, RecursionTyped
<1> QED BY <1>0, <1>9, <1>10, <1>11, <1>14 DEF V, z

LEMMA SignalAfterIs ==
  /\ SignalAfter[0] = 5
  /\ \A j \in 1 .. Len(Requests) : SignalAfter[j] = SignalledOne(j, SignalAfter[j - 1])
  /\ \A j \in 0 .. Len(Requests) : SignalAfter[j] \in Char
<1>0. PICK n \in Nat : n = Len(Requests)
  BY Constants
<1> DEFINE V == Char
           G == [x \in (1 .. n) \X V |-> SignalledOne(x[1], x[2])]
           g == CHOOSE f : f = [i \in 0 .. n |-> IF i = 0 THEN 5 ELSE SignalledOne(i, f[i - 1])]
<1>1. \A k \in 1 .. n : \A v \in V : SignalledOne(k, v) \in V
  <2>1. Signals \subseteq V
    BY DEF Signals, Char
  <2> HIDE DEF V
  <2> QED BY <2>1, computeSignalIs DEF SignalledOne
<1>2. G \in [(1 .. n) \X V -> V]
  BY <1>1
<1>3. \A k \in 1 .. n : \A v \in V : G[<<k, v>>] = SignalledOne(k, v)
  OBVIOUS
<1>4. 5 \in V
  BY DEF Char
<1> HIDE DEF G, V
<1>5. PICK f \in [0 .. n -> V] : Follows(f, n, 5, G)
  BY <1>2, <1>4, Recursion
<1>6. ASSUME NEW k \in 0 .. n PROVE f[k] = IF k = 0 THEN 5 ELSE SignalledOne(k, f[k - 1])
  <2>1. CASE k = 0
    BY <1>5, <2>1 DEF Follows
  <2>2. CASE k \in 1 .. n
    <3>1. k - 1 \in 0 .. n
      BY <2>2
    <3>2. f[k - 1] \in V
      BY <3>1
    <3>3. f[k] = G[<<k, f[k - 1]>>]
      BY <1>5, <2>2 DEF Follows
    <3>4. f[k] = SignalledOne(k, f[k - 1])
      BY <1>3, <2>2, <3>2, <3>3
    <3> QED BY <2>2, <3>4
  <2> QED BY <2>1, <2>2
<1>7. f = [i \in 0 .. n |-> IF i = 0 THEN 5 ELSE SignalledOne(i, f[i - 1])]
  BY <1>6
<1>8. g = [i \in 0 .. n |-> IF i = 0 THEN 5 ELSE SignalledOne(i, g[i - 1])]
  BY <1>7
<1>9. SignalAfter = g
  BY <1>0 DEF SignalAfter, SignalledOne
<1> HIDE DEF g
<1>10. \A k \in 1 .. n : g[k] = SignalledOne(k, g[k - 1])
  BY <1>8
<1>11. g[0] = 5
  BY <1>8
<1>12. ASSUME NEW k \in 1 .. n, g[k - 1] \in V PROVE g[k] = G[<<k, g[k - 1]>>]
  <2>1. G[<<k, g[k - 1]>>] = SignalledOne(k, g[k - 1])
    BY <1>3, <1>12
  <2> QED BY <1>10, <2>1
<1>13. Obeys(g, n, V, 5, G)
  BY <1>11, <1>12 DEF Obeys
<1>14. \A k \in 0 .. n : g[k] \in V
  BY <1>2, <1>4, <1>13, RecursionTyped
<1> QED BY <1>0, <1>9, <1>10, <1>11, <1>14 DEF V

\* What the stub is to send for the request j.
ToPrint(j) == IF Requests[j].op \in {"c", "s"} THEN Runs[Requests[j].op].prints ELSE <<>>
Expected(j) == [k \in 1 .. Len(ToPrint(j)) |-> OutputPacket(ToPrint(j)[k])] \o <<Due(j)>>

LEMMA ThereOrNot ==
  ASSUME NEW a \in 0 .. 15, NEW l \in 0 .. 15, NEW m \in Nat
  PROVE  (l > 0 /\ a + l > m) <=> ~ (l = 0 \/ a + l <= m)
  OBVIOUS

LEMMA WrittenAs ==
  ASSUME NEW j \in 1 .. Len(Requests), NEW n, NEW x, NEW b \in Buffer, HasText(j, n, x, b),
         MemoryAfter[j] = AfterOne(j, mem), Requests[j].op \in {"M", "X"}
  PROVE  MemoryWritten(b) = MemoryAfter[j] /\ WriteAnswer(b) = Due(j)
<1> DEFINE r == Requests[j]
           p == LenEnd(b) + 1
           byte(i) == IF b[0] = 77 THEN hex2mem(b, p, i) ELSE ebin2mem(b, p, i)
<1>1. TwoNumbers(b) /\ Addr(b) = r.addr /\ Length(b) = r.len /\ LenEnd(b) = 4 /\ b[4] = Colon
  BY Parsed
<1>2. Writes(b) /\ p = 5
  BY <1>1 DEF Writes
<1>3. r.addr \in 0 .. 15 /\ r.len \in 0 .. 15 /\ MEM \in Nat
  BY RequestTyped, Constants
<1>4. b[0] = IF r.op = "M" THEN 77 ELSE 88
  BY TakenText, TextIs
<1>5. ASSUME NEW i \in 0 .. r.len - 1 PROVE byte(i) = r.data[i + 1]
  <2>1. CASE r.op = "M"
    BY <1>2, <1>4, <2>1, HexData
  <2>2. CASE r.op = "X"
    BY <1>2, <1>4, <2>2, BinaryData
  <2> QED BY <2>1, <2>2
<1>6. MemoryWritten(b) =
        [a \in 0 .. MEM - 1 |-> IF a \in Addr(b) .. Addr(b) + Length(b) - 1 THEN byte(a - Addr(b)) ELSE mem[a]]
  BY <1>2 DEF MemoryWritten
<1> HIDE DEF byte, p
<1>7. MemoryAfter[j] = AfterOne(j, mem)
  OBVIOUS
<1>8. ASSUME NEW a \in 0 .. MEM - 1
      PROVE  (IF a \in Addr(b) .. Addr(b) + Length(b) - 1 THEN byte(a - Addr(b)) ELSE mem[a])
               = (IF a \in r.addr .. r.addr + r.len - 1 THEN r.data[a - r.addr + 1] ELSE mem[a])
  <2>1. CASE a \in r.addr .. r.addr + r.len - 1
    <3>1. a - r.addr \in 0 .. r.len - 1
      <4>1. \A u, d, l \in Nat : u \in d .. d + l - 1 => u - d \in 0 .. l - 1
        OBVIOUS
      <4>2. a \in Nat /\ r.addr \in Nat /\ r.len \in Nat
        BY <1>3
      <4> QED BY <2>1, <4>1, <4>2
    <3>2. byte(a - r.addr) = r.data[a - r.addr + 1]
      BY <1>5, <3>1
    <3> QED BY <1>1, <2>1, <3>2
  <2>2. CASE a \notin r.addr .. r.addr + r.len - 1
    BY <1>1, <2>2
  <2> QED BY <2>1, <2>2
<1>9. MemoryWritten(b) = MemoryAfter[j]
  BY <1>6, <1>7, <1>8 DEF AfterOne
<1>10. WriteAnswer(b) = IF r.len > 0 /\ r.addr + r.len > MEM THEN Error(3) ELSE OK
  BY <1>1, <1>2 DEF WriteAnswer, Faults
<1>11. Due(j) = IF r.len = 0 \/ r.addr + r.len <= MEM THEN OK ELSE Error(3)
  BY DEF Due
<1>12. (r.len > 0 /\ r.addr + r.len > MEM) <=> ~ (r.len = 0 \/ r.addr + r.len <= MEM)
  BY <1>3, ThereOrNot
<1> QED BY <1>9, <1>10, <1>11, <1>12

LEMMA ReadAs ==
  ASSUME NEW j \in 1 .. Len(Requests), NEW n, NEW x, NEW b \in Buffer, HasText(j, n, x, b),
         mem = MemoryAfter[j - 1], Requests[j].op = "m"
  PROVE  MemoryRead(b) = Due(j)
<1> DEFINE r == Requests[j]
<1>1. TwoNumbers(b) /\ Addr(b) = r.addr /\ Length(b) = r.len
  BY Parsed
<1>2. r.addr \in 0 .. 15 /\ r.len \in 0 .. 15 /\ MEM \in Nat /\ OUTBUFMAX \in Nat /\ r.len * 2 <= OUTBUFMAX
  BY RequestTyped, Constants, DataFits
<1>3. ~ (Length(b) * 2 > OUTBUFMAX)
  <2>1. \A l, o \in Nat : l * 2 <= o => ~ (l * 2 > o)
    OBVIOUS
  <2>2. r.len \in Nat
    BY <1>2, SMTT(30)
  <2> QED BY <1>1, <1>2, <2>1, <2>2
<1>4. MemoryRead(b) = IF r.len > 0 /\ r.addr + r.len > MEM THEN Error(3)
                      ELSE mem2hex([i \in 1 .. r.len |-> mem[r.addr + i - 1]])
  BY <1>1, <1>3 DEF MemoryRead, Faults
<1>5. Due(j) = IF r.len = 0 \/ r.addr + r.len <= MEM
                 THEN mem2hex([k \in 1 .. r.len |-> MemoryAfter[j - 1][r.addr + k - 1]]) ELSE Error(3)
  BY DEF Due
<1>6. (r.len > 0 /\ r.addr + r.len > MEM) <=> ~ (r.len = 0 \/ r.addr + r.len <= MEM)
  BY <1>2, ThereOrNot
<1> QED BY <1>4, <1>5, <1>6

\* Where a request can be carried out: what it does there is what it is to do.
Doable(j) ==
  /\ mem \in Memory /\ MemoryAfter[j] = AfterOne(j, mem) /\ SignalAfter[j] = SignalledOne(j, sigval)
  /\ Requests[j].op \notin {"M", "X"} => mem = MemoryAfter[j - 1]

LEMMA CarriedBy ==
  ASSUME NEW j \in 1 .. Len(Requests), NEW n, NEW x, NEW b \in Buffer, HasText(j, n, x, b), Doable(j)
  PROVE  /\ Answers(b) = Expected(j)
         /\ MemoryNow(b) = MemoryAfter[j] /\ SignalNow(b) = SignalAfter[j]
<1> DEFINE r == Requests[j]
<1>1. r.op \in {"m", "M", "X", "c", "s", "?"}
  BY RequestTyped
<1>2. b[0] = CASE r.op = "m" -> 109 [] r.op = "M" -> 77 [] r.op = "X" -> 88
               [] r.op = "c" -> 99 [] r.op = "s" -> 115 [] r.op = "?" -> 63
  BY TakenText, TextIs
<1>3. /\ MemoryAfter[j] = AfterOne(j, mem) /\ SignalAfter[j] = SignalledOne(j, sigval) /\ mem \in Memory
      /\ r.op \notin {"M", "X"} => mem = MemoryAfter[j - 1]
  BY DEF Doable
<1>4. ASSUME r.op \notin {"M", "X"} PROVE MemoryAfter[j] = mem
  BY <1>3, <1>4 DEF AfterOne, Memory
<1>5. ASSUME r.op \notin {"c", "s"} PROVE SignalAfter[j] = sigval
  BY <1>3, <1>5 DEF SignalledOne
<1>6. ASSUME r.op \notin {"c", "s"} PROVE Expected(j) = <<Due(j)>>
  <2> DEFINE u == [k \in 1 .. Len(ToPrint(j)) |-> OutputPacket(ToPrint(j)[k])]
             v == <<Due(j)>>
  <2>1. ToPrint(j) = <<>>
    BY <1>6 DEF ToPrint
  <2>2. Len(ToPrint(j)) = 0
    BY <2>1
  <2>3. u = <<>>
    BY <2>2
  <2>4. v \in Seq({Due(j)})
    OBVIOUS
  <2> HIDE DEF v, u
  <2>5. u \o v = v
    BY <2>3, <2>4, ConcatEmptySeq
  <2> QED BY <2>5 DEF Expected, u, v
<1>7. CASE r.op = "m"
  <2>1. b[0] = 109 /\ MemoryRead(b) = Due(j)
    BY <1>2, <1>3, <1>7, ReadAs
  <2> QED BY <1>4, <1>5, <1>6, <1>7, <2>1 DEF Answers, MemoryNow, SignalNow
<1>8. CASE r.op \in {"M", "X"}
  <2>1. b[0] \in {77, 88} /\ MemoryWritten(b) = MemoryAfter[j] /\ WriteAnswer(b) = Due(j)
    BY <1>2, <1>3, <1>8, WrittenAs
  <2>2. Answers(b) = <<WriteAnswer(b)>> /\ MemoryNow(b) = MemoryWritten(b) /\ SignalNow(b) = sigval
    BY <2>1 DEF Answers, MemoryNow, SignalNow
  <2> QED BY <1>5, <1>6, <1>8, <2>1, <2>2
<1>9. CASE r.op = "?"
  <2>1. b[0] = 63
    BY <1>2, <1>9
  <2>2. Due(j) = Stopped(sigval)
    BY <1>5, <1>9 DEF Due
  <2> QED BY <1>4, <1>5, <1>6, <1>9, <2>1, <2>2 DEF Answers, MemoryNow, SignalNow
<1>10. CASE r.op \in {"c", "s"}
  <2> DEFINE run == Runs[r.op]
  <2>1. b[0] \in {99, 115} /\ r.op = IF b[0] = 99 THEN "c" ELSE "s"
    BY <1>2, <1>10
  <2>2. Answers(b) = [k \in 1 .. Len(run.prints) |-> OutputPacket(run.prints[k])] \o <<Stopped(computeSignal(run.stop))>>
    <3>1. CASE b[0] = 99
      <4>1. r.op = "c"
        BY <2>1, <3>1
      <4>2. Answers(b) = [k \in 1 .. Len(Runs["c"].prints) |-> OutputPacket(Runs["c"].prints[k])]
                           \o <<Stopped(computeSignal(Runs["c"].stop))>>
        BY <3>1 DEF Answers
      <4> QED BY <4>1, <4>2
    <3>2. CASE b[0] = 115
      <4>1. r.op = "s"
        BY <2>1, <3>2
      <4>2. Answers(b) = [k \in 1 .. Len(Runs["s"].prints) |-> OutputPacket(Runs["s"].prints[k])]
                           \o <<Stopped(computeSignal(Runs["s"].stop))>>
        BY <3>2 DEF Answers
      <4> QED BY <4>1, <4>2
    <3> QED BY <2>1, <3>1, <3>2
  <2>3. ToPrint(j) = run.prints
    BY <1>10 DEF ToPrint
  <2>4. SignalAfter[j] = computeSignal(run.stop)
    BY <1>3, <1>10 DEF SignalledOne
  <2>5. Due(j) = Stopped(computeSignal(run.stop))
    BY <1>10, <2>4 DEF Due
  <2>6. Answers(b) = Expected(j)
    BY <2>2, <2>3, <2>5 DEF Expected
  <2>7. MemoryNow(b) = mem /\ SignalNow(b) = computeSignal(run.stop)
    BY <2>1 DEF MemoryNow, SignalNow
  <2> QED BY <1>4, <1>10, <2>4, <2>6, <2>7
<1> QED BY <1>1, <1>7, <1>8, <1>9, <1>10

\* It is where it has not been carried out, and where it has: what it writes it writes again.
LEMMA DoableIs ==
  ASSUME NEW j \in 1 .. Len(Requests), NEW i \in {j - 1, j}, mem = MemoryAfter[i], sigval = SignalAfter[i]
  PROVE  Doable(j)
<1> DEFINE m == MemoryAfter[j - 1]
           s == SignalAfter[j - 1]
<1>1. /\ MemoryAfter[j] = AfterOne(j, m) /\ SignalAfter[j] = SignalledOne(j, s)
      /\ m \in Memory /\ AfterOne(j, m) \in Memory
  <2>1. j - 1 \in 0 .. Len(Requests) /\ j \in 0 .. Len(Requests)
    BY Constants
  <2> QED BY <2>1, MemoryAfterIs, SignalAfterIs
<1> HIDE DEF m, s
<1>2. AfterOne(j, AfterOne(j, m)) = AfterOne(j, m)
  BY DEF AfterOne
<1>3. SignalledOne(j, SignalledOne(j, s)) = SignalledOne(j, s)
  BY DEF SignalledOne
<1>4. ASSUME Requests[j].op \notin {"M", "X"} PROVE AfterOne(j, m) = m
  BY <1>1, <1>4 DEF AfterOne, Memory
<1>5. CASE i = j - 1
  BY <1>1, <1>5 DEF Doable, m, s
<1>6. CASE i = j
  <2>1. mem = AfterOne(j, m) /\ sigval = SignalledOne(j, s)
    BY <1>1, <1>6
  <2> QED BY <1>1, <1>2, <1>3, <1>4, <2>1 DEF Doable, m
<1> QED BY <1>5, <1>6

LEMMA CarriedOut ==
  ASSUME NEW j \in 1 .. Len(Requests), NEW n, NEW x, NEW b \in Buffer, HasText(j, n, x, b),
         mem = MemoryAfter[j - 1], sigval = SignalAfter[j - 1]
  PROVE  /\ Answers(b) = Expected(j)
         /\ MemoryNow(b) = MemoryAfter[j] /\ SignalNow(b) = SignalAfter[j]
<1>1. Doable(j)
  BY DoableIs
<1> QED BY <1>1, CarriedBy

\* Nothing the stub sends has a * in it: the host gets it back from what is run-length
\* encoded.
Starless(s) == s \in Seq(Char) /\ \A k \in 1 .. Len(s) : s[k] # Star

LEMMA HexStarless ==
  ASSUME NEW bytes \in Seq(Char)
  PROVE  Starless(mem2hex(bytes))
<1> DEFINE t == mem2hex(bytes)
<1>1. t \in Seq(HexChar)
  BY mem2hexIs
<1> HIDE DEF t
<1>2. t \in Seq(Char)
  BY <1>1, HexCharIsPlain, SeqMonotonic
<1>3. \A k \in 1 .. Len(t) : t[k] \in HexChar
  BY <1>1, ElementOfSeq
<1>4. Star \notin HexChar
  BY DEF Star, HexChar
<1>5. Starless(t)
  BY <1>2, <1>3, <1>4 DEF Starless
<1> QED BY <1>5 DEF t

LEMMA PrefixedStarless ==
  ASSUME NEW c \in Char, c # Star, NEW bytes \in Seq(Char)
  PROVE  Starless(<<c>> \o mem2hex(bytes)) /\ Tail(<<c>> \o mem2hex(bytes)) = mem2hex(bytes)
<1> DEFINE t == mem2hex(bytes)
           u == <<c>>
           v == u \o t
<1>1. t \in Seq(Char) /\ \A k \in 1 .. Len(t) : t[k] # Star
  BY HexStarless DEF Starless
<1>2. u \in Seq(Char) /\ Len(u) = 1 /\ u[1] = c
  BY One
<1> HIDE DEF t, u
<1>3. Joins(v, u, t, Char)
  BY <1>1, <1>2, Cat
<1> HIDE DEF v
<1>4. /\ v \in Seq(Char) /\ Len(v) = 1 + Len(t) /\ Len(t) \in Nat /\ v[1] = c
      /\ \A k \in 1 .. Len(t) : v[1 + k] = t[k]
  BY <1>2, <1>3 DEF Joins
<1>5. ASSUME NEW k \in 1 .. Len(v) PROVE v[k] # Star
  <2>1. CASE k = 1
    BY <1>4, <2>1
  <2>2. CASE k # 1
    <3>1. PICK i \in 1 .. Len(t) : k = 1 + i
      <4>1. k - 1 \in 1 .. Len(t) /\ k = 1 + (k - 1)
        BY <1>4, <2>2
      <4> QED BY <4>1
    <3> QED BY <1>1, <1>4, <3>1
  <2> QED BY <2>1, <2>2
<1>6. Tail(v) = t
  <2>1. v # <<>>
    BY <1>4
  <2> DEFINE w == Tail(v)
  <2>2. w \in Seq(Char) /\ Len(w) = Len(v) - 1 /\ \A k \in 1 .. Len(v) - 1 : w[k] = v[k + 1]
    BY <1>4, <2>1, HeadOff
  <2> HIDE DEF w
  <2>3. Len(w) = Len(t)
    BY <1>4, <2>2
  <2>4. ASSUME NEW k \in 1 .. Len(w) PROVE w[k] = t[k]
    <3>1. k \in 1 .. Len(t) /\ k \in 1 .. Len(v) - 1 /\ k + 1 = 1 + k
      BY <1>4, <2>3
    <3> QED BY <1>4, <2>2, <3>1
  <2>5. w = t
    BY <1>1, <2>2, <2>3, <2>4, SeqEqual
  <2> QED BY <2>5 DEF w
<1>7. Starless(v)
  BY <1>4, <1>5 DEF Starless
<1> QED BY <1>6, <1>7 DEF v, u, t

LEMMA DueIs ==
  ASSUME NEW j \in 1 .. Len(Requests)
  PROVE  Starless(Due(j))
<1> DEFINE r == Requests[j]
           there == r.len = 0 \/ r.addr + r.len <= MEM
<1>1. r.op \in {"m", "M", "X", "c", "s", "?"} /\ r.addr \in 0 .. 15 /\ r.len \in 0 .. 15 /\ MEM \in Nat
  BY RequestTyped, Constants
<1>2. Starless(OK) /\ Starless(Error(3))
  BY DEF Starless, OK, Error, Star, Char
<1>3. CASE r.op \in {"c", "s", "?"}
  <2>1. SignalAfter[j] \in Char
    <3>1. j \in 0 .. Len(Requests)
      BY Constants
    <3> QED BY <3>1, SignalAfterIs
  <2>2. PICK sig \in Char : sig = SignalAfter[j]
    BY <2>1
  <2>3. <<sig>> \in Seq(Char) /\ 83 \in Char /\ 83 # Star
    BY DEF Char, Star
  <2>4. Starless(Stopped(sig))
    BY <2>3, PrefixedStarless DEF Stopped
  <2>5. Due(j) = Stopped(SignalAfter[j])
    BY <1>3 DEF Due
  <2> QED BY <2>2, <2>4, <2>5
<1>4. CASE r.op = "m" /\ there
  <2>1. PICK m \in Memory : m = MemoryAfter[j - 1]
    <3>1. j - 1 \in 0 .. Len(Requests)
      BY Constants
    <3> QED BY <3>1, MemoryAfterIs
  <2> DEFINE bytes == [k \in 1 .. r.len |-> m[r.addr + k - 1]]
  <2>2. Due(j) = mem2hex(bytes)
    BY <1>4, <2>1 DEF Due
  <2>3. ASSUME NEW k \in 1 .. r.len PROVE m[r.addr + k - 1] \in Char
    <3>1. \A a, l, s \in Nat : (l = 0 \/ a + l <= s) => \A i \in 1 .. l : a + i - 1 \in 0 .. s - 1
      OBVIOUS
    <3>2. r.addr \in Nat /\ r.len \in Nat
      BY <1>1, SMTT(30)
    <3>3. r.addr + k - 1 \in 0 .. MEM - 1
      BY <1>1, <1>4, <3>1, <3>2
    <3> QED BY <3>3 DEF Memory
  <2>4. bytes \in [1 .. r.len -> Char] /\ r.len \in Nat
    BY <1>1, <2>3
  <2> HIDE DEF bytes
  <2>5. bytes \in Seq(Char)
    BY <2>4, IsSequence
  <2> QED BY <2>2, <2>5, HexStarless
<1>5. CASE ~ (r.op \in {"c", "s", "?"}) /\ ~ (r.op = "m" /\ there)
  <2>1. Due(j) \in {OK, Error(3)}
    BY <1>1, <1>5 DEF Due
  <2> QED BY <1>2, <2>1
<1> QED BY <1>3, <1>4, <1>5

\* What the host makes of a packet.
LEMMA Decoded ==
  ASSUME NEW s, Starless(s)
  PROVE  Unrle(Rle(s)) = s
<1>1. s \in Seq(Char) /\ \A k \in 1 .. Len(s) : s[k] # Star
  BY DEF Starless
<1> QED BY <1>1, UnrleRle

\* What the host is to make of the packets for the request j: k prints, and the reply.
AsExpected(j, q, l) ==
  /\ l \in Nat /\ q \in Seq(Seq(Char)) /\ Len(q) = l + 1
  /\ Printed(j) \in Seq(Seq(Char)) /\ Len(Printed(j)) = l
  /\ \A k \in 1 .. l : Tail(Unrle(Rle(q[k]))) = Printed(j)[k] /\ Printed(j)[k] \in Seq(Char)
  /\ Unrle(Rle(q[l + 1])) = Due(j) /\ Due(j) \in Seq(Char)

LEMMA ExpectedIs ==
  ASSUME NEW j \in 1 .. Len(Requests)
  PROVE  \E l : AsExpected(j, Expected(j), l)
<1> DEFINE p == ToPrint(j)
           a == [k \in 1 .. Len(p) |-> OutputPacket(p[k])]
           z == <<Due(j)>>
           q == a \o z
<1>1. p \in Seq(Seq(Char))
  <2>1. CASE Requests[j].op \in {"c", "s"}
    <3>1. Runs[Requests[j].op] \in [prints : Seq(Seq(0 .. 255)), stop : STRING]
      BY <2>1, PacketConstantsOK
    <3> QED BY <2>1, <3>1 DEF ToPrint, Char
  <2>2. CASE Requests[j].op \notin {"c", "s"}
    BY <2>2 DEF ToPrint
  <2> QED BY <2>1, <2>2
<1>2. Printed(j) = [k \in 1 .. Len(p) |-> mem2hex(p[k])]
  <2>1. CASE Requests[j].op \in {"c", "s"}
    BY <2>1 DEF Printed, ToPrint
  <2>2. CASE Requests[j].op \notin {"c", "s"}
    <3>1. p = <<>> /\ Printed(j) = <<>>
      BY <2>2 DEF Printed, ToPrint
    <3>2. Len(p) = 0
      BY <3>1
    <3> QED BY <3>1, <3>2
  <2> QED BY <2>1, <2>2
<1>3. Expected(j) = q
  BY DEF Expected
<1> HIDE DEF p
<1>4. PICK l \in Nat : l = Len(p)
  BY <1>1, LenProperties
<1>5. ASSUME NEW k \in 1 .. l
      PROVE  /\ OutputPacket(p[k]) \in Seq(Char) /\ mem2hex(p[k]) \in Seq(Char)
             /\ Tail(Unrle(Rle(OutputPacket(p[k])))) = mem2hex(p[k])
  <2>1. PICK s \in Seq(Char) : s = p[k]
    BY <1>1, <1>4, ElementOfSeq
  <2>2. 79 \in Char /\ 79 # Star
    BY DEF Char, Star
  <2>3. Starless(OutputPacket(s)) /\ Tail(OutputPacket(s)) = mem2hex(s)
    BY <2>2, PrefixedStarless DEF OutputPacket
  <2>4. Unrle(Rle(OutputPacket(s))) = OutputPacket(s)
    BY <2>3, Decoded
  <2>5. OutputPacket(s) \in Seq(Char) /\ mem2hex(s) \in Seq(Char)
    BY <2>3, HexStarless DEF Starless
  <2> QED BY <2>1, <2>3, <2>4, <2>5
<1>6. a \in [1 .. l -> Seq(Char)] /\ \A k \in 1 .. l : a[k] = OutputPacket(p[k])
  BY <1>4, <1>5
<1>7. Printed(j) \in [1 .. l -> Seq(Char)] /\ \A k \in 1 .. l : Printed(j)[k] = mem2hex(p[k])
  BY <1>2, <1>4, <1>5
<1>8. Due(j) \in Seq(Char) /\ Unrle(Rle(Due(j))) = Due(j)
  BY DueIs, Decoded DEF Starless
<1>9. z \in Seq(Seq(Char)) /\ Len(z) = 1 /\ z[1] = Due(j)
  BY <1>8, One
<1> HIDE DEF a, z
<1>10. a \in Seq(Seq(Char)) /\ Len(a) = l
  BY <1>6, IsSequence
<1>11. Joins(q, a, z, Seq(Char))
  BY <1>9, <1>10, Cat
<1> HIDE DEF q
<1>12. /\ q \in Seq(Seq(Char)) /\ Len(q) = l + 1 /\ q[l + 1] = Due(j)
       /\ \A k \in 1 .. l : q[k] = OutputPacket(p[k])
  <2>1. 1 \in 1 .. Len(z)
    BY <1>9
  <2> QED BY <1>6, <1>9, <1>10, <1>11, <2>1 DEF Joins
<1>13. Printed(j) \in Seq(Seq(Char)) /\ Len(Printed(j)) = l
  BY <1>7, IsSequence
<1>14. \A k \in 1 .. l : Tail(Unrle(Rle(q[k]))) = Printed(j)[k] /\ Printed(j)[k] \in Seq(Char)
  BY <1>5, <1>7, <1>12
<1>15. AsExpected(j, q, l)
  BY <1>8, <1>12, <1>13, <1>14 DEF AsExpected
<1> QED BY <1>3, <1>15

Reply == [reply : Seq(Char), output : Seq(Seq(Char))]

\* What the host has taken so far, what it shows of the output of the command it is at, and
\* what the stub has still to send for that.
GotRight == got \in Seq(Reply) /\ \A i \in 1 .. Len(got) : got[i].reply = Due(i) /\ got[i].output = Printed(i)
Shows(k) == shown \in Seq(Seq(Char)) /\ Len(shown) = k /\ \A i \in 1 .. k : shown[i] = Printed(next)[i]
SentUpTo(p) ==
  /\ p \in Nat /\ p + Len(packets) = Len(Expected(next))
  /\ \A i \in 1 .. Len(packets) : packets[i] = Expected(next)[p + i]
  /\ Shows(IF toStub = <<>> THEN p ELSE p + 1)

Right ==
  /\ GotRight
  /\ Asking => /\ mem = MemoryAfter[next - 1] /\ sigval = SignalAfter[next - 1]
               /\ Len(got) = next - 1 /\ shown = <<>>
  /\ Answering => /\ mem = MemoryAfter[next] /\ sigval = SignalAfter[next]
                  /\ Len(got) = next - 1 /\ \E p : SentUpTo(p)
  /\ Over => Len(got) = next

LEMMA RightTaken ==
  ASSUME Typed, Typed', Asking, InTurn, Right, GetChar
  PROVE  Right'
<1>1. UNCHANGED <<hs, next, got, shown>> /\ hs = "acked" /\ Len(ran) = next - 1
  BY DEF GetChar, hostVars, Asking
<1>2. next \in 1 .. Len(Requests) /\ buffer \in Buffer
  BY DEF Typed
<1>3. /\ mem = MemoryAfter[next - 1] /\ sigval = SignalAfter[next - 1]
      /\ Len(got) = next - 1 /\ shown = <<>> /\ GotRight
  BY DEF Right
<1>4. Progress
  BY AskingStep
<1>5. GotRight'
  BY <1>1, <1>3 DEF GotRight
<1>6. ~ Over'
  BY <1>1 DEF Over
<1>7. CASE UNCHANGED <<ran, mem, sigval>>
  <2>1. ~ Answering'
    <3>1. Len(ran') # next'
      BY <1>1, <1>2, <1>7
    <3> QED BY <3>1 DEF Answering
  <2> QED BY <1>1, <1>3, <1>5, <1>6, <1>7, <2>1 DEF Right
<1>8. CASE /\ HasText(next, count, checksum, buffer) /\ Len(ran') = next
           /\ packets' = Answers(buffer) /\ mem' = MemoryNow(buffer) /\ sigval' = SignalNow(buffer)
  <2>1. ~ Asking'
    <3>1. Len(ran') # next' - 1
      BY <1>1, <1>2, <1>8
    <3> QED BY <3>1 DEF Asking
  <2>2. Answers(buffer) = Expected(next) /\ MemoryNow(buffer) = MemoryAfter[next] /\ SignalNow(buffer) = SignalAfter[next]
    BY <1>2, <1>3, <1>8, CarriedOut
  <2>3. ASSUME Answering' PROVE SentUpTo(0)'
    <3>1. toStub' = <<>>
      BY <1>1, <2>3 DEF Answering
    <3>2. packets' = Expected(next) /\ packets' \in Seq(Seq(Char))
      BY <1>8, <2>2 DEF Typed
    <3>3. 0 + Len(packets') = Len(packets') /\ \A i \in 1 .. Len(packets') : 0 + i = i
      <4>1. Len(packets') \in Nat
        BY <3>2, LenProperties
      <4> QED BY <4>1
    <3>4. Shows(0)'
      BY <1>1, <1>3 DEF Shows
    <3>5. (IF toStub' = <<>> THEN 0 ELSE 0 + 1) = 0
      BY <3>1
    <3> QED BY <1>1, <3>1, <3>2, <3>3, <3>4, <3>5 DEF SentUpTo
  <2>4. Answering' => \E p : SentUpTo(p)'
    BY <2>3
  <2> QED BY <1>1, <1>3, <1>5, <1>6, <1>8, <2>1, <2>2, <2>4 DEF Right
<1> QED BY <1>4, <1>7, <1>8 DEF Progress

LEMMA RightMore ==
  ASSUME Typed, Typed', Answering \/ Over, Right, GetChar
  PROVE  Right'
<1> DEFINE c == Head(toStub)
<1>1. /\ toStub' = Tail(toStub) /\ toStub # <<>> /\ UNCHANGED <<hs, next, got, shown>>
      /\ (Hunt(c) \/ Data(c) \/ Sum1(c) \/ Sum2(c) \/ Resend(c))
  BY DEF GetChar, hostVars
<1>2. toStub = <<Plus>> /\ toHost = <<>> /\ ts = "ack" /\ Len(ran) = next /\ hs # "acked" /\ next \in 1 .. Len(Requests)
  BY <1>1 DEF Answering, Over, Typed
<1>3. c = Plus /\ toStub' = <<>>
  BY <1>1, <1>2
<1>4. Resend(c)
  BY <1>1, <1>2 DEF Hunt, Data, Sum1, Sum2
<1>5. Acknowledged /\ UNCHANGED <<mem, sigval, ran>>
  BY <1>3, <1>4 DEF Resend
<1>6. GotRight'
  BY <1>1 DEF Right, GotRight
<1>7. ~ Asking'
  BY <1>1, <1>2 DEF Asking
<1>8. CASE Answering
  <2>1. Len(packets) # 1 /\ hs = "reply"
    BY <1>1, <1>8 DEF Answering
  <2>2. packets' = Tail(packets)
    BY <1>5, <2>1 DEF Acknowledged
  <2>3. packets \in Seq(Seq(Char)) /\ packets # <<>>
    BY <1>2 DEF Typed
  <2>4. ~ Over'
    BY <1>1, <2>1 DEF Over
  <2>5. mem = MemoryAfter[next] /\ sigval = SignalAfter[next] /\ Len(got) = next - 1 /\ \E p : SentUpTo(p)
    BY <1>8 DEF Right
  <2>6. PICK p : SentUpTo(p)
    BY <2>5
  <2>7. /\ p \in Nat /\ p + Len(packets) = Len(Expected(next))
        /\ \A i \in 1 .. Len(packets) : packets[i] = Expected(next)[p + i]
        /\ Shows(p + 1)
    BY <1>2, <2>6 DEF SentUpTo
  <2>8. Len(packets) \in Nat \ {0} /\ Len(Tail(packets)) = Len(packets) - 1
        /\ \A k \in 1 .. Len(packets) - 1 : Tail(packets)[k] = packets[k + 1]
    BY <2>3, HeadOff
  <2>9. (p + 1) + Len(Tail(packets)) = p + Len(packets) /\ p + 1 \in Nat
    <3>1. \A u \in Nat : \A v \in Nat \ {0} : (u + 1) + (v - 1) = u + v /\ u + 1 \in Nat
      OBVIOUS
    <3> QED BY <2>7, <2>8, <3>1
  <2>10. ASSUME NEW i \in 1 .. Len(Tail(packets)) PROVE Tail(packets)[i] = Expected(next)[(p + 1) + i]
    <3>1. i \in 1 .. Len(packets) - 1 /\ i + 1 \in 1 .. Len(packets) /\ i \in Nat
      BY <2>8
    <3>2. p + (i + 1) = (p + 1) + i
      BY <2>7, <3>1
    <3>3. packets[i + 1] = Expected(next)[p + (i + 1)]
      BY <2>7, <3>1
    <3> QED BY <2>8, <3>1, <3>2, <3>3
  <2>11. Shows(p + 1)'
    BY <1>1, <2>7 DEF Shows
  <2>12. SentUpTo(p + 1)'
    BY <1>1, <1>3, <2>2, <2>7, <2>9, <2>10, <2>11 DEF SentUpTo
  <2>13. \E k : SentUpTo(k)'
    BY <2>12
  <2> QED BY <1>1, <1>5, <1>6, <1>7, <2>4, <2>5, <2>13 DEF Right
<1>9. CASE Over
  <2>1. ~ Answering'
    BY <1>1, <1>9 DEF Over, Answering
  <2>2. Len(got') = next'
    BY <1>1, <1>9 DEF Right
  <2> QED BY <1>6, <1>7, <2>1, <2>2 DEF Right
<1> QED BY <1>8, <1>9

\* What the host makes of a packet that is right.
LEMMA RightShown ==
  ASSUME Typed, NEW p, SentUpTo(p), toStub = <<>>, packets # <<>>
  PROVE  /\ Len(packets) # 1 => /\ Append(shown, Tail(Unrle(Rle(Head(packets))))) \in Seq(Seq(Char))
                                /\ Len(Append(shown, Tail(Unrle(Rle(Head(packets)))))) = p + 1
                                /\ \A i \in 1 .. p + 1 :
                                     Append(shown, Tail(Unrle(Rle(Head(packets)))))[i] = Printed(next)[i]
         /\ Len(packets) = 1 => Unrle(Rle(Head(packets))) = Due(next) /\ shown = Printed(next)
         /\ Due(next) \in Seq(Char)
<1>1. next \in 1 .. Len(Requests) /\ packets \in Seq(Seq(Char))
  BY DEF Typed
<1>2. PICK l : AsExpected(next, Expected(next), l)
  BY <1>1, ExpectedIs
<1>3. /\ p \in Nat /\ p + Len(packets) = l + 1
      /\ \A i \in 1 .. Len(packets) : packets[i] = Expected(next)[p + i]
      /\ shown \in Seq(Seq(Char)) /\ Len(shown) = p /\ \A i \in 1 .. p : shown[i] = Printed(next)[i]
  BY <1>2 DEF SentUpTo, AsExpected, Shows
<1>4. Len(packets) \in Nat \ {0} /\ Head(packets) = packets[1]
  BY <1>1, HeadOff
<1>5. Head(packets) = Expected(next)[p + 1]
  <2>1. 1 \in 1 .. Len(packets)
    BY <1>4
  <2> QED BY <1>3, <1>4, <2>1
<1>6. ASSUME Len(packets) # 1
      PROVE  /\ Append(shown, Tail(Unrle(Rle(Head(packets))))) \in Seq(Seq(Char))
             /\ Len(Append(shown, Tail(Unrle(Rle(Head(packets)))))) = p + 1
             /\ \A i \in 1 .. p + 1 : Append(shown, Tail(Unrle(Rle(Head(packets)))))[i] = Printed(next)[i]
  <2>1. p + 1 \in 1 .. l
    <3>1. \A u, v \in Nat : \A w \in Nat \ {0} : u + w = v + 1 /\ w # 1 => u + 1 \in 1 .. v
      OBVIOUS
    <3>2. l \in Nat
      BY <1>2 DEF AsExpected
    <3> QED BY <1>3, <1>4, <1>6, <3>1, <3>2
  <2>2. Tail(Unrle(Rle(Head(packets)))) = Printed(next)[p + 1] /\ Printed(next)[p + 1] \in Seq(Char)
    BY <1>2, <1>5, <2>1 DEF AsExpected
  <2>3. PICK x \in Seq(Char) : x = Tail(Unrle(Rle(Head(packets)))) /\ x = Printed(next)[p + 1]
    BY <2>2
  <2>4. /\ Append(shown, x) \in Seq(Seq(Char)) /\ Len(Append(shown, x)) = Len(shown) + 1
        /\ Append(shown, x)[Len(shown) + 1] = x /\ \A i \in 1 .. Len(shown) : Append(shown, x)[i] = shown[i]
    BY <1>3, AppendProperties
  <2>5. ASSUME NEW i \in 1 .. p + 1 PROVE Append(shown, x)[i] = Printed(next)[i]
    <3>1. i \in 1 .. p \/ i = p + 1
      BY <1>3
    <3> QED BY <1>3, <2>3, <2>4, <3>1
  <2> QED BY <1>3, <2>3, <2>4, <2>5
<1>7. ASSUME Len(packets) = 1 PROVE Unrle(Rle(Head(packets))) = Due(next) /\ shown = Printed(next)
  <2>1. p = l
    <3>1. \A u, v \in Nat : u + 1 = v + 1 => u = v
      OBVIOUS
    <3>2. l \in Nat
      BY <1>2 DEF AsExpected
    <3> QED BY <1>3, <1>7, <3>1, <3>2
  <2>2. Unrle(Rle(Head(packets))) = Due(next) /\ Printed(next) \in Seq(Seq(Char)) /\ Len(Printed(next)) = p
    BY <1>2, <1>5, <2>1 DEF AsExpected
  <2>3. PICK w \in Seq(Seq(Char)) : w = Printed(next)
    BY <2>2
  <2>4. shown = w
    BY <1>3, <2>2, <2>3, SeqEqual
  <2> QED BY <2>2, <2>3, <2>4
<1>8. Due(next) \in Seq(Char)
  BY <1>2 DEF AsExpected
<1> QED BY <1>6, <1>7, <1>8

\* A packet that the host takes for the reply, added to what it has taken.
LEMMA RightAdded ==
  ASSUME GotRight, NEW j \in 1 .. Len(Requests), Len(got) = j - 1, NEW a, a = Due(j), a \in Seq(Char),
         NEW o, o = Printed(j), o \in Seq(Seq(Char))
  PROVE  LET g == Append(got, [reply |-> a, output |-> o])
         IN g \in Seq(Reply) /\ Len(g) = j /\ \A i \in 1 .. Len(g) : g[i].reply = Due(i) /\ g[i].output = Printed(i)
<1> DEFINE x == [reply |-> a, output |-> o]
           g == Append(got, x)
<1>1. x \in Reply /\ x.reply = a /\ x.output = o
  BY DEF Reply
<1> HIDE DEF x
<1>2. /\ g \in Seq(Reply) /\ Len(g) = Len(got) + 1 /\ g[Len(got) + 1] = x
      /\ \A i \in 1 .. Len(got) : g[i] = got[i]
  BY <1>1, AppendProperties DEF GotRight
<1> HIDE DEF g
<1>3. Len(g) = j /\ g[j] = x
  <2>1. \A u \in Nat : (u - 1) + 1 = u
    OBVIOUS
  <2>2. j \in Nat
    BY Constants
  <2> QED BY <1>2, <2>1, <2>2
<1>4. ASSUME NEW i \in 1 .. Len(g) PROVE g[i].reply = Due(i) /\ g[i].output = Printed(i)
  <2>1. i = j \/ i \in 1 .. Len(got)
    BY <1>3, Constants
  <2> QED BY <1>1, <1>2, <1>3, <2>1 DEF GotRight
<1> QED BY <1>2, <1>3, <1>4 DEF g, x

LEMMA RightHeard ==
  ASSUME Typed, Typed', Exchange, Right, HostReads
  PROVE  Right'
<1> DEFINE m == Head(toHost)
<1>1. /\ toHost # <<>> /\ UNCHANGED <<ts, ran, packets, mem, sigval>>
      /\ (AwaitAck(m) \/ AwaitReply(m) \/ Idle(m))
  BY DEF HostReads, stubVars, target
<1>2. Answering
  BY <1>1, AskingGoes DEF Exchange, Over
<1>3. ts = "ack" /\ Len(ran) = next /\ Outputs(packets, next) /\ toStub = <<>>
  BY <1>1, <1>2 DEF Answering
<1>4. packets \in Seq(Seq(Char)) /\ packets # <<>> /\ next \in 1 .. Len(Requests)
  BY <1>3 DEF Typed
<1>5. Sent(Head(packets)).kind = "good" /\ Sent(Head(packets)).of = Rle(Head(packets))
  <2>1. Head(packets) \in Seq(Char)
    BY <1>4, HeadOff
  <2> QED BY <2>1, MessagesTyped
<1>6. /\ GotRight /\ mem = MemoryAfter[next] /\ sigval = SignalAfter[next] /\ Len(got) = next - 1
      /\ \E p : SentUpTo(p)
  BY <1>2 DEF Right
<1>7. PICK p : SentUpTo(p)
  BY <1>6
\* If the command is the same afterwards, so is what is done of it.
<1>8. ASSUME UNCHANGED <<next, got>>, hs' # "done", SentUpTo(p)' PROVE Right'
  <2>1. ~ Asking'
    <3>1. Len(ran') # next' - 1
      BY <1>1, <1>3, <1>4, <1>8
    <3> QED BY <3>1 DEF Asking
  <2>2. ~ Over'
    BY <1>8 DEF Over
  <2>3. GotRight'
    BY <1>6, <1>8 DEF GotRight
  <2>4. \E k : SentUpTo(k)'
    BY <1>8
  <2> QED BY <1>1, <1>6, <1>8, <2>1, <2>2, <2>3, <2>4 DEF Right
<1>9. CASE hs = "acked"
  <2>1. m = Ack
    BY <1>1, <1>2, <1>9 DEF Answering
  <2>2. AwaitAck(m)
    BY <1>1, <1>9 DEF AwaitReply, Idle
  <2>3. hs' = "reply" /\ UNCHANGED <<toStub, next, got, shown>>
    BY <2>1, <2>2 DEF AwaitAck, Ack
  <2>4. SentUpTo(p)'
    BY <1>1, <1>7, <2>3 DEF SentUpTo, Shows
  <2> QED BY <1>8, <2>3, <2>4
<1>10. CASE hs = "reply"
  <2>1. toHost = <<Sent(Head(packets))>>
    BY <1>1, <1>2, <1>10 DEF Answering
  <2>2. m = Sent(Head(packets))
    BY <2>1
  <2>3. AwaitReply(m) /\ m.kind = "good" /\ m.of = Rle(Head(packets))
    BY <1>1, <1>5, <1>10, <2>2 DEF AwaitAck, Idle
  <2>4. IsOutput(m.of) <=> Len(packets) # 1
    BY <1>3, <1>4, <2>3, OutputIs
  <2>5. CASE Len(packets) # 1
    <3>1. Send(<<Plus>>) /\ hs' = hs /\ UNCHANGED <<next, got>> /\ shown' = Append(shown, Tail(Unrle(Rle(Head(packets)))))
      BY <2>3, <2>4, <2>5 DEF AwaitReply
    <3>2. toStub' # <<>>
      <4>1. toStub' = <<>> \o <<Plus>> /\ <<Plus>> \in Seq(Char)
        BY <1>3, <3>1, MessagesTyped DEF Send
      <4>2. toStub' = <<Plus>>
        BY <4>1, ConcatEmptySeq
      <4> QED BY <4>2
    <3>3. shown' \in Seq(Seq(Char)) /\ Len(shown') = p + 1 /\ \A i \in 1 .. p + 1 : shown'[i] = Printed(next)[i]
      BY <1>3, <1>4, <1>7, <2>5, <3>1, RightShown
    <3>4. Shows(p + 1)'
      BY <3>1, <3>3 DEF Shows
    <3>5. SentUpTo(p)'
      BY <1>1, <1>7, <3>1, <3>2, <3>4 DEF SentUpTo
    <3> QED BY <1>8, <1>10, <3>1, <3>5
  <2>6. CASE Len(packets) = 1
    <3>1. /\ got' = Append(got, [reply |-> Unrle(Rle(Head(packets))), output |-> shown]) /\ shown' = <<>>
          /\ \/ next < Len(Requests) /\ hs' = "acked" /\ next' = next + 1
             \/ hs' = "done" /\ next' = next
      BY <2>3, <2>4, <2>6 DEF AwaitReply
    <3>2. Unrle(Rle(Head(packets))) = Due(next) /\ shown = Printed(next) /\ Due(next) \in Seq(Char)
      BY <1>3, <1>4, <1>7, <2>6, RightShown
    <3>3. shown \in Seq(Seq(Char))
      BY <1>7 DEF SentUpTo, Shows
    <3>4. /\ got' \in Seq(Reply) /\ Len(got') = next
          /\ \A i \in 1 .. Len(got') : got'[i].reply = Due(i) /\ got'[i].output = Printed(i)
      BY <1>4, <1>6, <3>1, <3>2, <3>3, RightAdded
    <3>5. GotRight'
      BY <3>4 DEF GotRight
    <3>6. CASE hs' = "acked" /\ next' = next + 1
      <4>1. next' - 1 = next /\ Len(ran') # next'
        BY <1>1, <1>3, <1>4, <3>6
      <4>2. ~ Answering' /\ ~ Over'
        BY <3>6, <4>1 DEF Answering, Over
      <4> QED BY <1>1, <1>6, <3>1, <3>4, <3>5, <4>1, <4>2 DEF Right
    <3>7. CASE hs' = "done" /\ next' = next
      <4>1. ~ Answering' /\ ~ Asking'
        BY <3>7 DEF Answering, Asking
      <4> QED BY <3>4, <3>5, <3>7, <4>1 DEF Right
    <3> QED BY <3>1, <3>6, <3>7
  <2> QED BY <2>5, <2>6
<1> QED BY <1>1, <1>2, <1>9, <1>10 DEF Answering

LEMMA RightHolds ==
  ASSUME Typed, errors = 0 => Exchange /\ Right, [Next]_vars
  PROVE  (errors = 0 => Exchange /\ Right)'
<1>1. Typed' /\ errors \in Nat
  BY TypedHolds DEF Typed
<1>2. (errors = 0 => Exchange)'
  BY ExchangeHolds
<1>3. SUFFICES ASSUME errors' = 0 PROVE Right'
  BY <1>2
<1>4. CASE GetChar
  <2>1. errors = 0
    BY <1>3, <1>4 DEF GetChar
  <2> QED BY <1>1, <1>4, <2>1, RightTaken, RightMore DEF Exchange
<1>5. CASE HostReads
  <2>1. errors = 0
    BY <1>3, <1>5 DEF HostReads
  <2> QED BY <1>1, <1>5, <2>1, RightHeard
<1>6. CASE Timeout
  <2>1. errors = 0 /\ toStub = <<>> /\ toHost = <<>> /\ Repeat
    BY <1>3, <1>6 DEF Timeout
  <2>2. Over
    BY <2>1, AskingGoes DEF Exchange, Answering
  <2> QED BY <2>1, <2>2 DEF Over, Repeat
<1>7. CASE LineError \/ EarlyTimeout
  <2>1. errors' = errors + 1
    BY <1>7 DEF LineError, EarlyTimeout, Fails
  <2> QED BY <1>1, <1>3, <2>1
<1>8. CASE UNCHANGED vars
  <2>1. UNCHANGED <<ts, buffer, count, checksum, high, packets, mem, sigval, ran, hs, next, got, shown, toStub, toHost, errors>>
    BY <1>8 DEF vars, stubVars, hostVars, input, target
  <2>2. Asking' = Asking /\ Answering' = Answering /\ Over' = Over
    BY <2>1 DEF Asking, AskingAt, Answering, Over
  <2>3. GotRight' = GotRight /\ \A p : SentUpTo(p)' = SentUpTo(p)
    BY <2>1 DEF GotRight, SentUpTo, Shows
  <2> QED BY <1>3, <2>1, <2>2, <2>3 DEF Right
<1> QED BY <1>4, <1>5, <1>6, <1>7, <1>8 DEF Next

LEMMA RightStarts ==
  ASSUME Init
  PROVE  Right
<1>1. /\ ts = "hunt" /\ hs = "acked" /\ next = 1 /\ got = <<>> /\ shown = <<>>
      /\ mem = [a \in 0 .. MEM - 1 |-> 0] /\ sigval = computeSignal("trap")
  BY DEF Init
<1>2. computeSignal("trap") = 5
  BY DEF computeSignal
<1>3. next - 1 = 0 /\ Len(got) = 0 /\ got \in Seq(Reply)
  BY <1>1
<1>4. GotRight
  BY <1>3 DEF GotRight
<1>5. ~ Answering /\ ~ Over
  BY <1>1 DEF Answering, Over
<1>6. mem = MemoryAfter[next - 1] /\ sigval = SignalAfter[next - 1]
  BY <1>1, <1>2, <1>3, MemoryAfterIs, SignalAfterIs
<1> QED BY <1>1, <1>3, <1>4, <1>5, <1>6 DEF Right

\* What RepliesMatch says of a line without errors.
RepliesExact ==
  errors = 0 => \A i \in 1 .. Len(got) : got[i].reply = Due(i) /\ got[i].output = Printed(i)

\* On a line without errors the host takes for the reply to each request what the target
\* owes it: what it reads of memory is what it has written there, whether in hexadecimal
\* or with escapes, and it shows all that a program prints, in order.  That goes through
\* getpacket, hexToInt, hex2mem and ebin2mem, mem2hex, putpacket's run-length encoding and
\* the host's decoding, for all requests, programs, buffers and memories.
THEOREM RepliesAreExact == Spec => []RepliesExact
<1>1. Init => Typed /\ (errors = 0 => Exchange /\ Right)
  BY TypedStarts, ExchangeStarts, RightStarts
<1>2. Typed /\ (errors = 0 => Exchange /\ Right) /\ [Next]_vars => Typed' /\ (errors = 0 => Exchange /\ Right)'
  BY TypedHolds, RightHolds
<1>3. (errors = 0 => Exchange /\ Right) => RepliesExact
  BY DEF Right, GotRight, RepliesExact
<1> QED BY <1>1, <1>2, <1>3, PTL DEF Spec
----------------------------------------------------------------------------
(* With one error the host still gets the reply to each request *)

\* In s, from the m-th character on, there is no $, or none that has a + before it.
Clean(s, m) == \A k \in m .. Len(s) : s[k] # Dollar
Quiet(s, m) == \A k \in m .. Len(s) : s[k] = Dollar => \A i \in m .. k - 1 : s[i] # Plus

\* A $ that the stub may take for the beginning of a packet: while it waits for a +, none
\* before one came.
Heard(t, s, k) == s[k] = Dollar /\ (t = "hunt" \/ \E i \in 1 .. k - 1 : s[i] = Plus)
Deaf(t, s) == \A k \in 1 .. Len(s) : ~ Heard(t, s, k)

\* Each begins the packet for the request j, and when that was taken no other is heard.
Ahead(t, s, j) ==
  \A k \in 1 .. Len(s) : Heard(t, s, k) => StartsAt(s, k, j) /\ Quiet(s, k + Len(PacketOf(j)))

\* When a packet is refused there is no $ behind it; until it is there may be one that begins
\* the packet for the request j.
Single(s, j) ==
  \A k \in 2 .. Len(s) :
    s[k] = Dollar => StartsAt(s, k, j) /\ Clean(s, k + 1) /\ \A i \in 1 .. k - 1 : s[i] # Hash

\* A character is taken off the line.
LEMMA LineTail ==
  ASSUME NEW s \in Seq(Char), s # <<>>, NEW m \in Nat \ {0}
  PROVE  /\ Clean(s, m + 1) => Clean(Tail(s), m)
         /\ Quiet(s, m + 1) => Quiet(Tail(s), m)
         /\ Clean(s, m) => Clean(s, m + 1) /\ Quiet(s, m)
<1> DEFINE r == Tail(s)
<1>1. Len(s) \in Nat \ {0} /\ Len(r) = Len(s) - 1 /\ \A k \in 1 .. Len(s) - 1 : r[k] = s[k + 1]
  BY HeadOff
<1> HIDE DEF r
<1>2. ASSUME Clean(s, m + 1) PROVE Clean(r, m)
  <2>1. ASSUME NEW k \in m .. Len(r) PROVE r[k] # Dollar
    <3>1. k \in 1 .. Len(s) - 1 /\ k + 1 \in m + 1 .. Len(s)
      BY <1>1
    <3> QED BY <1>1, <1>2, <3>1 DEF Clean
  <2> QED BY <2>1 DEF Clean
<1>3. ASSUME Quiet(s, m + 1) PROVE Quiet(r, m)
  <2>1. ASSUME NEW k \in m .. Len(r), r[k] = Dollar, NEW i \in m .. k - 1 PROVE r[i] # Plus
    <3>1. /\ k \in 1 .. Len(s) - 1 /\ k + 1 \in m + 1 .. Len(s)
          /\ i \in 1 .. Len(s) - 1 /\ i + 1 \in m + 1 .. (k + 1) - 1
      BY <1>1
    <3>2. s[k + 1] = Dollar /\ r[i] = s[i + 1]
      BY <1>1, <2>1, <3>1
    <3> QED BY <1>3, <3>1, <3>2 DEF Quiet
  <2> QED BY <2>1 DEF Quiet
<1>4. ASSUME Clean(s, m) PROVE Clean(s, m + 1) /\ Quiet(s, m)
  <2>1. \A k \in m + 1 .. Len(s) : k \in m .. Len(s)
    BY <1>1
  <2> QED BY <1>4, <2>1 DEF Clean, Quiet
<1> QED BY <1>2, <1>3, <1>4 DEF r

LEMMA StartsTail ==
  ASSUME NEW s \in Seq(Char), s # <<>>, NEW j \in 1 .. Len(Requests), NEW k \in 1 .. Len(Tail(s))
  PROVE  /\ k + 1 \in 2 .. Len(s) /\ Tail(s)[k] = s[k + 1]
         /\ StartsAt(s, k + 1, j) => StartsAt(Tail(s), k, j)
<1> DEFINE r == Tail(s)
           e == PacketOf(j)
<1>1. Len(s) \in Nat \ {0} /\ Len(r) = Len(s) - 1 /\ \A i \in 1 .. Len(s) - 1 : r[i] = s[i + 1]
  BY HeadOff
<1>2. Len(e) \in Nat
  BY PacketParts
<1> HIDE DEF r, e
<1>3. k \in 1 .. Len(s) - 1 /\ k + 1 \in 2 .. Len(s)
  BY <1>1 DEF r
<1>4. ASSUME (k + 1) + Len(e) - 1 <= Len(s), \A i \in 1 .. Len(e) : s[(k + 1) + i - 1] = e[i]
      PROVE  k + Len(e) - 1 <= Len(r) /\ \A i \in 1 .. Len(e) : r[k + i - 1] = e[i]
  <2>1. k + Len(e) - 1 <= Len(r)
    BY <1>1, <1>2, <1>3, <1>4
  <2>2. ASSUME NEW i \in 1 .. Len(e) PROVE r[k + i - 1] = e[i]
    <3>1. k + i - 1 \in 1 .. Len(s) - 1 /\ (k + i - 1) + 1 = (k + 1) + i - 1
      BY <1>1, <1>2, <1>3, <1>4
    <3>2. r[k + i - 1] = s[(k + 1) + i - 1]
      BY <1>1, <3>1
    <3> QED BY <1>4, <3>2
  <2> QED BY <2>1, <2>2
<1> QED BY <1>1, <1>3, <1>4 DEF StartsAt, r, e

LEMMA HeardTail ==
  ASSUME NEW s \in Seq(Char), s # <<>>, NEW j \in 1 .. Len(Requests), NEW t \in {"hunt", "ack"}, NEW u,
         u = t \/ s[1] = Plus
  PROVE  /\ Deaf(t, s) => Deaf(u, Tail(s))
         /\ Ahead(t, s, j) => Ahead(u, Tail(s), j)
<1> DEFINE r == Tail(s)
<1>1. Len(s) \in Nat \ {0} /\ r \in Seq(Char) /\ Len(r) = Len(s) - 1 /\ \A i \in 1 .. Len(s) - 1 : r[i] = s[i + 1]
  BY HeadOff
<1>2. ASSUME NEW k \in 1 .. Len(r), Heard(u, r, k) PROVE k + 1 \in 1 .. Len(s) /\ Heard(t, s, k + 1)
  <2>1. k + 1 \in 2 .. Len(s) /\ r[k] = s[k + 1]
    BY StartsTail
  <2> HIDE DEF r
  <2>2. s[k + 1] = Dollar /\ k + 1 \in 1 .. Len(s)
    BY <1>1, <1>2, <2>1 DEF Heard
  <2>3. CASE s[1] = Plus
    <3>1. 1 \in 1 .. (k + 1) - 1
      BY <1>1
    <3> QED BY <2>2, <2>3, <3>1 DEF Heard
  <2>4. CASE u = t
    <3>1. CASE t = "hunt"
      BY <2>2, <3>1 DEF Heard
    <3>2. CASE t # "hunt"
      <4>1. PICK i \in 1 .. k - 1 : r[i] = Plus
        BY <1>2, <2>4, <3>2 DEF Heard
      <4>2. i \in 1 .. Len(s) - 1 /\ i + 1 \in 1 .. (k + 1) - 1
        BY <1>1, <4>1
      <4>3. s[i + 1] = Plus
        BY <1>1, <4>1, <4>2
      <4> QED BY <2>2, <4>2, <4>3 DEF Heard
    <3> QED BY <3>1, <3>2
  <2> QED BY <2>3, <2>4
<1>3. ASSUME Ahead(t, s, j), NEW k \in 1 .. Len(r), Heard(u, r, k)
      PROVE  StartsAt(r, k, j) /\ Quiet(r, k + Len(PacketOf(j)))
  <2>1. StartsAt(s, k + 1, j) /\ Quiet(s, (k + 1) + Len(PacketOf(j)))
    BY <1>2, <1>3 DEF Ahead
  <2>2. k + Len(PacketOf(j)) \in Nat \ {0} /\ (k + 1) + Len(PacketOf(j)) = (k + Len(PacketOf(j))) + 1
    <3>1. Len(PacketOf(j)) \in Nat
      BY PacketParts
    <3> QED BY <1>1, <3>1
  <2>3. StartsAt(r, k, j)
    BY <2>1, StartsTail
  <2>4. Quiet(r, k + Len(PacketOf(j)))
    BY <2>1, <2>2, LineTail
  <2> QED BY <2>3, <2>4
<1> HIDE DEF r
<1>4. Deaf(t, s) => Deaf(u, r)
  BY <1>2 DEF Deaf
<1>5. Ahead(t, s, j) => Ahead(u, r, j)
  BY <1>3 DEF Ahead
<1> QED BY <1>4, <1>5 DEF r

\* Something is sent behind s.
LEMMA StartsCat ==
  ASSUME NEW s \in Seq(Char), NEW z \in Seq(Char), NEW j \in 1 .. Len(Requests)
  PROVE  /\ \A k \in 1 .. Len(s) : StartsAt(s, k, j) => StartsAt(s \o z, k, j)
         /\ \A k \in 1 .. Len(z) : StartsAt(z, k, j) => StartsAt(s \o z, Len(s) + k, j)
<1> DEFINE u == s \o z
           e == PacketOf(j)
<1>1. Joins(u, s, z, Char)
  BY Cat
<1>2. Len(e) \in Nat
  BY PacketParts
<1> HIDE DEF u, e
<1>3. /\ Len(s) \in Nat /\ Len(z) \in Nat /\ Len(u) = Len(s) + Len(z)
      /\ (\A i \in 1 .. Len(s) : u[i] = s[i]) /\ \A i \in 1 .. Len(z) : u[Len(s) + i] = z[i]
  BY <1>1 DEF Joins
<1>4. ASSUME NEW k \in 1 .. Len(s), k + Len(e) - 1 <= Len(s), \A i \in 1 .. Len(e) : s[k + i - 1] = e[i]
      PROVE  k + Len(e) - 1 <= Len(u) /\ \A i \in 1 .. Len(e) : u[k + i - 1] = e[i]
  <2>1. k + Len(e) - 1 <= Len(u) /\ \A i \in 1 .. Len(e) : k + i - 1 \in 1 .. Len(s)
    BY <1>2, <1>3, <1>4
  <2> QED BY <1>3, <1>4, <2>1
<1>5. ASSUME NEW k \in 1 .. Len(z), k + Len(e) - 1 <= Len(z), \A i \in 1 .. Len(e) : z[k + i - 1] = e[i]
      PROVE  (Len(s) + k) + Len(e) - 1 <= Len(u) /\ \A i \in 1 .. Len(e) : u[(Len(s) + k) + i - 1] = e[i]
  <2>1. (Len(s) + k) + Len(e) - 1 <= Len(u)
    BY <1>2, <1>3, <1>5
  <2>2. ASSUME NEW i \in 1 .. Len(e) PROVE u[(Len(s) + k) + i - 1] = e[i]
    <3>1. k + i - 1 \in 1 .. Len(z) /\ Len(s) + (k + i - 1) = (Len(s) + k) + i - 1
      BY <1>2, <1>3, <1>5
    <3>2. u[Len(s) + (k + i - 1)] = z[k + i - 1]
      BY <1>3, <3>1
    <3> QED BY <1>5, <3>1, <3>2
  <2> QED BY <2>1, <2>2
<1> QED BY <1>4, <1>5 DEF StartsAt, u, e

\* What is no $: a sign.
LEMMA HeardCat ==
  ASSUME NEW s \in Seq(Char), NEW z \in Seq(Char), Clean(z, 1), NEW j \in 1 .. Len(Requests), NEW t
  PROVE  /\ \A m \in Nat \ {0} : (Clean(s, m) => Clean(s \o z, m)) /\ (Quiet(s, m) => Quiet(s \o z, m))
         /\ Deaf(t, s) => Deaf(t, s \o z)
         /\ Ahead(t, s, j) => Ahead(t, s \o z, j)
         /\ Single(s, j) => Single(s \o z, j)
<1> DEFINE u == s \o z
<1>1. Joins(u, s, z, Char)
  BY Cat
<1> HIDE DEF u
<1>2. /\ Len(s) \in Nat /\ Len(z) \in Nat /\ Len(u) = Len(s) + Len(z)
      /\ (\A i \in 1 .. Len(s) : u[i] = s[i]) /\ \A i \in 1 .. Len(z) : u[Len(s) + i] = z[i]
  BY <1>1 DEF Joins
<1>3. ASSUME NEW k \in 1 .. Len(u), u[k] = Dollar
      PROVE  k \in 1 .. Len(s) /\ s[k] = Dollar /\ \A i \in 1 .. k : i \in 1 .. Len(s) /\ u[i] = s[i]
  <2>1. CASE k > Len(s)
    <3>1. k - Len(s) \in 1 .. Len(z) /\ Len(s) + (k - Len(s)) = k
      BY <1>2, <2>1
    <3>2. z[k - Len(s)] = Dollar
      BY <1>2, <1>3, <3>1
    <3> QED BY <3>1, <3>2 DEF Clean
  <2>2. CASE k \in 1 .. Len(s)
    <3>1. \A i \in 1 .. k : i \in 1 .. Len(s)
      BY <1>2, <2>2
    <3> QED BY <1>2, <1>3, <2>2, <3>1
  <2> QED BY <1>2, <2>1, <2>2
<1>4. ASSUME NEW m \in Nat \ {0}, Clean(s, m) PROVE Clean(u, m)
  <2>1. ASSUME NEW k \in m .. Len(u), u[k] = Dollar PROVE FALSE
    <3>1. k \in 1 .. Len(u)
      BY <1>2
    <3>2. k \in m .. Len(s) /\ s[k] = Dollar
      BY <1>2, <1>3, <2>1, <3>1
    <3> QED BY <1>4, <3>2 DEF Clean
  <2> QED BY <2>1 DEF Clean
<1>5. ASSUME NEW m \in Nat \ {0}, Quiet(s, m) PROVE Quiet(u, m)
  <2>1. ASSUME NEW k \in m .. Len(u), u[k] = Dollar, NEW i \in m .. k - 1 PROVE u[i] # Plus
    <3>1. k \in 1 .. Len(u) /\ i \in 1 .. k
      BY <1>2
    <3>2. k \in m .. Len(s) /\ s[k] = Dollar /\ u[i] = s[i]
      BY <1>2, <1>3, <2>1, <3>1
    <3> QED BY <1>5, <3>2 DEF Quiet
  <2> QED BY <2>1 DEF Quiet
<1>6. ASSUME NEW k \in 1 .. Len(u), Heard(t, u, k) PROVE k \in 1 .. Len(s) /\ Heard(t, s, k)
  <2>1. u[k] = Dollar
    BY <1>6 DEF Heard
  <2>2. k \in 1 .. Len(s) /\ s[k] = Dollar /\ \A i \in 1 .. k : u[i] = s[i]
    BY <1>3, <2>1
  <2>3. \A i \in 1 .. k - 1 : i \in 1 .. k
    BY <1>2
  <2> QED BY <1>6, <2>2, <2>3 DEF Heard
<1>7. ASSUME Ahead(t, s, j), NEW k \in 1 .. Len(u), Heard(t, u, k)
      PROVE  StartsAt(u, k, j) /\ Quiet(u, k + Len(PacketOf(j)))
  <2>1. k \in 1 .. Len(s) /\ StartsAt(s, k, j) /\ Quiet(s, k + Len(PacketOf(j)))
    BY <1>6, <1>7 DEF Ahead
  <2>2. k + Len(PacketOf(j)) \in Nat \ {0}
    <3>1. Len(PacketOf(j)) \in Nat
      BY PacketParts
    <3> QED BY <1>2, <3>1
  <2>3. StartsAt(u, k, j)
    BY <2>1, StartsCat DEF u
  <2> QED BY <1>5, <2>1, <2>2, <2>3
<1>8. ASSUME Single(s, j), NEW k \in 2 .. Len(u), u[k] = Dollar
      PROVE  StartsAt(u, k, j) /\ Clean(u, k + 1) /\ \A i \in 1 .. k - 1 : u[i] # Hash
  <2>1. k \in 1 .. Len(u)
    BY <1>2
  <2>2. k \in 2 .. Len(s) /\ k \in 1 .. Len(s) /\ s[k] = Dollar /\ \A i \in 1 .. k : u[i] = s[i]
    BY <1>2, <1>3, <1>8, <2>1
  <2>3. StartsAt(s, k, j) /\ Clean(s, k + 1) /\ \A i \in 1 .. k - 1 : s[i] # Hash
    BY <1>8, <2>2 DEF Single
  <2>4. StartsAt(u, k, j)
    BY <2>2, <2>3, StartsCat DEF u
  <2>5. k + 1 \in Nat \ {0} /\ \A i \in 1 .. k - 1 : i \in 1 .. k
    BY <1>2
  <2> QED BY <1>4, <2>2, <2>3, <2>4, <2>5
<1>9. Deaf(t, s) => Deaf(t, u)
  BY <1>6 DEF Deaf
<1>10. Ahead(t, s, j) => Ahead(t, u, j)
  BY <1>7 DEF Ahead
<1>11. Single(s, j) => Single(u, j)
  BY <1>8 DEF Single
<1> QED BY <1>4, <1>5, <1>9, <1>10, <1>11 DEF u

\* s ends with the packet for the request j, which begins at its d-th character, and has no other $.
Ends(s, d, j) ==
  /\ d \in 1 .. Len(s) /\ Len(s) = d + Len(PacketOf(j)) - 1 /\ StartsAt(s, d, j)
  /\ \A k \in 1 .. Len(s) : k # d => s[k] # Dollar

LEMMA EndsPacket ==
  ASSUME NEW j \in 1 .. Len(Requests)
  PROVE  /\ PacketOf(j) \in Seq(Char) /\ Ends(PacketOf(j), 1, j) /\ Clean(PacketOf(j), 2)
         /\ \A c \in Char \ {Dollar} : <<c>> \o PacketOf(j) \in Seq(Char) /\ Ends(<<c>> \o PacketOf(j), 2, j)
<1> DEFINE e == PacketOf(j)
<1>1. e \in Seq(Char) /\ e # <<>> /\ Len(e) \in Nat \ {0}
  <2>1. e \in Seq(Char) /\ Len(e) \in Nat /\ Len(e) # 0
    BY PacketParts
  <2> QED BY <2>1
<1>2. \A k \in 2 .. Len(e) : e[k] # Dollar
  BY PacketPlain
<1>3. StartsAt(e, 1, j)
  <2> HIDE DEF e
  <2>1. 1 + Len(e) - 1 <= Len(e) /\ \A i \in 1 .. Len(e) : 1 + i - 1 = i
    BY <1>1
  <2> QED BY <2>1 DEF StartsAt, e
<1> HIDE DEF e
<1>4. \A k \in 1 .. Len(e) : k # 1 => e[k] # Dollar
  BY <1>1, <1>2
<1>5. Ends(e, 1, j)
  <2>1. 1 \in 1 .. Len(e) /\ Len(e) = 1 + Len(e) - 1
    BY <1>1
  <2> QED BY <1>3, <1>4, <2>1 DEF Ends, e
<1>6. ASSUME NEW c \in Char, c # Dollar PROVE <<c>> \o e \in Seq(Char) /\ Ends(<<c>> \o e, 2, j)
  <2> DEFINE v == <<c>>
             u == v \o e
  <2>1. v \in Seq(Char) /\ Len(v) = 1 /\ v[1] = c
    OBVIOUS
  <2> HIDE DEF v
  <2>2. Joins(u, v, e, Char)
    BY <1>1, <2>1, Cat
  <2>3. StartsAt(u, Len(v) + 1, j)
    <3>1. 1 \in 1 .. Len(e)
      BY <1>1
    <3> QED BY <1>1, <1>3, <2>1, <3>1, StartsCat
  <2> HIDE DEF u
  <2>4. u \in Seq(Char) /\ Len(u) = 1 + Len(e) /\ u[1] = c /\ \A i \in 1 .. Len(e) : u[1 + i] = e[i]
    <3>1. 1 \in 1 .. Len(v)
      BY <2>1
    <3> QED BY <2>1, <2>2, <3>1 DEF Joins
  <2>5. ASSUME NEW k \in 1 .. Len(u), k # 2 PROVE u[k] # Dollar
    <3>1. CASE k = 1
      BY <1>6, <2>4, <3>1
    <3>2. CASE k # 1
      <4>1. k - 1 \in 2 .. Len(e) /\ 1 + (k - 1) = k /\ k - 1 \in 1 .. Len(e)
        BY <1>1, <2>4, <2>5, <3>2
      <4> QED BY <1>2, <2>4, <4>1
    <3> QED BY <3>1, <3>2
  <2>6. 2 \in 1 .. Len(u) /\ Len(u) = 2 + Len(e) - 1 /\ Len(v) + 1 = 2
    BY <1>1, <2>1, <2>4
  <2> QED BY <2>3, <2>4, <2>5, <2>6 DEF Ends, e, u, v
<1> QED BY <1>1, <1>2, <1>5, <1>6 DEF Clean, e

\* A packet is sent, and there is none on the line that is heard, or just this one.
LEMMA EndsCat ==
  ASSUME NEW s \in Seq(Char), NEW z \in Seq(Char), NEW j \in 1 .. Len(Requests), NEW d, Ends(z, d, j), NEW t
  PROVE  /\ Deaf(t, s) => Ahead(t, s \o z, j)
         /\ d = 1 => Quiet(s \o z, Len(s) + 1)
         /\ \A c : d = 1 /\ Ends(s, c, j) => Ahead(t, s \o z, j)
<1> DEFINE u == s \o z
           l == Len(PacketOf(j))
<1>1. Joins(u, s, z, Char)
  BY Cat
<1>2. l \in Nat \ {0}
  <2>1. l \in Nat /\ l # 0
    BY PacketParts
  <2> QED BY <2>1
<1>3. StartsAt(u, Len(s) + d, j)
  BY StartsCat DEF Ends
<1> HIDE DEF u
<1>4. /\ Len(s) \in Nat /\ Len(z) \in Nat /\ Len(u) = Len(s) + Len(z)
      /\ (\A i \in 1 .. Len(s) : u[i] = s[i]) /\ \A i \in 1 .. Len(z) : u[Len(s) + i] = z[i]
  BY <1>1 DEF Joins
<1>5. d \in 1 .. Len(z) /\ Len(z) = d + l - 1 /\ \A k \in 1 .. Len(z) : k # d => z[k] # Dollar
  BY DEF Ends
<1> HIDE DEF l
<1>6. ASSUME NEW k \in Len(s) + 1 .. Len(u), u[k] = Dollar PROVE k = Len(s) + d
  <2>1. k - Len(s) \in 1 .. Len(z) /\ Len(s) + (k - Len(s)) = k
    BY <1>4
  <2>2. z[k - Len(s)] = Dollar
    BY <1>4, <1>6, <2>1
  <2>3. k - Len(s) = d
    BY <1>5, <2>1, <2>2
  <2> QED BY <2>1, <2>3
<1>7. Quiet(u, (Len(s) + d) + l)
  <2>1. \A k \in (Len(s) + d) + l .. Len(u) : FALSE
    BY <1>2, <1>4, <1>5
  <2> QED BY <2>1 DEF Quiet
<1>8. ASSUME d = 1 PROVE Quiet(u, Len(s) + 1)
  <2>1. ASSUME NEW k \in Len(s) + 1 .. Len(u), u[k] = Dollar, NEW i \in Len(s) + 1 .. k - 1 PROVE u[i] # Plus
    <3>1. k = Len(s) + 1
      BY <1>6, <1>8, <2>1
    <3> QED BY <1>4, <3>1
  <2> QED BY <2>1 DEF Quiet
<1>9. ASSUME Deaf(t, s), NEW k \in 1 .. Len(u), Heard(t, u, k) PROVE StartsAt(u, k, j) /\ Quiet(u, k + l)
  <2>1. CASE k <= Len(s)
    <3>1. k \in 1 .. Len(s) /\ \A i \in 1 .. k : i \in 1 .. Len(s)
      BY <1>4, <2>1
    <3>2. \A i \in 1 .. k - 1 : i \in 1 .. k
      BY <1>4
    <3>3. Heard(t, s, k)
      BY <1>4, <1>9, <3>1, <3>2 DEF Heard
    <3> QED BY <1>9, <3>1, <3>3 DEF Deaf
  <2>2. CASE ~ (k <= Len(s))
    <3>1. k \in Len(s) + 1 .. Len(u) /\ u[k] = Dollar
      BY <1>4, <1>9, <2>2 DEF Heard
    <3>2. k = Len(s) + d
      BY <1>6, <3>1
    <3> QED BY <1>3, <1>7, <3>2
  <2> QED BY <2>1, <2>2
<1>10. ASSUME NEW c, d = 1, Ends(s, c, j), NEW k \in 1 .. Len(u), Heard(t, u, k)
       PROVE  StartsAt(u, k, j) /\ Quiet(u, k + l)
  <2>1. u[k] = Dollar
    BY <1>10 DEF Heard
  <2>2. CASE k <= Len(s)
    <3>1. k \in 1 .. Len(s) /\ s[k] = Dollar
      BY <1>4, <2>1, <2>2
    <3>2. k = c /\ Len(s) = c + l - 1 /\ StartsAt(s, c, j)
      BY <1>10, <3>1 DEF Ends, l
    <3>3. StartsAt(u, k, j)
      BY <3>1, <3>2, StartsCat DEF u
    <3>4. k + l = Len(s) + 1
      BY <1>2, <1>4, <3>1, <3>2
    <3> QED BY <1>8, <1>10, <3>3, <3>4
  <2>3. CASE ~ (k <= Len(s))
    <3>1. k \in Len(s) + 1 .. Len(u)
      BY <1>4, <2>3
    <3>2. k = Len(s) + d
      BY <1>6, <2>1, <3>1
    <3> QED BY <1>3, <1>7, <3>2
  <2> QED BY <2>2, <2>3
<1>11. Deaf(t, s) => Ahead(t, u, j)
  BY <1>9 DEF Ahead, l
<1>12. ASSUME NEW c, d = 1, Ends(s, c, j) PROVE Ahead(t, u, j)
  BY <1>10, <1>12 DEF Ahead, l
<1> QED BY <1>8, <1>11, <1>12 DEF u

\* What is left of a packet.
LEMMA FromClean ==
  ASSUME NEW j \in 1 .. Len(Requests), NEW s \in Seq(Char), NEW i, From(s, j, i)
  PROVE  /\ i # 1 => Clean(s, 1) /\ Single(s, j)
         /\ i = 1 => Ends(s, 1, j)
<1> DEFINE e == PacketOf(j)
<1>1. Len(e) \in Nat /\ \A k \in 2 .. Len(e) : e[k] # Dollar
  BY PacketParts, PacketPlain
<1>2. i \in 1 .. Len(e) /\ Len(s) = Len(e) - i + 1 /\ \A k \in 1 .. Len(s) : s[k] = e[i + k - 1]
  BY DEF From
<1> HIDE DEF e
<1>3. ASSUME NEW k \in 1 .. Len(s), i # 1 \/ k # 1 PROVE s[k] # Dollar
  <2>1. i + k - 1 \in 2 .. Len(e)
    BY <1>1, <1>2, <1>3
  <2> QED BY <1>1, <1>2, <2>1
<1>4. ASSUME i # 1 PROVE Clean(s, 1) /\ Single(s, j)
  <2>1. \A k \in 2 .. Len(s) : k \in 1 .. Len(s)
    BY <1>1, <1>2
  <2> QED BY <1>3, <1>4, <2>1 DEF Clean, Single
<1>5. ASSUME i = 1 PROVE Ends(s, 1, j)
  <2>1. /\ 1 \in 1 .. Len(s) /\ Len(s) = 1 + Len(e) - 1 /\ 1 + Len(e) - 1 <= Len(s)
        /\ \A k \in 1 .. Len(e) : k \in 1 .. Len(s) /\ 1 + k - 1 = k /\ i + k - 1 = k
    BY <1>1, <1>2, <1>5
  <2>2. \A k \in 1 .. Len(e) : s[1 + k - 1] = e[k]
    BY <1>2, <2>1
  <2> QED BY <1>3, <2>1, <2>2 DEF Ends, StartsAt, e
<1> QED BY <1>4, <1>5

LEMMA MergingClean ==
  ASSUME NEW j \in 1 .. Len(Requests), NEW z \in LostHash, NEW s \in Seq(Char), NEW n, NEW x, MergingAt(s, n, x, j, z)
  PROVE  Clean(s, 2)
<1> DEFINE l == Len(TextOf(j))
           m == Merged(TextOf(j), z)
           e == PacketOf(j)
           v == Len(z)
<1>1. m[l + v + 1] = e[l + 3] /\ m[l + v + 2] = e[l + 4]
  BY LostHashIs, MergedIs
<1>2. l \in Nat /\ e[l + 3] \in HexChar /\ e[l + 4] \in HexChar
  BY PacketParts
<1>3. v \in 0 .. 1
  BY LostHashIs
<1>4. n \in l .. l + v + 2 /\ Len(s) = l + v + 2 - n /\ \A k \in 1 .. l + v + 2 - n : s[k] = m[n + k]
  BY DEF MergingAt
<1> HIDE DEF l, m, e, v
<1>5. ASSUME NEW k \in 2 .. Len(s) PROVE s[k] # Dollar
  <2>1. k \in 1 .. l + v + 2 - n /\ (n + k = l + v + 1 \/ n + k = l + v + 2)
    BY <1>2, <1>3, <1>4
  <2>2. s[k] \in HexChar
    BY <1>1, <1>2, <1>4, <2>1
  <2> QED BY <2>2, SMTT(30) DEF HexChar, Dollar
<1> QED BY <1>5 DEF Clean

\* What is on the way to the host.
None(h, x) == \A i \in 1 .. Len(h) : h[i].kind # x
AtMostOne(h, x) == \A i, k \in 1 .. Len(h) : h[i].kind = x /\ h[k].kind = x => i = k

\* Packets that answer the request j: all of them, or those behind an acknowledgement.
Answer(m, j) == m.kind = "good" => \E k \in 1 .. Len(Expected(j)) : m.of = Rle(Expected(j)[k])
AllAnswer(h, j) == \A i \in 1 .. Len(h) : Answer(h[i], j)
ThenAnswer(h, j) == \A i, k \in 1 .. Len(h) : k < i /\ h[k].kind = "ack" => Answer(h[i], j)
Owed(q, j) == \A i \in 1 .. Len(q) : \E k \in 1 .. Len(Expected(j)) : q[i] = Expected(j)[k]

LEMMA HearsOne ==
  ASSUME NEW h \in Seq(Message), h # <<>>, NEW x, NEW j
  PROVE  /\ None(h, x) => None(Tail(h), x) /\ Head(h).kind # x
         /\ AtMostOne(h, x) => AtMostOne(Tail(h), x) /\ (Head(h).kind = x => None(Tail(h), x))
         /\ AllAnswer(h, j) => AllAnswer(Tail(h), j) /\ Answer(Head(h), j)
         /\ ThenAnswer(h, j) => ThenAnswer(Tail(h), j) /\ (Head(h).kind = "ack" => AllAnswer(Tail(h), j))
<1> DEFINE r == Tail(h)
           m == Head(h)
<1>1. m = h[1] /\ Len(h) \in Nat \ {0} /\ Len(r) = Len(h) - 1 /\ \A k \in 1 .. Len(h) - 1 : r[k] = h[k + 1]
  BY HeadOff
<1> HIDE DEF r, m
<1>2. 1 \in 1 .. Len(h)
  BY <1>1
<1>3. \A k \in 1 .. Len(r) : k + 1 \in 1 .. Len(h) /\ r[k] = h[k + 1] /\ 1 < k + 1
  BY <1>1
<1>4. \A k \in 1 .. Len(r) : k + 1 # 1
  BY <1>1
<1>5. \A i, k \in 1 .. Len(r) : (i + 1 = k + 1 => i = k) /\ (k < i => k + 1 < i + 1)
  BY <1>1
<1>6. ASSUME None(h, x) PROVE None(r, x) /\ m.kind # x
  BY <1>1, <1>2, <1>3, <1>6 DEF None
<1>7. ASSUME AtMostOne(h, x) PROVE AtMostOne(r, x) /\ (m.kind = x => None(r, x))
  <2>1. ASSUME NEW i \in 1 .. Len(r), NEW k \in 1 .. Len(r), r[i].kind = x, r[k].kind = x PROVE i = k
    <3>1. h[i + 1].kind = x /\ h[k + 1].kind = x /\ i + 1 \in 1 .. Len(h) /\ k + 1 \in 1 .. Len(h)
      BY <1>3, <2>1
    <3>2. i + 1 = k + 1
      BY <1>7, <3>1 DEF AtMostOne
    <3> QED BY <1>5, <3>2
  <2>2. ASSUME m.kind = x, NEW i \in 1 .. Len(r), r[i].kind = x PROVE FALSE
    <3>1. h[i + 1].kind = x /\ h[1].kind = x /\ i + 1 \in 1 .. Len(h)
      BY <1>1, <1>3, <2>2
    <3>2. i + 1 = 1
      BY <1>2, <1>7, <3>1 DEF AtMostOne
    <3> QED BY <1>4, <3>2
  <2> QED BY <2>1, <2>2 DEF AtMostOne, None
<1>8. ASSUME AllAnswer(h, j) PROVE AllAnswer(r, j) /\ Answer(m, j)
  BY <1>1, <1>2, <1>3, <1>8 DEF AllAnswer
<1>9. ASSUME ThenAnswer(h, j) PROVE ThenAnswer(r, j) /\ (m.kind = "ack" => AllAnswer(r, j))
  <2>1. ASSUME NEW i \in 1 .. Len(r), NEW k \in 1 .. Len(r), k < i, r[k].kind = "ack" PROVE Answer(r[i], j)
    <3>1. /\ h[k + 1].kind = "ack" /\ r[i] = h[i + 1] /\ k + 1 < i + 1
          /\ i + 1 \in 1 .. Len(h) /\ k + 1 \in 1 .. Len(h)
      BY <1>3, <1>5, <2>1
    <3> QED BY <1>9, <3>1 DEF ThenAnswer
  <2>2. ASSUME m.kind = "ack", NEW i \in 1 .. Len(r) PROVE Answer(r[i], j)
    <3>1. h[1].kind = "ack" /\ r[i] = h[i + 1] /\ 1 < i + 1 /\ i + 1 \in 1 .. Len(h)
      BY <1>1, <1>3, <2>2
    <3> QED BY <1>2, <1>9, <3>1 DEF ThenAnswer
  <2> QED BY <2>1, <2>2 DEF ThenAnswer, AllAnswer
<1> QED BY <1>6, <1>7, <1>8, <1>9 DEF r, m

LEMMA SaysMore ==
  ASSUME NEW h \in Seq(Message), NEW z \in Seq(Message), NEW x, NEW j
  PROVE  /\ None(h, x) /\ None(z, x) => None(h \o z, x)
         /\ None(h, x) /\ AtMostOne(z, x) => AtMostOne(h \o z, x)
         /\ AtMostOne(h, x) /\ None(z, x) => AtMostOne(h \o z, x)
         /\ AllAnswer(h, j) /\ AllAnswer(z, j) => AllAnswer(h \o z, j)
         /\ ThenAnswer(h, j) /\ AllAnswer(z, j) => ThenAnswer(h \o z, j)
<1> DEFINE u == h \o z
           l == Len(h)
<1>1. Joins(u, h, z, Message)
  BY Cat
<1> HIDE DEF u
<1>2. /\ l \in Nat /\ Len(z) \in Nat /\ Len(u) = l + Len(z)
      /\ (\A i \in 1 .. l : u[i] = h[i]) /\ \A i \in 1 .. Len(z) : u[l + i] = z[i]
  BY <1>1 DEF Joins
<1>3. \A i \in 1 .. Len(u) : \/ i \in 1 .. l /\ u[i] = h[i]
                             \/ \E k \in 1 .. Len(z) : i = l + k /\ u[i] = z[k]
  <2>1. ASSUME NEW i \in 1 .. Len(u), i \notin 1 .. l PROVE \E k \in 1 .. Len(z) : i = l + k /\ u[i] = z[k]
    <3>1. i - l \in 1 .. Len(z) /\ l + (i - l) = i
      BY <1>2, <2>1
    <3> QED BY <1>2, <3>1
  <2> QED BY <1>2, <2>1
<1> HIDE DEF l
<1>4. ASSUME None(h, x), None(z, x) PROVE None(u, x)
  BY <1>3, <1>4 DEF None, l
<1>5. ASSUME None(h, x), AtMostOne(z, x), NEW i \in 1 .. Len(u), NEW k \in 1 .. Len(u), u[i].kind = x, u[k].kind = x
      PROVE  i = k
  <2>1. PICK a \in 1 .. Len(z) : i = l + a /\ u[i] = z[a]
    BY <1>3, <1>5 DEF None, l
  <2>2. PICK b \in 1 .. Len(z) : k = l + b /\ u[k] = z[b]
    BY <1>3, <1>5 DEF None, l
  <2>3. a = b
    BY <1>5, <2>1, <2>2 DEF AtMostOne
  <2> QED BY <2>1, <2>2, <2>3
<1>6. ASSUME AtMostOne(h, x), None(z, x), NEW i \in 1 .. Len(u), NEW k \in 1 .. Len(u), u[i].kind = x, u[k].kind = x
      PROVE  i = k
  <2>1. i \in 1 .. l /\ h[i].kind = x
    BY <1>3, <1>6 DEF None
  <2>2. k \in 1 .. l /\ h[k].kind = x
    BY <1>3, <1>6 DEF None
  <2> QED BY <1>6, <2>1, <2>2 DEF AtMostOne, l
<1>7. ASSUME AllAnswer(h, j), AllAnswer(z, j) PROVE AllAnswer(u, j)
  BY <1>3, <1>7 DEF AllAnswer, l
<1>8. ASSUME ThenAnswer(h, j), AllAnswer(z, j), NEW i \in 1 .. Len(u), NEW k \in 1 .. Len(u), k < i, u[k].kind = "ack"
      PROVE  Answer(u[i], j)
  <2>1. CASE i \in 1 .. l
    <3>1. k \in 1 .. l /\ u[i] = h[i] /\ u[k] = h[k]
      BY <1>2, <1>8, <2>1
    <3> QED BY <1>8, <2>1, <3>1 DEF ThenAnswer, l
  <2>2. CASE i \notin 1 .. l
    <3>1. PICK a \in 1 .. Len(z) : u[i] = z[a]
      BY <1>3, <2>2
    <3> QED BY <1>8, <3>1 DEF AllAnswer
  <2> QED BY <2>1, <2>2
<1> QED BY <1>4, <1>5, <1>6, <1>7, <1>8 DEF AtMostOne, ThenAnswer, u

LEMMA Saying ==
  ASSUME NEW j \in 1 .. Len(Requests)
  PROVE  /\ <<Nak>> \in Seq(Message) /\ None(<<Nak>>, "ack") /\ AtMostOne(<<Nak>>, "nak") /\ AllAnswer(<<Nak>>, j)
         /\ \A p \in Seq(Char) :
              LET m == <<Sent(p)>>
                  a == <<Ack>> \o <<Sent(p)>>
              IN /\ m \in Seq(Message) /\ None(m, "ack") /\ None(m, "nak")
                 /\ a \in Seq(Message) /\ None(a, "nak") /\ AtMostOne(a, "ack")
                 /\ (\E k \in 1 .. Len(Expected(j)) : p = Expected(j)[k]) => AllAnswer(m, j) /\ AllAnswer(a, j)
<1>1. Ack \in Message /\ Nak \in Message /\ Ack.kind = "ack" /\ Nak.kind = "nak"
  BY MessagesTyped DEF Ack, Nak
<1>2. ASSUME NEW m \in Message
      PROVE  /\ <<m>> \in Seq(Message) /\ Len(<<m>>) = 1 /\ AtMostOne(<<m>>, m.kind)
             /\ \A x : m.kind # x => None(<<m>>, x)
             /\ Answer(m, j) => AllAnswer(<<m>>, j)
  <2> DEFINE q == <<m>>
  <2>1. q \in Seq(Message) /\ Len(q) = 1 /\ q[1] = m
    OBVIOUS
  <2> HIDE DEF q
  <2>2. \A i \in 1 .. Len(q) : i = 1
    BY <2>1
  <2> QED BY <2>1, <2>2 DEF AtMostOne, None, AllAnswer, q
<1>3. Answer(Ack, j) /\ Answer(Nak, j)
  BY <1>1 DEF Answer
<1>4. ASSUME NEW p \in Seq(Char)
      PROVE  LET m == <<Sent(p)>>
                 a == <<Ack>> \o <<Sent(p)>>
             IN /\ m \in Seq(Message) /\ None(m, "ack") /\ None(m, "nak")
                /\ a \in Seq(Message) /\ None(a, "nak") /\ AtMostOne(a, "ack")
                /\ (\E k \in 1 .. Len(Expected(j)) : p = Expected(j)[k]) => AllAnswer(m, j) /\ AllAnswer(a, j)
  <2> DEFINE b == <<Ack>>
             m == <<Sent(p)>>
             a == b \o m
  <2>1. Sent(p) \in Message /\ Sent(p).kind = "good" /\ Sent(p).of = Rle(p)
    BY MessagesTyped
  <2>2. m \in Seq(Message) /\ None(m, "ack") /\ None(m, "nak") /\ (Answer(Sent(p), j) => AllAnswer(m, j))
    BY <1>2, <2>1
  <2>3. b \in Seq(Message) /\ AtMostOne(b, "ack") /\ None(b, "nak") /\ AllAnswer(b, j)
    BY <1>1, <1>2, <1>3
  <2>4. a \in Seq(Message)
    BY <2>2, <2>3, ConcatProperties
  <2>5. (\E k \in 1 .. Len(Expected(j)) : p = Expected(j)[k]) => Answer(Sent(p), j)
    BY <2>1 DEF Answer
  <2> HIDE DEF b, m
  <2>6. None(a, "nak") /\ AtMostOne(a, "ack") /\ (AllAnswer(m, j) => AllAnswer(a, j))
    BY <2>2, <2>3, SaysMore
  <2> QED BY <2>2, <2>4, <2>5, <2>6 DEF b, m
<1> QED BY <1>1, <1>2, <1>3, <1>4

\* What is being read is the packet that is coming, or is going to be refused.
Reading(s, j, n, x, b) ==
  \/ Collected(j, n, x, b) /\ Begins(s, j, n + 2) /\ Quiet(s, Len(PacketOf(j)) - n)
  \/ Doomed(s, n, x) /\ Single(s, j)
Checking(s, j, n, x, b) ==
  \/ HasText(j, n, x, b) /\ Begins(s, j, n + 3) /\ Quiet(s, 3)
  \/ (HasText(j, n, x, b) \/ (2 <= Len(s) /\ Digits(s[1], s[2]) # x)) /\ Clean(s, 2)
Deciding(s, j, n, x, b, h) ==
  \/ HasText(j, n, x, b) /\ Begins(s, j, n + 4) /\ h = Hex(PacketOf(j)[n + 3]) /\ Quiet(s, 2)
  \/ (HasText(j, n, x, b) \/ (1 <= Len(s) /\ (16 * h + Hex(s[1])) % 256 # x)) /\ Clean(s, 2)
Coming ==
  \/ ts \in {"hunt", "ack"} /\ Ahead(ts, toStub, next)
  \/ ts = "data" /\ (Reading(toStub, next, count, checksum, buffer) \/ Merging)
  \/ ts = "sum1" /\ Checking(toStub, next, count, checksum, buffer)
  \/ ts = "sum2" /\ Deciding(toStub, next, count, checksum, buffer, high)

Done(i) == mem = MemoryAfter[i] /\ sigval = SignalAfter[i]

\* The command was taken, which the host knows or is going to hear of, and what it takes for
\* the answer then is one.
Settled ==
  /\ ts \in {"hunt", "ack"} /\ Deaf(ts, toStub) /\ None(toHost, "nak")
  /\ Done(next) /\ (ts = "ack" => Owed(packets, next))
  /\ \/ hs = "reply" /\ None(toHost, "ack") /\ AllAnswer(toHost, next)
     \/ hs = "acked" /\ AtMostOne(toHost, "ack") /\ ThenAnswer(toHost, next)

\* Or the host is not going to hear of it, even if it was carried out: the command is coming
\* again, or it was refused, or nothing comes.
Awaited ==
  /\ hs = "acked" /\ None(toHost, "ack")
  /\ Done(next - 1) \/ (Done(next) /\ (ts = "ack" => Owed(packets, next)))
  /\ \/ ts = "hunt" /\ Clean(toStub, 1) /\ AtMostOne(toHost, "nak")
     \/ None(toHost, "nak") /\ Coming

Among(q, i) == \A k \in 1 .. Len(q) : \E p \in 1 .. Len(Printed(i)) : q[k] = Printed(i)[p]
GotWell == got \in Seq(Reply) /\ \A i \in 1 .. Len(got) : got[i].reply = Due(i) /\ Among(got[i].output, i)

Steady ==
  /\ GotWell
  /\ hs # "done" =>
       Len(got) = next - 1 /\ shown \in Seq(Seq(Char)) /\ Among(shown, next) /\ (Settled \/ Awaited)

\* A character comes for the stub that waits for a packet.
LEMMA SteadyHunt ==
  ASSUME Typed, Typed', GetChar, ts = "hunt", Settled \/ Awaited
  PROVE  (Settled \/ Awaited)'
<1> DEFINE c == Head(toStub)
           r == Tail(toStub)
<1>1. next \in 1 .. Len(Requests) /\ toStub \in Seq(Char) /\ buffer \in Buffer
  BY DEF Typed
<1>2. toStub # <<>> /\ toStub' = r /\ UNCHANGED <<hs, next>>
  BY DEF GetChar, hostVars
<1>3. c = toStub[1] /\ Len(toStub) \in Nat \ {0} /\ r \in Seq(Char)
  BY <1>1, <1>2, HeadOff
<1>4. Hunt(c)
  BY DEF GetChar, Data, Sum1, Sum2, Resend
<1>5. UNCHANGED <<buffer, mem, sigval, toHost>> /\ ts' = IF c = Dollar THEN "data" ELSE "hunt"
  BY <1>4 DEF Hunt, target
<1>6. 1 \in 1 .. Len(toStub)
  BY <1>3
<1> HIDE DEF r
<1>7. CASE Settled
  <2>1. Deaf("hunt", toStub)
    BY <1>7 DEF Settled
  <2>2. c # Dollar
    BY <1>3, <1>6, <2>1 DEF Deaf, Heard
  <2>3. ts' = "hunt" /\ Deaf("hunt", r)
    BY <1>1, <1>2, <1>5, <2>1, <2>2, HeardTail DEF r
  <2> QED BY <1>2, <1>5, <1>7, <2>3 DEF Settled, Done
<1>8. CASE Awaited
  <2>1. hs = "acked" /\ None(toHost, "ack") /\ (Done(next - 1) \/ Done(next))
    BY <1>8 DEF Awaited
  <2>2. ASSUME \/ ts' = "hunt" /\ Clean(r, 1) /\ AtMostOne(toHost, "nak")
               \/ None(toHost, "nak") /\ ts' # "ack" /\ Coming'
        PROVE  Awaited'
    BY <1>2, <1>5, <2>1, <2>2 DEF Awaited, Done
  <2>3. CASE Clean(toStub, 1) /\ AtMostOne(toHost, "nak")
    <3>1. c # Dollar
      BY <1>3, <1>6, <2>3 DEF Clean
    <3>2. Clean(toStub, 1 + 1)
      BY <1>1, <1>2, <2>3, LineTail
    <3>3. Clean(r, 1)
      BY <1>1, <1>2, <3>2, LineTail DEF r
    <3> QED BY <1>5, <2>2, <2>3, <3>1, <3>3
  <2>4. CASE None(toHost, "nak") /\ Coming
    <3>1. Ahead("hunt", toStub, next)
      BY <2>4 DEF Coming
    <3>2. CASE c # Dollar
      <4>1. Ahead("hunt", r, next)
        BY <1>1, <1>2, <3>1, HeardTail DEF r
      <4>2. ts' = "hunt"
        BY <1>5, <3>2
      <4> QED BY <1>2, <2>2, <2>4, <4>1, <4>2 DEF Coming
    <3>3. CASE c = Dollar
      <4> DEFINE l == Len(PacketOf(next))
      <4>1. StartsAt(toStub, 1, next) /\ Quiet(toStub, 1 + l)
        BY <1>3, <1>6, <3>1, <3>3 DEF Ahead, Heard
      <4>2. Len(TextOf(next)) \in 1 .. BUFMAX - 1 /\ l = Len(TextOf(next)) + 4 /\ TextOf(next) \in Seq(Plain)
        BY <1>1, PacketParts
      <4>3. l \in Nat \ {0} /\ 1 + l = l + 1 /\ 1 < l /\ l - 0 = l /\ 0 \in 0 .. Len(TextOf(next))
        BY <4>2, Constants
      <4> HIDE DEF l
      <4>4. Begins(r, next, 1 + 1)
        BY <1>1, <4>1, <4>3, BeginsFrom, BeginsTail DEF l, r
      <4>5. Quiet(r, l)
        BY <1>1, <1>2, <4>1, <4>3, LineTail DEF r
      <4>6. Collected(next, 0, 0, buffer)
        <5>1. Sums(TextOf(next))[0] = 0
          BY <4>2, PlainSums
        <5> QED BY <4>3, <5>1 DEF Collected
      <4>7. Reading(r, next, 0, 0, buffer)
        BY <4>3, <4>4, <4>5, <4>6 DEF Reading, l
      <4>8. ts' = "data" /\ count' = 0 /\ checksum' = 0
        BY <1>4, <3>3 DEF Hunt
      <4> QED BY <1>2, <1>5, <2>2, <2>4, <4>7, <4>8 DEF Coming
    <3> QED BY <3>2, <3>3
  <2> QED BY <1>8, <2>3, <2>4 DEF Awaited
<1> QED BY <1>7, <1>8

\* What putpacket sends when it gets a character.
LEMMA ResendIs ==
  ASSUME Typed, Typed', GetChar, ts = "ack"
  PROVE  /\ UNCHANGED <<hs, next, mem, sigval>>
         /\ \/ ts' = "hunt" /\ toStub[1] = Plus /\ toHost' = toHost
            \/ /\ ts' = "ack"
               /\ \E p \in Seq(Char) :
                    /\ toHost' = toHost \o <<Sent(p)>>
                    /\ \A j : Owed(packets, j) => Owed(packets', j) /\ \E k \in 1 .. Len(Expected(j)) : p = Expected(j)[k]
<1> DEFINE c == Head(toStub)
<1>1. toStub # <<>> /\ toStub \in Seq(Char) /\ packets \in Seq(Seq(Char)) /\ packets # <<>>
  BY DEF GetChar, Typed
<1>2. c = toStub[1]
  BY <1>1, HeadOff
<1>3. Resend(c) /\ UNCHANGED <<hs, next>>
  BY DEF GetChar, hostVars, Hunt, Data, Sum1, Sum2
<1>4. \A q \in Seq(Seq(Char)) : q # <<>> =>
        Head(q) \in Seq(Char) /\ \A j : Owed(q, j) => \E k \in 1 .. Len(Expected(j)) : Head(q) = Expected(j)[k]
  <2>1. ASSUME NEW q \in Seq(Seq(Char)), q # <<>>
        PROVE  Head(q) \in Seq(Char) /\ \A j : Owed(q, j) => \E k \in 1 .. Len(Expected(j)) : Head(q) = Expected(j)[k]
    <3>1. Head(q) \in Seq(Char) /\ Head(q) = q[1] /\ Len(q) \in Nat \ {0}
      BY <2>1, HeadOff
    <3>2. 1 \in 1 .. Len(q)
      BY <3>1
    <3> QED BY <3>1, <3>2 DEF Owed
  <2> QED BY <2>1
<1>5. CASE c # Plus
  <2>1. toHost' = toHost \o <<Sent(Head(packets))>> /\ UNCHANGED <<ts, packets, mem, sigval>>
    BY <1>3, <1>5 DEF Resend, Say
  <2> QED BY <1>1, <1>3, <1>4, <2>1
<1>6. CASE c = Plus /\ Len(packets) = 1
  BY <1>2, <1>3, <1>6 DEF Resend, Acknowledged
<1>7. CASE c = Plus /\ Len(packets) # 1
  <2>1. ts' = ts /\ packets' = Tail(packets) /\ toHost' = toHost \o <<Sent(Head(packets'))>> /\ UNCHANGED <<mem, sigval>>
    BY <1>3, <1>7 DEF Resend, Acknowledged, Say
  <2>2. packets' \in Seq(Seq(Char)) /\ packets' # <<>>
    BY <2>1 DEF Typed
  <2>3. \A j : Owed(packets, j) => Owed(Tail(packets), j)
    <3>1. Len(packets) \in Nat \ {0} /\ Len(Tail(packets)) = Len(packets) - 1
          /\ \A k \in 1 .. Len(packets) - 1 : Tail(packets)[k] = packets[k + 1]
      BY <1>1, HeadOff
    <3>2. \A i \in 1 .. Len(Tail(packets)) : i + 1 \in 1 .. Len(packets) /\ Tail(packets)[i] = packets[i + 1]
      BY <3>1
    <3> QED BY <3>2 DEF Owed
  <2>4. PICK q \in Seq(Seq(Char)) : q = packets'
    BY <2>2
  <2>5. q # <<>> /\ q = Tail(packets) /\ toHost' = toHost \o <<Sent(Head(q))>>
    BY <2>1, <2>2, <2>4
  <2>6. /\ Head(q) \in Seq(Char)
        /\ \A j : Owed(packets, j) => Owed(q, j) /\ \E k \in 1 .. Len(Expected(j)) : Head(q) = Expected(j)[k]
    BY <1>4, <2>3, <2>5
  <2> QED BY <1>3, <2>1, <2>4, <2>5, <2>6
<1> QED BY <1>5, <1>6, <1>7

LEMMA SteadyAck ==
  ASSUME Typed, Typed', GetChar, ts = "ack", Settled \/ Awaited
  PROVE  (Settled \/ Awaited)'
<1>1. next \in 1 .. Len(Requests) /\ toStub \in Seq(Char) /\ toHost \in Seq(Message)
  BY DEF Typed
<1>2. toStub # <<>> /\ toStub' = Tail(toStub)
  BY DEF GetChar
<1>3. UNCHANGED <<hs, next, mem, sigval>> /\ ts' \in {"hunt", "ack"} /\ (ts' = ts \/ toStub[1] = Plus)
  BY ResendIs
<1>4. /\ Deaf("ack", toStub) => Deaf(ts', Tail(toStub))
      /\ Ahead("ack", toStub, next) => Ahead(ts', Tail(toStub), next)
  <2>1. CASE ts' = "hunt"
    BY <1>1, <1>2, <1>3, <2>1, HeardTail
  <2>2. CASE ts' = "ack"
    BY <1>1, <1>2, <2>2, HeardTail
  <2> QED BY <1>3, <2>1, <2>2
\* What is said to the host.
<1>5. /\ \A x \in {"ack", "nak"} : (None(toHost, x) => None(toHost', x)) /\ (AtMostOne(toHost, x) => AtMostOne(toHost', x))
      /\ Owed(packets, next) => /\ ts' = "ack" => Owed(packets', next)
                                /\ AllAnswer(toHost, next) => AllAnswer(toHost', next)
                                /\ ThenAnswer(toHost, next) => ThenAnswer(toHost', next)
  <2>1. CASE ts' = "hunt" /\ toHost' = toHost
    BY <2>1
  <2>2. CASE ts' # "hunt"
    <3>1. PICK p \in Seq(Char) :
            /\ toHost' = toHost \o <<Sent(p)>>
            /\ \A j : Owed(packets, j) => Owed(packets', j) /\ \E k \in 1 .. Len(Expected(j)) : p = Expected(j)[k]
      BY <2>2, ResendIs
    <3> DEFINE z == <<Sent(p)>>
    <3>2. /\ z \in Seq(Message) /\ None(z, "ack") /\ None(z, "nak")
          /\ (\E k \in 1 .. Len(Expected(next)) : p = Expected(next)[k]) => AllAnswer(z, next)
      BY <1>1, Saying
    <3>3. toHost' = toHost \o z
      BY <3>1
    <3> HIDE DEF z
    <3>4. \A x \in {"ack", "nak"} :
            /\ None(toHost, x) => None(toHost \o z, x)
            /\ AtMostOne(toHost, x) => AtMostOne(toHost \o z, x)
      BY <1>1, <3>2, SaysMore
    <3>5. ASSUME Owed(packets, next)
          PROVE  /\ Owed(packets', next)
                 /\ AllAnswer(toHost, next) => AllAnswer(toHost \o z, next)
                 /\ ThenAnswer(toHost, next) => ThenAnswer(toHost \o z, next)
      BY <1>1, <3>1, <3>2, <3>5, SaysMore
    <3> QED BY <3>3, <3>4, <3>5
  <2> QED BY <2>1, <2>2, ResendIs
<1>6. CASE Settled
  BY <1>2, <1>3, <1>4, <1>5, <1>6 DEF Settled, Done
<1>7. CASE Awaited
  <2>1. /\ hs = "acked" /\ None(toHost, "ack") /\ None(toHost, "nak")
        /\ Done(next - 1) \/ (Done(next) /\ Owed(packets, next))
    BY <1>7 DEF Awaited, Coming
  <2>2. Ahead("ack", toStub, next)
    BY <1>7 DEF Awaited, Coming
  <2> QED BY <1>2, <1>3, <1>4, <1>5, <2>1, <2>2 DEF Awaited, Coming, Done
<1> QED BY <1>6, <1>7

\* The command is coming still, or again.
LEMMA Onward ==
  ASSUME Awaited, UNCHANGED <<hs, next, toHost, mem, sigval>>, ts # "hunt", ts' # "ack", Coming'
  PROVE  Awaited'
<1>1. hs = "acked" /\ None(toHost, "ack") /\ None(toHost, "nak") /\ (Done(next - 1) \/ Done(next))
  BY DEF Awaited
<1> QED BY <1>1 DEF Awaited, Done

\* Where the packet ends.
LEMMA TextEnds ==
  ASSUME NEW j \in 1 .. Len(Requests), NEW n, NEW x, NEW b, HasText(j, n, x, b)
  PROVE  n \in Nat /\ Len(PacketOf(j)) = n + 4 /\ Len(PacketOf(j)) - n = 4
<1>1. Len(TextOf(j)) \in 1 .. BUFMAX - 1 /\ Len(PacketOf(j)) = Len(TextOf(j)) + 4 /\ BUFMAX \in Nat
  BY PacketParts, Constants
<1>2. n = Len(TextOf(j))
  BY DEF HasText
<1>3. \A u, v, p : u \in 1 .. v - 1 /\ v \in Nat /\ p = u + 4 => u \in Nat /\ p - u = 4
  OBVIOUS
<1> QED BY <1>1, <1>2, <1>3

LEMMA SteadySum1 ==
  ASSUME Typed, GetChar, ts = "sum1", Awaited
  PROVE  Awaited'
<1> DEFINE c == Head(toStub)
           r == Tail(toStub)
<1>1. next \in 1 .. Len(Requests) /\ toStub \in Seq(Char)
  BY DEF Typed
<1>2. toStub # <<>> /\ toStub' = r /\ UNCHANGED <<hs, next>>
  BY DEF GetChar, hostVars
<1>3. /\ c = toStub[1] /\ Len(toStub) \in Nat \ {0} /\ r \in Seq(Char) /\ Len(r) = Len(toStub) - 1
      /\ \A k \in 1 .. Len(toStub) - 1 : r[k] = toStub[k + 1]
  BY <1>1, <1>2, HeadOff
<1>4. Sum1(c)
  BY DEF GetChar, Hunt, Data, Sum2, Resend
<1>5. ts' = "sum2" /\ high' = Hex(c) /\ UNCHANGED <<buffer, count, checksum, mem, sigval, toHost>>
  BY <1>4 DEF Sum1, target
<1> HIDE DEF r
<1>6. Deciding(r, next, count, checksum, buffer, Hex(c)) => Awaited'
  BY <1>2, <1>5, Onward DEF Coming
<1>7. Checking(toStub, next, count, checksum, buffer)
  BY DEF Awaited, Coming
<1>8. CASE HasText(next, count, checksum, buffer) /\ Begins(toStub, next, count + 3) /\ Quiet(toStub, 3)
  <2>1. count + 3 < Len(PacketOf(next)) /\ (count + 3) + 1 = count + 4 /\ 2 + 1 = 3
    BY <1>1, <1>8, TextEnds
  <2>2. c = PacketOf(next)[count + 3] /\ Begins(r, next, count + 4)
    BY <1>1, <1>3, <1>8, <2>1, BeginsTail DEF r
  <2>3. Quiet(r, 2)
    BY <1>1, <1>2, <1>8, <2>1, LineTail DEF r
  <2> QED BY <1>6, <1>8, <2>2, <2>3 DEF Deciding
<1>9. CASE /\ HasText(next, count, checksum, buffer) \/ (2 <= Len(toStub) /\ Digits(toStub[1], toStub[2]) # checksum)
           /\ Clean(toStub, 2)
  <2>1. Clean(toStub, 2 + 1)
    BY <1>1, <1>2, <1>9, LineTail
  <2>2. Clean(r, 2)
    BY <1>1, <1>2, <2>1, LineTail DEF r
  <2>3. ASSUME 2 <= Len(toStub), Digits(toStub[1], toStub[2]) # checksum
        PROVE  1 <= Len(r) /\ (16 * Hex(c) + Hex(r[1])) % 256 # checksum
    <3>1. 1 <= Len(r) /\ 1 \in 1 .. Len(toStub) - 1 /\ 1 + 1 = 2
      BY <1>3, <2>3
    <3>2. r[1] = toStub[2]
      BY <1>3, <3>1
    <3> QED BY <1>3, <2>3, <3>1, <3>2 DEF Digits
  <2> QED BY <1>6, <1>9, <2>2, <2>3 DEF Deciding
<1> QED BY <1>7, <1>8, <1>9 DEF Checking

\* The command is taken: the host is going to hear of it.
LEMMA SteadyTaken ==
  ASSUME Typed, Typed', Awaited, ts = "sum2", HasText(next, count, checksum, buffer), Take(<<Ack>>),
         UNCHANGED <<hs, next>>, Deaf("ack", toStub')
  PROVE  Settled'
<1>1. next \in 1 .. Len(Requests) /\ toHost \in Seq(Message) /\ buffer \in Buffer
  BY DEF Typed
<1>2. hs = "acked" /\ None(toHost, "ack") /\ None(toHost, "nak") /\ (Done(next - 1) \/ Done(next))
  BY DEF Awaited
<1>3. Doable(next)
  BY <1>1, <1>2, DoableIs DEF Done
<1>4. Answers(buffer) = Expected(next) /\ MemoryNow(buffer) = MemoryAfter[next] /\ SignalNow(buffer) = SignalAfter[next]
  BY <1>1, <1>3, CarriedBy
<1>5. ~ Numbered(buffer) /\ Unnumbered(buffer) = buffer
  BY <1>1, TakenText
<1>6. buffer' = buffer /\ Run(<<Ack>>, count)
  BY <1>5 DEF Take
<1>7. /\ ts' = "ack" /\ packets' = Expected(next) /\ toHost' = toHost \o (<<Ack>> \o <<Sent(Head(packets'))>>)
      /\ mem' = MemoryAfter[next] /\ sigval' = SignalAfter[next]
  BY <1>4, <1>6 DEF Run, Say, MemoryNow, SignalNow
<1> DEFINE q == Expected(next)
           p == Head(q)
           z == <<Ack>> \o <<Sent(p)>>
<1>8. q \in Seq(Seq(Char)) /\ q # <<>>
  BY <1>7 DEF Typed
<1>9. p \in Seq(Char) /\ p = q[1] /\ 1 \in 1 .. Len(q)
  <2> HIDE DEF q
  <2>1. p \in Seq(Char) /\ p = q[1] /\ Len(q) \in Nat \ {0}
    BY <1>8, HeadOff
  <2> HIDE DEF p
  <2> QED BY <2>1
<1>10. \E k \in 1 .. Len(Expected(next)) : p = Expected(next)[k]
  BY <1>9
<1>11. toHost' = toHost \o z
  BY <1>7
<1> HIDE DEF p
<1>12. z \in Seq(Message) /\ None(z, "nak") /\ AtMostOne(z, "ack") /\ AllAnswer(z, next)
  BY <1>1, <1>9, <1>10, Saying
<1> HIDE DEF z
<1>13. ThenAnswer(toHost, next)
  BY <1>2 DEF None, ThenAnswer
<1>14. None(toHost', "nak") /\ AtMostOne(toHost', "ack") /\ ThenAnswer(toHost', next)
  BY <1>1, <1>2, <1>11, <1>12, <1>13, SaysMore
<1>15. Owed(packets', next)
  BY <1>7 DEF Owed
<1> QED BY <1>2, <1>7, <1>14, <1>15 DEF Settled, Done

LEMMA SteadySum2 ==
  ASSUME Typed, Typed', GetChar, ts = "sum2", Awaited
  PROVE  (Settled \/ Awaited)'
<1> DEFINE c == Head(toStub)
           r == Tail(toStub)
<1>1. next \in 1 .. Len(Requests) /\ toStub \in Seq(Char) /\ toHost \in Seq(Message)
  BY DEF Typed
<1>2. toStub # <<>> /\ toStub' = r /\ UNCHANGED <<hs, next>>
  BY DEF GetChar, hostVars
<1>3. c = toStub[1] /\ Len(toStub) \in Nat \ {0} /\ r \in Seq(Char)
  BY <1>1, <1>2, HeadOff
<1>4. Sum2(c)
  BY DEF GetChar, Hunt, Data, Sum1, Resend
<1> HIDE DEF r
<1>5. Deciding(toStub, next, count, checksum, buffer, high)
  BY DEF Awaited, Coming
<1>6. ASSUME HasText(next, count, checksum, buffer), SumRight(c), Quiet(r, 1) PROVE Settled'
  <2>1. Take(<<Ack>>)
    BY <1>4, <1>6 DEF Sum2
  <2>2. Deaf("ack", r)
    BY <1>6 DEF Quiet, Deaf, Heard
  <2> QED BY <1>2, <1>6, <2>1, <2>2, SteadyTaken
<1>7. CASE /\ HasText(next, count, checksum, buffer) /\ Begins(toStub, next, count + 4)
           /\ high = Hex(PacketOf(next)[count + 3]) /\ Quiet(toStub, 2)
  <2>1. SumRight(c)
    <3>1. c = PacketOf(next)[count + 4]
      BY <1>1, <1>3, <1>7, BeginsTail
    <3>2. count = Len(TextOf(next)) /\ checksum = Sum8(TextOf(next))
      BY <1>7 DEF HasText
    <3> QED BY <1>1, <1>7, <3>1, <3>2, PacketParts DEF SumRight
  <2>2. Quiet(toStub, 1 + 1)
    BY <1>7
  <2>3. Quiet(r, 1)
    BY <1>1, <1>2, <2>2, LineTail DEF r
  <2> QED BY <1>6, <1>7, <2>1, <2>3
<1>8. CASE /\ HasText(next, count, checksum, buffer) \/ (1 <= Len(toStub) /\ (16 * high + Hex(toStub[1])) % 256 # checksum)
           /\ Clean(toStub, 2)
  <2>1. Clean(toStub, 1 + 1)
    BY <1>8
  <2>2. Clean(r, 1)
    BY <1>1, <1>2, <2>1, LineTail DEF r
  <2>3. CASE SumRight(c)
    <3>1. HasText(next, count, checksum, buffer)
      BY <1>3, <1>8, <2>3 DEF SumRight
    <3>2. Quiet(r, 1)
      BY <2>2 DEF Clean, Quiet
    <3> QED BY <1>6, <2>3, <3>1, <3>2
  <2>4. CASE ~ SumRight(c)
    <3>1. ts' = "hunt" /\ toHost' = toHost \o <<Nak>> /\ UNCHANGED <<mem, sigval>>
      BY <1>4, <2>4 DEF Sum2, Refuse, Say, target
    <3>2. hs = "acked" /\ None(toHost, "ack") /\ None(toHost, "nak") /\ (Done(next - 1) \/ Done(next))
      BY DEF Awaited
    <3>3. None(toHost', "ack") /\ AtMostOne(toHost', "nak")
      BY <1>1, <3>1, <3>2, Saying, SaysMore
    <3> QED BY <1>2, <2>2, <3>1, <3>2, <3>3 DEF Awaited, Done
  <2> QED BY <2>3, <2>4
<1> QED BY <1>5, <1>7, <1>8 DEF Deciding

\* What is collected is the text that is coming, or it will not be taken.
LEMMA SteadyData ==
  ASSUME ErrorsShow, Typed, GetChar, ts = "data", Awaited
  PROVE  Awaited' /\ ran' = ran
<1> DEFINE c == Head(toStub)
           r == Tail(toStub)
           x == (checksum + c) % 256
           d == [i \in 0 .. BUFMAX |-> IF i = count THEN c ELSE IF i = BUFMAX THEN 0 ELSE buffer[i]]
           l == Len(PacketOf(next))
<1>1. next \in 1 .. Len(Requests) /\ toStub \in Seq(Char) /\ buffer \in Buffer /\ BUFMAX \in Nat
  BY Constants DEF Typed
<1>2. toStub # <<>> /\ toStub' = r /\ UNCHANGED <<hs, next>>
  BY DEF GetChar, hostVars
<1>3. c = toStub[1] /\ Len(toStub) \in Nat \ {0} /\ r \in Seq(Char) /\ Len(r) = Len(toStub) - 1
  BY <1>1, <1>2, HeadOff
<1>4. count \in 0 .. BUFMAX - 1 /\ count \in Nat /\ count + 1 <= BUFMAX
  <2>1. count \in 0 .. BUFMAX /\ count < BUFMAX
    BY DEF Typed
  <2> QED BY <1>1, <2>1
<1>5. Data(c)
  BY DEF GetChar, Hunt, Sum1, Sum2, Resend
<1>6. None(toHost, "nak") /\ (Reading(toStub, next, count, checksum, buffer) \/ Merging)
  BY DEF Awaited, Coming
<1> HIDE DEF r, l
<1>7. CASE c = Hash
  <2>1. ts' = "sum1" /\ buffer' = [buffer EXCEPT ![count] = 0] /\ UNCHANGED <<count, checksum, mem, sigval, toHost, ran>>
    BY <1>5, <1>7 DEF Data, target
  <2>2. ~ Merging
    BY <1>1, <1>2, <1>3, <1>4, <1>7, MergingNext DEF Merging
  <2>3. Checking(r, next, count, checksum, [buffer EXCEPT ![count] = 0])
    <3>1. CASE /\ Collected(next, count, checksum, buffer) /\ Begins(toStub, next, count + 2)
               /\ Quiet(toStub, l - count)
      <4>1. HasText(next, count, checksum, [buffer EXCEPT ![count] = 0])
        BY <1>1, <1>3, <1>4, <1>7, <3>1, NextOfText
      <4>2. l = count + 4 /\ l - count = 3 + 1
        BY <1>1, <4>1, TextEnds DEF l
      <4>3. Quiet(r, 3)
        BY <1>1, <1>2, <3>1, <4>2, LineTail DEF r
      <4>4. count + 2 < l /\ (count + 2) + 1 = count + 3
        BY <1>4, <4>2
      <4>5. Begins(r, next, count + 3)
        BY <1>1, <3>1, <4>4, BeginsTail DEF r, l
      <4> QED BY <4>1, <4>3, <4>5 DEF Checking
    <3>2. CASE Doomed(toStub, count, checksum) /\ Single(toStub, next)
      <4>1. 2 <= Len(r) /\ Digits(r[1], r[2]) # checksum
        BY <1>1, <1>3, <1>4, <1>7, <3>2, DoomedNext DEF r
      <4>2. Clean(toStub, 2)
        <5>1. ASSUME NEW k \in 2 .. Len(toStub), toStub[k] = Dollar PROVE FALSE
          <6>1. 1 \in 1 .. k - 1
            OBVIOUS
          <6>2. \A i \in 1 .. k - 1 : toStub[i] # Hash
            BY <3>2, <5>1 DEF Single
          <6> QED BY <1>3, <1>7, <6>1, <6>2
        <5> QED BY <5>1 DEF Clean
      <4>3. Clean(toStub, 2 + 1)
        BY <1>1, <1>2, <4>2, LineTail
      <4>4. Clean(r, 2)
        BY <1>1, <1>2, <4>3, LineTail DEF r
      <4> QED BY <4>1, <4>4 DEF Checking
    <3> QED BY <1>6, <2>2, <3>1, <3>2 DEF Reading, l
  <2>4. Coming'
    BY <1>2, <2>1, <2>3 DEF Coming
  <2> QED BY <1>2, <2>1, <2>4, Onward
<1>8. CASE c # Hash
  <2>1. /\ count + 1 < BUFMAX => \/ Reading(r, next, count + 1, x, d)
                                 \/ \E z \in LostHash : Merging /\ MergingAt(r, count + 1, x, next, z)
        /\ count + 1 = BUFMAX => x # 255 /\ Ahead("hunt", r, next)
    <3>1. CASE /\ Collected(next, count, checksum, buffer) /\ Begins(toStub, next, count + 2)
               /\ Quiet(toStub, l - count)
      <4>1. /\ \A i \in 0 .. count : d[i] = IF i = count THEN toStub[1] ELSE buffer[i]
            /\ x = (checksum + toStub[1]) % 256 /\ toStub[1] # Hash
        <5>1. \A i \in 0 .. count : i \in 0 .. BUFMAX /\ i # BUFMAX
          BY <1>1, <1>4
        <5> QED BY <1>3, <1>8, <5>1
      <4> HIDE DEF x, d, c
      <4>2. count + 1 < BUFMAX /\ Collected(next, count + 1, x, d) /\ Begins(r, next, (count + 1) + 2)
        <5>1. /\ count + 1 < BUFMAX /\ Begins(Tail(toStub), next, (count + 1) + 2)
              /\ Collected(next, count + 1, (checksum + toStub[1]) % 256, d)
          BY <1>1, <1>4, <3>1, <4>1, NextOfText, ZenonT(60)
        <5> QED BY <4>1, <5>1, Zenon DEF r
      <4>3. l - (count + 1) \in Nat \ {0} /\ l - count = (l - (count + 1)) + 1
        <5>1. count + 2 \in 1 .. l /\ l \in Nat
          BY <1>1, <3>1, PacketParts DEF Begins, l
        <5> QED BY <1>4, <5>1
      <4>4. Quiet(r, l - (count + 1))
        <5>1. PICK m \in Nat \ {0} : m = l - (count + 1)
          BY <4>3
        <5>2. Quiet(toStub, m + 1)
          BY <3>1, <4>3, <5>1
        <5>3. Quiet(r, m)
          BY <1>1, <1>2, <5>2, LineTail DEF r
        <5> QED BY <5>1, <5>3
      <4>5. Reading(r, next, count + 1, x, d)
        BY <4>2, <4>4 DEF Reading, l
      <4>6. count + 1 # BUFMAX
        BY <1>1, <1>4, <4>2
      <4> QED BY <4>5, <4>6
    <3>2. CASE Doomed(toStub, count, checksum) /\ Single(toStub, next)
      <4> HIDE DEF d
      <4>1. /\ count + 1 < BUFMAX => Doomed(r, count + 1, x)
            /\ count + 1 = BUFMAX => x # 255
        BY <1>1, <1>3, <1>4, <1>8, <3>2, DoomedNext DEF r
      <4> HIDE DEF x, c
      <4>2. ASSUME NEW k \in 1 .. Len(r), r[k] = Dollar
            PROVE  StartsAt(r, k, next) /\ Clean(r, k + 1) /\ k + 1 \in 2 .. Len(toStub) /\ toStub[k + 1] = Dollar
        <5>1. /\ k + 1 \in 2 .. Len(toStub) /\ r[k] = toStub[k + 1]
              /\ StartsAt(toStub, k + 1, next) => StartsAt(r, k, next)
          BY <1>1, <1>2, StartsTail DEF r
        <5>2. StartsAt(toStub, k + 1, next) /\ Clean(toStub, (k + 1) + 1)
          BY <3>2, <4>2, <5>1 DEF Single
        <5>3. k + 1 \in Nat \ {0}
          OBVIOUS
        <5>4. Clean(r, k + 1)
          BY <1>1, <1>2, <5>2, <5>3, LineTail DEF r
        <5> QED BY <4>2, <5>1, <5>2, <5>4
      <4>3. Single(r, next)
        <5>1. ASSUME NEW k \in 2 .. Len(r), r[k] = Dollar
              PROVE  StartsAt(r, k, next) /\ Clean(r, k + 1) /\ \A i \in 1 .. k - 1 : r[i] # Hash
          <6>1. k \in 1 .. Len(r)
            BY <1>3
          <6>2. StartsAt(r, k, next) /\ Clean(r, k + 1) /\ k + 1 \in 2 .. Len(toStub) /\ toStub[k + 1] = Dollar
            BY <4>2, <5>1, <6>1
          <6>3. ASSUME NEW i \in 1 .. k - 1 PROVE r[i] # Hash
            <7>1. i + 1 \in 1 .. (k + 1) - 1 /\ i \in 1 .. Len(r)
              BY <1>3
            <7>2. toStub[i + 1] # Hash
              BY <3>2, <6>2, <7>1 DEF Single
            <7>3. r[i] = toStub[i + 1]
              BY <1>1, <1>2, <7>1, StartsTail DEF r
            <7> QED BY <7>2, <7>3
          <6> QED BY <6>2, <6>3
        <5> QED BY <5>1 DEF Single
      <4>4. Ahead("hunt", r, next)
        <5>1. ASSUME NEW k \in 1 .. Len(r), r[k] = Dollar PROVE StartsAt(r, k, next) /\ Quiet(r, k + l)
          <6>1. StartsAt(r, k, next) /\ Clean(r, k + 1)
            BY <4>2, <5>1
          <6>2. l \in Nat \ {0}
            <7>1. Len(TextOf(next)) \in 1 .. BUFMAX - 1 /\ l = Len(TextOf(next)) + 4
              BY <1>1, PacketParts DEF l
            <7> QED BY <1>1, <7>1
          <6>3. \A i \in k + l .. Len(r) : i \in k + 1 .. Len(r)
            BY <1>3, <6>2
          <6>4. Quiet(r, k + l)
            BY <6>1, <6>3 DEF Clean, Quiet
          <6> QED BY <6>1, <6>4
        <5> QED BY <5>1 DEF Ahead, Heard, l
      <4> QED BY <4>1, <4>3, <4>4 DEF Reading
    <3>3. CASE Merging
      <4>1. PICK z \in LostHash : MergingAt(toStub, count, checksum, next, z)
        BY <3>3 DEF Merging
      <4>2. /\ count + 1 < BUFMAX => MergingAt(r, count + 1, (checksum + toStub[1]) % 256, next, z)
            /\ count + 1 = BUFMAX => (checksum + toStub[1]) % 256 # 255
        BY <1>1, <1>2, <1>4, <4>1, MergingNext DEF r
      <4>3. Clean(toStub, 1 + 1)
        BY <1>1, <4>1, MergingClean
      <4>4. Clean(r, 1)
        BY <1>1, <1>2, <4>3, LineTail DEF r
      <4>5. Ahead("hunt", r, next)
        BY <4>4 DEF Clean, Ahead, Heard
      <4> QED BY <1>3, <3>3, <4>2, <4>5
    <3> QED BY <1>6, <3>1, <3>2, <3>3 DEF Reading, l
  <2>2. /\ count' = count + 1 /\ checksum' = x /\ buffer' = d
        /\ \/ count + 1 < BUFMAX /\ UNCHANGED <<ts, target, toHost>>
           \/ count + 1 = BUFMAX /\ ts' = "hunt" /\ UNCHANGED <<target, toHost>>
    <3>1. /\ count' = count + 1 /\ checksum' = x /\ buffer' = d
          /\ \/ count' < BUFMAX /\ UNCHANGED <<ts, target, toHost>>
             \/ count' = BUFMAX /\ ts' = "hunt" /\ UNCHANGED <<target, toHost>>
             \/ count' = BUFMAX /\ x = 255
      BY <1>5, <1>8 DEF Data
    <3> HIDE DEF x, d
    <3> QED BY <2>1, <3>1
  <2> HIDE DEF x, d, c
  <2>3. UNCHANGED <<mem, sigval, toHost, ran>> /\ ts' # "ack"
    BY <2>2 DEF target
  <2>4. CASE count + 1 < BUFMAX /\ UNCHANGED <<ts, target, toHost>>
    <3>1. CASE Reading(r, next, count + 1, x, d)
      <4>1. Coming'
        BY <1>2, <2>2, <2>4, <3>1 DEF Coming
      <4> QED BY <1>2, <2>3, <4>1, Onward
    <3>2. CASE \E z \in LostHash : Merging /\ MergingAt(r, count + 1, x, next, z)
      <4>1. Merging'
        BY <1>2, <2>2, <2>4, <3>2 DEF Merging
      <4>2. Coming'
        BY <2>4, <4>1 DEF Coming
      <4> QED BY <1>2, <2>3, <4>2, Onward
    <3> QED BY <2>1, <2>3, <2>4, <3>1, <3>2
  <2>5. CASE count + 1 = BUFMAX /\ ts' = "hunt"
    <3>1. Coming'
      BY <1>2, <2>1, <2>5 DEF Coming
    <3> QED BY <1>2, <2>3, <3>1, Onward
  <2> QED BY <2>2, <2>4, <2>5
<1> QED BY <1>7, <1>8

LEMMA SteadyChar ==
  ASSUME ErrorsShow, Typed, Typed', GetChar, Steady
  PROVE  Steady'
<1>1. UNCHANGED <<hs, next, got, shown>> /\ ts \in {"hunt", "ack", "data", "sum1", "sum2"}
  BY DEF GetChar, hostVars, Typed
<1>2. GotWell'
  BY <1>1 DEF Steady, GotWell
<1>3. CASE hs = "done"
  BY <1>1, <1>2, <1>3 DEF Steady
<1>4. CASE hs # "done"
  <2>1. Len(got) = next - 1 /\ shown \in Seq(Seq(Char)) /\ Among(shown, next) /\ (Settled \/ Awaited)
    BY <1>4 DEF Steady
  <2>2. ts \notin {"hunt", "ack"} => Awaited
    BY <2>1 DEF Settled
  <2>3. (Settled \/ Awaited)'
    BY <1>1, <2>1, <2>2, SteadyHunt, SteadyAck, SteadyData, SteadySum1, SteadySum2
  <2> QED BY <1>1, <1>2, <2>1, <2>3 DEF Steady
<1> QED BY <1>3, <1>4

\* A sign is sent behind a command that is coming.
LEMMA ComingMore ==
  ASSUME Typed, Coming, ts = "data" => ~ Merging, UNCHANGED stubVars, next' = next,
         NEW z \in Seq(Char), Clean(z, 1), toStub' = toStub \o z
  PROVE  Coming'
<1> DEFINE u == toStub \o z
           l == Len(PacketOf(next))
<1>1. next \in 1 .. Len(Requests) /\ toStub \in Seq(Char) /\ count \in Nat
  BY Constants DEF Typed
<1>2. UNCHANGED <<ts, buffer, count, checksum, high>> /\ toStub' = u
  BY DEF stubVars, input
<1>3. Joins(u, toStub, z, Char)
  BY <1>1, Cat
<1> HIDE DEF u
<1>4. /\ Len(u) = Len(toStub) + Len(z) /\ Len(toStub) \in Nat /\ Len(z) \in Nat
      /\ \A k \in 1 .. Len(toStub) : u[k] = toStub[k]
  BY <1>3 DEF Joins
<1>5. /\ \A m \in Nat \ {0} : (Clean(toStub, m) => Clean(u, m)) /\ (Quiet(toStub, m) => Quiet(u, m))
      /\ Single(toStub, next) => Single(u, next)
      /\ Ahead(ts, toStub, next) => Ahead(ts, u, next)
  BY <1>1, HeardCat DEF u
<1>6. \A i : Begins(toStub, next, i) => Begins(u, next, i)
  BY <1>1, BeginsCat DEF u
<1>7. CASE ts \in {"hunt", "ack"} /\ Ahead(ts, toStub, next)
  BY <1>2, <1>5, <1>7 DEF Coming
<1>8. CASE ts = "data"
  <2>1. Reading(toStub, next, count, checksum, buffer)
    BY <1>8 DEF Coming
  <2>2. CASE /\ Collected(next, count, checksum, buffer) /\ Begins(toStub, next, count + 2)
             /\ Quiet(toStub, l - count)
    <3>1. l - count \in Nat \ {0}
      <4>1. count + 2 \in 1 .. l /\ l \in Nat
        BY <1>1, <2>2, PacketParts DEF Begins
      <4> HIDE DEF l
      <4> QED BY <1>1, <4>1
    <3>2. Quiet(u, l - count)
      <4> HIDE DEF l
      <4> QED BY <1>5, <2>2, <3>1
    <3>3. Reading(u, next, count, checksum, buffer)
      BY <1>6, <2>2, <3>2 DEF Reading
    <3> QED BY <1>2, <1>8, <3>3 DEF Coming
  <2>3. CASE Doomed(toStub, count, checksum) /\ Single(toStub, next)
    <3>1. Doomed(u, count, checksum)
      BY <1>1, <2>3, DoomedCat DEF u
    <3>2. Reading(u, next, count, checksum, buffer)
      BY <1>5, <2>3, <3>1 DEF Reading
    <3> QED BY <1>2, <1>8, <3>2 DEF Coming
  <2> QED BY <2>1, <2>2, <2>3 DEF Reading
<1>9. CASE ts = "sum1"
  <2>1. Checking(toStub, next, count, checksum, buffer)
    BY <1>9 DEF Coming
  <2>2. ASSUME 2 <= Len(toStub) PROVE 2 <= Len(u) /\ u[1] = toStub[1] /\ u[2] = toStub[2]
    <3>1. 2 <= Len(u) /\ 1 \in 1 .. Len(toStub) /\ 2 \in 1 .. Len(toStub)
      BY <1>4, <2>2
    <3> QED BY <1>4, <3>1
  <2>3. (Quiet(toStub, 3) => Quiet(u, 3)) /\ (Clean(toStub, 2) => Clean(u, 2))
    BY <1>5
  <2>4. Checking(u, next, count, checksum, buffer)
    BY <1>6, <2>1, <2>2, <2>3 DEF Checking
  <2> QED BY <1>2, <1>9, <2>4 DEF Coming
<1>10. CASE ts = "sum2"
  <2>1. Deciding(toStub, next, count, checksum, buffer, high)
    BY <1>10 DEF Coming
  <2>2. ASSUME 1 <= Len(toStub) PROVE 1 <= Len(u) /\ u[1] = toStub[1]
    <3>1. 1 <= Len(u) /\ 1 \in 1 .. Len(toStub)
      BY <1>4, <2>2
    <3> QED BY <1>4, <3>1
  <2>3. (Quiet(toStub, 2) => Quiet(u, 2)) /\ (Clean(toStub, 2) => Clean(u, 2))
    BY <1>5
  <2>4. Deciding(u, next, count, checksum, buffer, high)
    BY <1>6, <2>1, <2>2, <2>3 DEF Deciding
  <2> QED BY <1>2, <1>10, <2>4 DEF Coming
<1> QED BY <1>7, <1>8, <1>9, <1>10 DEF Coming

LEMMA Signs ==
  ASSUME NEW c \in {Plus, Minus}
  PROVE  <<c>> \in Seq(Char) /\ Clean(<<c>>, 1) /\ c \in Char \ {Dollar}
<1> DEFINE s == <<c>>
<1>1. c \in Char /\ c # Dollar
  BY DEF Plus, Minus, Dollar, Char
<1>2. s \in Seq(Char) /\ Len(s) = 1 /\ s[1] = c
  BY <1>1
<1> HIDE DEF s
<1>3. \A k \in 1 .. Len(s) : k = 1
  BY <1>2
<1>4. Clean(s, 1)
  BY <1>1, <1>2, <1>3 DEF Clean
<1> QED BY <1>1, <1>2, <1>4 DEF s

\* While the host awaits an acknowledgement.
LEMMA SteadyAcked ==
  ASSUME Typed, HostReads, hs = "acked", Settled \/ Awaited
  PROVE  (Settled \/ Awaited)' /\ UNCHANGED <<next, got, shown>> /\ hs' # "done"
<1> DEFINE m == Head(toHost)
           h == Tail(toHost)
<1>1. next \in 1 .. Len(Requests) /\ toStub \in Seq(Char) /\ toHost \in Seq(Message)
  BY DEF Typed
<1>2. /\ toHost # <<>> /\ toHost' = h /\ UNCHANGED <<ts, packets, mem, sigval, stubVars>>
      /\ (AwaitAck(m) \/ AwaitReply(m) \/ Idle(m))
  BY DEF HostReads, stubVars, target
<1>3. /\ \A x : None(toHost, x) => None(h, x) /\ m.kind # x
      /\ \A x : AtMostOne(toHost, x) => AtMostOne(h, x) /\ (m.kind = x => None(h, x))
      /\ ThenAnswer(toHost, next) => ThenAnswer(h, next) /\ (m.kind = "ack" => AllAnswer(h, next))
  BY <1>1, <1>2, HearsOne
<1>4. AwaitAck(m)
  BY <1>2 DEF AwaitReply, Idle
<1>5. UNCHANGED <<next, got, shown>> /\ hs' # "done"
  BY <1>4 DEF AwaitAck
<1> HIDE DEF m, h
<1>6. CASE m.kind = "ack"
  <2>1. hs' = "reply" /\ toStub' = toStub
    BY <1>4, <1>6 DEF AwaitAck
  <2>2. Settled
    BY <1>3, <1>6 DEF Awaited
  <2> QED BY <1>2, <1>3, <1>5, <1>6, <2>1, <2>2 DEF Settled, Done
<1>7. CASE m.kind = "nak"
  <2>1. hs' = hs /\ toStub' = toStub \o PacketOf(next)
    BY <1>4, <1>7 DEF AwaitAck, Send, PacketOf, TextOf
  <2>2. Awaited /\ ts = "hunt" /\ Clean(toStub, 1) /\ AtMostOne(toHost, "nak")
    BY <1>3, <1>7 DEF Settled, Awaited
  <2>3. Deaf("hunt", toStub)
    BY <2>2 DEF Deaf, Heard, Clean
  <2>4. Ahead("hunt", toStub \o PacketOf(next), next)
    BY <1>1, <2>3, EndsPacket, EndsCat
  <2>5. Coming'
    BY <1>2, <1>5, <2>1, <2>2, <2>4 DEF Coming
  <2>6. None(h, "nak")
    BY <1>3, <1>7, <2>2
  <2> QED BY <1>2, <1>3, <1>5, <2>1, <2>2, <2>5, <2>6 DEF Awaited, Done
<1>8. CASE m.kind \notin {"ack", "nak"}
  <2>1. hs' = hs /\ toStub' = toStub \o <<Plus>>
    BY <1>4, <1>8 DEF AwaitAck, Send
  <2>2. <<Plus>> \in Seq(Char) /\ Clean(<<Plus>>, 1)
    BY Signs
  <2>3. /\ Deaf(ts, toStub) => Deaf(ts, toStub \o <<Plus>>)
        /\ Clean(toStub, 1) => Clean(toStub \o <<Plus>>, 1)
    <3> DEFINE z == <<Plus>>
               u == toStub \o z
    <3>1. z \in Seq(Char) /\ Clean(z, 1) /\ 1 \in Nat \ {0}
      BY <2>2
    <3> HIDE DEF z
    <3>2. /\ Deaf(ts, toStub) => Deaf(ts, u)
          /\ \A n \in Nat \ {0} : Clean(toStub, n) => Clean(u, n)
      BY <1>1, <3>1, HeardCat
    <3> HIDE DEF u
    <3>3. Clean(toStub, 1) => Clean(u, 1)
      BY <3>1, <3>2
    <3> QED BY <3>2, <3>3 DEF u, z
  <2>4. CASE Settled
    BY <1>2, <1>3, <1>5, <2>1, <2>3, <2>4 DEF Settled, Done
  <2>5. CASE Awaited
    <3>1. Coming => Coming'
      BY <1>2, <1>5, <2>1, <2>2, ComingMore DEF Merging
    <3>2. /\ hs = "acked" /\ None(toHost, "ack")
          /\ Done(next - 1) \/ (Done(next) /\ (ts = "ack" => Owed(packets, next)))
          /\ \/ ts = "hunt" /\ Clean(toStub, 1) /\ AtMostOne(toHost, "nak")
             \/ None(toHost, "nak") /\ Coming
      BY <2>5 DEF Awaited
    <3> QED BY <1>2, <1>3, <1>5, <2>1, <2>3, <3>1, <3>2 DEF Awaited, Done
  <2> QED BY <2>4, <2>5
<1> QED BY <1>5, <1>6, <1>7, <1>8

\* Of what is to be sent for a request, all but the reply is output.
LEMMA ExpectedOutputs ==
  ASSUME NEW j \in 1 .. Len(Requests)
  PROVE  Outputs(Expected(j), j)
<1> DEFINE op == Requests[j].op
<1>1. PICK l : AsExpected(j, Expected(j), l)
  BY ExpectedIs
<1>2. l \in Nat /\ Len(Expected(j)) = l + 1 /\ Len(Printed(j)) = l
  BY <1>1 DEF AsExpected
<1>3. CASE op \notin {"c", "s"}
  <2>1. Printed(j) = <<>>
    BY <1>3 DEF Printed
  <2>2. l = 0
    BY <1>2, <2>1
  <2>3. \A i \in 1 .. Len(Expected(j)) : ~ (i < Len(Expected(j)))
    BY <1>2, <2>2
  <2> QED BY <1>3, <2>3 DEF Outputs
<1>4. CASE op \in {"c", "s"}
  <2> DEFINE run == Runs[op]
             q == [k \in 1 .. Len(run.prints) |-> OutputPacket(run.prints[k])] \o <<Stopped(computeSignal(run.stop))>>
  <2>1. ToPrint(j) = run.prints
    BY <1>4 DEF ToPrint
  <2>2. SignalAfter[j] = computeSignal(run.stop)
    <3>1. SignalAfter[j] = SignalledOne(j, SignalAfter[j - 1])
      BY SignalAfterIs
    <3> QED BY <1>4, <3>1 DEF SignalledOne
  <2>3. Due(j) = Stopped(computeSignal(run.stop))
    BY <1>4, <2>2 DEF Due
  <2>4. Expected(j) = q
    BY <2>1, <2>3 DEF Expected
  <2>5. \A k \in 1 .. Len(q) : q[k] # <<>> /\ (q[k][1] = 79 <=> k < Len(q))
    BY <1>4, RunAnswersAre
  <2> HIDE DEF q
  <2> QED BY <1>4, <2>4, <2>5 DEF Outputs
<1> QED BY <1>3, <1>4

\* What the host makes of a packet that answers its request.
LEMMA AnswerIs ==
  ASSUME Typed, NEW m, m.kind = "good", Answer(m, next)
  PROVE  /\ IsOutput(m.of) => \E i \in 1 .. Len(Printed(next)) : /\ Tail(Unrle(m.of)) = Printed(next)[i]
                                                                 /\ Printed(next)[i] \in Seq(Char)
         /\ ~ IsOutput(m.of) => Unrle(m.of) = Due(next)
         /\ Due(next) \in Seq(Char)
<1> DEFINE q == Expected(next)
<1>1. next \in 1 .. Len(Requests)
  BY DEF Typed
<1>2. PICK l : AsExpected(next, q, l)
  BY <1>1, ExpectedIs
<1>3. Outputs(q, next)
  BY <1>1, ExpectedOutputs
<1> HIDE DEF q
<1>4. /\ l \in Nat /\ q \in Seq(Seq(Char)) /\ Len(q) = l + 1 /\ Len(Printed(next)) = l /\ Due(next) \in Seq(Char)
      /\ \A k \in 1 .. l : Tail(Unrle(Rle(q[k]))) = Printed(next)[k] /\ Printed(next)[k] \in Seq(Char)
      /\ Unrle(Rle(q[l + 1])) = Due(next)
  BY <1>2 DEF AsExpected
<1>5. PICK k \in 1 .. Len(q) : m.of = Rle(q[k])
  BY DEF Answer, q
<1>6. q[k] \in Seq(Char)
  BY <1>4
<1>7. IsOutput(m.of) <=> k < Len(q)
  <2>1. /\ q[k] = <<>> => Rle(q[k]) = <<>>
        /\ q[k] # <<>> => Rle(q[k]) # <<>> /\ Head(Rle(q[k])) = q[k][1]
    BY <1>6, RleIs
  <2>2. (Requests[next].op \in {"c", "s"} /\ q[k] # <<>> /\ q[k][1] = 79) <=> k < Len(q)
    BY <1>3 DEF Outputs
  <2> QED BY <1>5, <2>1, <2>2 DEF IsOutput
<1>8. CASE k < Len(q)
  <2>1. k \in 1 .. l
    BY <1>4, <1>8
  <2> QED BY <1>4, <1>5, <1>7, <1>8, <2>1
<1>9. CASE ~ (k < Len(q))
  <2>1. k = l + 1
    BY <1>4, <1>9
  <2> QED BY <1>4, <1>5, <1>7, <1>9, <2>1
<1> QED BY <1>8, <1>9

\* Output and replies that the host adds to what it has are right.
LEMMA AmongMore ==
  ASSUME NEW q \in Seq(Seq(Char)), NEW j, Among(q, j), NEW a \in Seq(Char),
         \E i \in 1 .. Len(Printed(j)) : a = Printed(j)[i]
  PROVE  Append(q, a) \in Seq(Seq(Char)) /\ Among(Append(q, a), j)
<1> DEFINE u == Append(q, a)
<1>1. /\ u \in Seq(Seq(Char)) /\ Len(u) = Len(q) + 1 /\ u[Len(q) + 1] = a /\ Len(q) \in Nat
      /\ \A i \in 1 .. Len(q) : u[i] = q[i]
  BY AppendProperties, LenProperties
<1> HIDE DEF u
<1>2. \A k \in 1 .. Len(u) : k = Len(q) + 1 \/ k \in 1 .. Len(q)
  BY <1>1
<1>3. Among(u, j)
  BY <1>1, <1>2 DEF Among
<1> QED BY <1>1, <1>3 DEF u

LEMMA GotMore ==
  ASSUME GotWell, NEW j \in 1 .. Len(Requests), Len(got) = j - 1, NEW a, a = Due(j), a \in Seq(Char),
         NEW o \in Seq(Seq(Char)), Among(o, j)
  PROVE  LET g == Append(got, [reply |-> a, output |-> o])
         IN g \in Seq(Reply) /\ Len(g) = j /\ \A i \in 1 .. Len(g) : g[i].reply = Due(i) /\ Among(g[i].output, i)
<1> DEFINE x == [reply |-> a, output |-> o]
           g == Append(got, x)
<1>1. x \in Reply /\ x.reply = a /\ x.output = o
  BY DEF Reply
<1> HIDE DEF x
<1>2. /\ g \in Seq(Reply) /\ Len(g) = Len(got) + 1 /\ g[Len(got) + 1] = x
      /\ \A i \in 1 .. Len(got) : g[i] = got[i]
  BY <1>1, AppendProperties DEF GotWell
<1> HIDE DEF g
<1>3. Len(g) = j /\ g[j] = x
  <2>1. \A u \in Nat : (u - 1) + 1 = u
    OBVIOUS
  <2>2. j \in Nat
    BY Constants
  <2> QED BY <1>2, <2>1, <2>2
<1>4. ASSUME NEW i \in 1 .. Len(g) PROVE g[i].reply = Due(i) /\ Among(g[i].output, i)
  <2>1. i = j \/ i \in 1 .. Len(got)
    BY <1>3, Constants
  <2> QED BY <1>1, <1>2, <1>3, <2>1 DEF GotWell
<1> QED BY <1>2, <1>3, <1>4 DEF g, x

\* While the host awaits a reply.
LEMMA SteadyReply ==
  ASSUME Typed, HostReads, hs = "reply", GotWell, Len(got) = next - 1, shown \in Seq(Seq(Char)), Among(shown, next), Settled
  PROVE  Steady'
<1> DEFINE m == Head(toHost)
           h == Tail(toHost)
<1>1. next \in 1 .. Len(Requests) /\ toStub \in Seq(Char) /\ toHost \in Seq(Message) /\ Len(Requests) \in Nat
  BY Constants DEF Typed
<1>2. /\ toHost # <<>> /\ toHost' = h /\ UNCHANGED <<ts, packets, mem, sigval>>
      /\ (AwaitAck(m) \/ AwaitReply(m) \/ Idle(m))
  BY DEF HostReads, stubVars, target
<1>3. AwaitReply(m)
  BY <1>2 DEF AwaitAck, Idle
<1>4. /\ ts \in {"hunt", "ack"} /\ Deaf(ts, toStub) /\ None(toHost, "nak") /\ None(toHost, "ack")
      /\ Done(next) /\ (ts = "ack" => Owed(packets, next)) /\ AllAnswer(toHost, next)
  BY DEF Settled
<1>5. None(h, "nak") /\ None(h, "ack") /\ AllAnswer(h, next) /\ Answer(m, next) /\ m.kind \notin {"ack", "nak"} /\ m \in Message
  BY <1>1, <1>2, <1>4, HearsOne, HeadOff
<1> HIDE DEF m, h
<1>6. \A c \in {Plus, Minus} : Deaf(ts, toStub \o <<c>>)
  BY <1>1, <1>4, Signs, HeardCat
<1>7. ASSUME UNCHANGED <<hs, next, got>>, shown' \in Seq(Seq(Char)), Among(shown', next), Deaf(ts, toStub')
      PROVE  Steady'
  <2>1. Settled'
    BY <1>2, <1>4, <1>5, <1>7 DEF Settled, Done
  <2>2. GotWell'
    BY <1>7 DEF GotWell
  <2> QED BY <1>7, <2>1, <2>2 DEF Steady
<1>8. CASE m.kind = "bad"
  <2>1. UNCHANGED hostVars /\ toStub' = toStub \o <<Minus>>
    BY <1>3, <1>8 DEF AwaitReply, Send
  <2> QED BY <1>6, <1>7, <2>1 DEF hostVars
<1>9. CASE m.kind = "good" /\ IsOutput(m.of)
  <2>1. /\ shown' = Append(shown, Tail(Unrle(m.of))) /\ UNCHANGED <<hs, next, got>> /\ toStub' = toStub \o <<Plus>>
    BY <1>3, <1>9 DEF AwaitReply, Send
  <2>2. PICK i \in 1 .. Len(Printed(next)) : Tail(Unrle(m.of)) = Printed(next)[i] /\ Printed(next)[i] \in Seq(Char)
    BY <1>5, <1>9, AnswerIs
  <2>3. PICK a \in Seq(Char) : a = Tail(Unrle(m.of))
    BY <2>2
  <2>4. \E k \in 1 .. Len(Printed(next)) : a = Printed(next)[k]
    BY <2>2, <2>3
  <2>5. Append(shown, a) \in Seq(Seq(Char)) /\ Among(Append(shown, a), next)
    BY <2>4, AmongMore
  <2> QED BY <1>6, <1>7, <2>1, <2>3, <2>5
<1>10. CASE m.kind = "good" /\ ~ IsOutput(m.of)
  <2>1. /\ got' = Append(got, [reply |-> Unrle(m.of), output |-> shown]) /\ shown' = <<>>
        /\ IF next < Len(Requests)
             THEN hs' = "acked" /\ next' = next + 1 /\ toStub' = toStub \o (<<Plus>> \o PacketOf(next + 1))
             ELSE hs' = "done" /\ next' = next
    BY <1>3, <1>10 DEF AwaitReply, Send, PacketOf, TextOf
  <2>2. Unrle(m.of) = Due(next) /\ Due(next) \in Seq(Char)
    BY <1>5, <1>10, AnswerIs
  <2>3. PICK a \in Seq(Char) : a = Unrle(m.of) /\ a = Due(next)
    BY <2>2
  <2> DEFINE g == Append(got, [reply |-> a, output |-> shown])
  <2>4. g \in Seq(Reply) /\ Len(g) = next /\ \A i \in 1 .. Len(g) : g[i].reply = Due(i) /\ Among(g[i].output, i)
    BY <1>1, <2>3, GotMore
  <2>5. got' = g
    BY <2>1, <2>3
  <2> HIDE DEF g
  <2>6. GotWell' /\ Len(got') = next
    BY <2>4, <2>5 DEF GotWell
  <2>7. CASE next < Len(Requests)
    <3> DEFINE j == next + 1
               z == <<Plus>> \o PacketOf(j)
    <3>1. j \in 1 .. Len(Requests) /\ j - 1 = next
      BY <1>1, <2>7
    <3>2. hs' = "acked" /\ next' = j /\ toStub' = toStub \o z
      BY <2>1, <2>7
    <3> HIDE DEF j
    <3>3. z \in Seq(Char) /\ Ends(z, 2, j)
      BY <3>1, Signs, EndsPacket
    <3> HIDE DEF z
    <3>4. Ahead(ts, toStub \o z, j)
      BY <1>1, <1>4, <3>1, <3>3, EndsCat
    <3>5. Coming'
      BY <1>2, <1>4, <3>2, <3>4 DEF Coming
    <3>6. mem' = MemoryAfter[next' - 1] /\ sigval' = SignalAfter[next' - 1]
      BY <1>2, <1>4, <3>1, <3>2 DEF Done
    <3>7. Awaited'
      BY <1>2, <1>5, <3>2, <3>5, <3>6 DEF Awaited, Done
    <3>8. shown' \in Seq(Seq(Char)) /\ Among(shown', next') /\ Len(got') = next' - 1
      BY <2>1, <2>6, <3>1, <3>2 DEF Among
    <3> QED BY <2>6, <3>7, <3>8 DEF Steady
  <2>8. CASE ~ (next < Len(Requests))
    BY <2>1, <2>6, <2>8 DEF Steady
  <2> QED BY <2>7, <2>8
<1> QED BY <1>5, <1>8, <1>9, <1>10 DEF Message

LEMMA SteadyHost ==
  ASSUME Typed, HostReads, Steady
  PROVE  Steady'
<1> DEFINE m == Head(toHost)
<1>1. AwaitAck(m) \/ AwaitReply(m) \/ Idle(m)
  BY DEF HostReads
<1>2. CASE hs = "done"
  <2>1. UNCHANGED <<hs, next, got, shown>>
    BY <1>1, <1>2 DEF AwaitAck, AwaitReply, Idle, hostVars
  <2> QED BY <1>2, <2>1 DEF Steady, GotWell
<1>3. CASE hs = "acked"
  <2>1. GotWell /\ Len(got) = next - 1 /\ shown \in Seq(Seq(Char)) /\ Among(shown, next) /\ (Settled \/ Awaited)
    BY <1>3 DEF Steady
  <2>2. (Settled \/ Awaited)' /\ UNCHANGED <<next, got, shown>> /\ hs' # "done"
    BY <1>3, <2>1, SteadyAcked
  <2>3. GotWell'
    BY <2>1, <2>2 DEF GotWell
  <2> QED BY <2>1, <2>2, <2>3 DEF Steady
<1>4. CASE hs = "reply"
  <2>1. GotWell /\ Len(got) = next - 1 /\ shown \in Seq(Seq(Char)) /\ Among(shown, next) /\ (Settled \/ Awaited)
    BY <1>4 DEF Steady
  <2>2. Settled
    BY <1>4, <2>1 DEF Awaited
  <2> QED BY <1>4, <2>1, <2>2, SteadyReply
<1> QED BY <1>2, <1>3, <1>4 DEF Typed

\* Nothing comes: the command again finds the stub where it is.
LEMMA SteadyTimeout ==
  ASSUME ErrorsShow, Typed, Timeout, Steady
  PROVE  Steady'
<1> DEFINE e == PacketOf(next)
<1>1. /\ toStub = <<>> /\ toHost = <<>> /\ next \in 1 .. Len(Requests)
      /\ UNCHANGED <<ts, buffer, count, checksum, high, packets, mem, sigval, hs, next, got, shown, toHost>>
      /\ \/ hs = "acked" /\ toStub' = <<>> \o e
         \/ hs = "reply" /\ toStub' = <<>> \o <<Minus>>
  BY DEF Timeout, Repeat, Send, stubVars, hostVars, input, target, Typed, PacketOf, TextOf
<1>2. e \in Seq(Char) /\ Ends(e, 1, next) /\ Clean(e, 2) /\ <<>> \o e = e
  BY <1>1, EndsPacket, ConcatEmptySeq
<1>3. GotWell /\ Len(got) = next - 1 /\ shown \in Seq(Seq(Char)) /\ Among(shown, next) /\ (Settled \/ Awaited)
  BY <1>1 DEF Steady
<1>4. (Settled \/ Awaited)' => Steady'
  <2>1. GotWell'
    BY <1>1, <1>3 DEF GotWell
  <2> QED BY <1>1, <1>3, <2>1 DEF Steady
<1>5. <<>> \in Seq(Char)
  OBVIOUS
<1>6. CASE hs = "reply"
  <2>1. Settled
    BY <1>3, <1>6 DEF Awaited
  <2>2. toStub' = toStub \o <<Minus>>
    BY <1>1, <1>6
  <2>3. Deaf(ts, toStub \o <<Minus>>)
    BY <1>1, <1>5, <2>1, Signs, HeardCat DEF Settled
  <2>4. Settled'
    BY <1>1, <2>1, <2>2, <2>3 DEF Settled, Done
  <2> QED BY <1>4, <2>4
<1>7. CASE hs = "acked"
  <2>1. toStub' = e
    BY <1>1, <1>2, <1>7
  <2> HIDE DEF e
  <2>2. None(toHost, "ack") /\ None(toHost, "nak")
    <3>1. Len(toHost) = 0
      BY <1>1
    <3> QED BY <3>1 DEF None
  <2>3. \A t : Ahead(t, e, next)
    <3>1. \A t : Deaf(t, <<>>)
      <4>1. Len(<<>>) = 0
        OBVIOUS
      <4> QED BY <4>1 DEF Deaf
    <3>2. \A t : Ahead(t, <<>> \o e, next)
      BY <1>1, <1>2, <1>5, <3>1, EndsCat
    <3> QED BY <1>2, <3>2
  <2>4. Single(e, next)
    <3>1. \A k \in 2 .. Len(e) : e[k] # Dollar
      BY <1>2 DEF Clean
    <3> QED BY <3>1 DEF Single
  <2>5. Coming' => Awaited'
    <3>1. Done(next - 1) \/ (Done(next) /\ (ts = "ack" => Owed(packets, next)))
      BY <1>3 DEF Settled, Awaited
    <3> QED BY <1>1, <1>7, <2>2, <3>1 DEF Awaited, Done
  <2>6. CASE ts \in {"hunt", "ack"}
    <3>1. Coming'
      BY <1>1, <2>1, <2>3, <2>6 DEF Coming
    <3> QED BY <1>4, <2>5, <3>1
  <2>7. CASE ts \notin {"hunt", "ack"}
    <3>1. Coming
      BY <1>3, <2>7 DEF Settled, Awaited
    <3>2. \A i : ~ Begins(<<>>, next, i)
      BY <1>1, <1>5, BeginsTail
    <3>3. Len(<<>>) = 0
      OBVIOUS
    <3>4. CASE ts = "data"
      <4>1. count \in 0 .. BUFMAX - 1 /\ count \in Nat
        <5>1. count \in 0 .. BUFMAX /\ count < BUFMAX /\ BUFMAX \in Nat
          BY <3>4, Constants DEF Typed
        <5> QED BY <5>1
      <4>2. ~ Doomed(<<>>, count, checksum)
        BY <1>5, <4>1, DoomedNext
      <4>3. Merging
        BY <1>1, <3>1, <3>2, <3>4, <4>2 DEF Coming, Reading
      <4>4. PICK z \in LostHash : MergingAt(<<>>, count, checksum, next, z)
        BY <1>1, <4>3 DEF Merging
      <4>5. Doomed(e, count, checksum)
        BY <1>1, <4>1, <4>4, MergingEnds DEF e
      <4>6. Reading(e, next, count, checksum, buffer)
        BY <2>4, <4>5 DEF Reading
      <4>7. Coming'
        BY <1>1, <2>1, <3>4, <4>6 DEF Coming
      <4> QED BY <1>4, <2>5, <4>7
    <3>5. CASE ts = "sum1"
      <4>1. HasText(next, count, checksum, buffer)
        BY <1>1, <3>1, <3>2, <3>3, <3>5 DEF Coming, Checking
      <4>2. Checking(e, next, count, checksum, buffer)
        BY <1>2, <4>1 DEF Checking
      <4>3. Coming'
        BY <1>1, <2>1, <3>5, <4>2 DEF Coming
      <4> QED BY <1>4, <2>5, <4>3
    <3>6. CASE ts = "sum2"
      <4>1. HasText(next, count, checksum, buffer)
        BY <1>1, <3>1, <3>2, <3>3, <3>6 DEF Coming, Deciding
      <4>2. Deciding(e, next, count, checksum, buffer, high)
        BY <1>2, <4>1 DEF Deciding
      <4>3. Coming'
        BY <1>1, <2>1, <3>6, <4>2 DEF Coming
      <4> QED BY <1>4, <2>5, <4>3
    <3> QED BY <2>7, <3>4, <3>5, <3>6 DEF Typed
  <2> QED BY <2>6, <2>7
<1> QED BY <1>1, <1>6, <1>7

\* Without an error so far: what the host has, and what it awaits.
LEMMA RightKnows ==
  ASSUME Typed, Exchange, Right
  PROVE  /\ GotWell
         /\ hs # "done" => Len(got) = next - 1 /\ shown \in Seq(Seq(Char)) /\ Among(shown, next)
<1>1. next \in 1 .. Len(Requests) /\ packets \in Seq(Seq(Char))
  BY DEF Typed
<1>2. GotRight
  BY DEF Right
<1>3. GotWell
  <2>1. \A i : Among(Printed(i), i)
    BY DEF Among
  <2> QED BY <1>2, <2>1 DEF GotRight, GotWell
<1>4. CASE Asking
  <2>1. Len(got) = next - 1 /\ shown = <<>>
    BY <1>4 DEF Right
  <2>2. Len(shown) = 0 /\ shown \in Seq(Seq(Char))
    BY <2>1
  <2>3. Among(shown, next)
    BY <2>2 DEF Among
  <2> QED BY <1>3, <2>1, <2>2, <2>3
<1>5. CASE Answering
  <2>1. Len(got) = next - 1 /\ \E p : SentUpTo(p)
    BY <1>5 DEF Right
  <2>2. PICK p : SentUpTo(p)
    BY <2>1
  <2>3. PICK l : AsExpected(next, Expected(next), l)
    BY <1>1, ExpectedIs
  <2>4. l \in Nat /\ Len(Printed(next)) = l /\ p \in Nat /\ p + Len(packets) = l + 1
    BY <2>2, <2>3 DEF AsExpected, SentUpTo
  <2>5. ts = "ack" /\ packets # <<>>
    BY <1>5 DEF Answering, Typed
  <2>6. PICK n \in Nat \ {0} : n = Len(packets)
    BY <1>1, <2>5, HeadOff
  <2>7. toStub # <<>> => n # 1
    BY <1>5, <2>6 DEF Answering
  <2>8. PICK k : Shows(k) /\ k = IF toStub = <<>> THEN p ELSE p + 1
    BY <2>2 DEF SentUpTo
  <2>9. k \in 0 .. l
    BY <2>4, <2>6, <2>7, <2>8
  <2>10. shown \in Seq(Seq(Char)) /\ Len(shown) = k /\ \A i \in 1 .. k : shown[i] = Printed(next)[i] /\ i \in 1 .. l
    BY <2>4, <2>8, <2>9 DEF Shows
  <2>11. Among(shown, next)
    BY <2>4, <2>10 DEF Among
  <2> QED BY <1>3, <2>1, <2>10, <2>11
<1>6. CASE Over
  BY <1>3, <1>6 DEF Over
<1> QED BY <1>4, <1>5, <1>6 DEF Exchange

\* No $, or one that nothing can be taken for the beginning of a packet behind.
LEMMA CleanIs ==
  ASSUME NEW s, NEW t, NEW j
  PROVE  /\ Clean(s, 1) => Ahead(t, s, j)
         /\ Clean(s, 2) => Single(s, j) /\ Deaf("ack", s)
<1>1. Clean(s, 1) => Ahead(t, s, j)
  BY DEF Clean, Ahead, Heard
<1>2. Clean(s, 2) => Single(s, j)
  BY DEF Clean, Single
<1>3. ASSUME Clean(s, 2), NEW k \in 1 .. Len(s), Heard("ack", s, k)
      PROVE  FALSE
  <2>1. s[k] = Dollar /\ \E i \in 1 .. k - 1 : s[i] = Plus
    BY <1>3 DEF Heard
  <2>2. k \in 2 .. Len(s)
    BY <2>1
  <2> QED BY <1>3, <2>1, <2>2 DEF Clean
<1> QED BY <1>1, <1>2, <1>3 DEF Deaf

\* An error in front of what has no $ further on.
LEMMA ErrorLeaves ==
  ASSUME NEW s \in Seq(Char), s # <<>>, Clean(s, 2)
  PROVE  /\ Clean(Tail(s), 1) /\ Clean(Tail(s), 2)
         /\ \A u, c : Garbles(s, u, c, Char) => Clean(u, 2) /\ (c # Dollar => Clean(u, 1))
<1>1. Clean(Tail(s), 1) /\ Clean(Tail(s), 2)
  <2> DEFINE r == Tail(s)
  <2>1. 1 \in Nat \ {0} /\ 2 \in Nat \ {0} /\ 1 + 1 = 2
    OBVIOUS
  <2>2. Clean(r, 1)
    BY <2>1, LineTail
  <2>3. r \in Seq(Char)
    BY HeadOff
  <2> HIDE DEF r
  <2>4. Clean(r, 2)
    <3>1. \A k \in 2 .. Len(r) : k \in 1 .. Len(r)
      BY <2>3
    <3> QED BY <2>2, <3>1 DEF Clean
  <2> QED BY <2>2, <2>4 DEF r
<1>2. ASSUME NEW u, NEW c, Garbles(s, u, c, Char)
      PROVE  Clean(u, 2) /\ (c # Dollar => Clean(u, 1))
  <2>1. Len(u) = Len(s) /\ u[1] = c /\ (\A k \in 2 .. Len(s) : u[k] = s[k]) /\ Len(s) \in Nat
    BY <1>2 DEF Garbles
  <2>2. Clean(u, 2)
    BY <2>1 DEF Clean
  <2>3. \A k \in 1 .. Len(u) : k = 1 \/ k \in 2 .. Len(u)
    BY <2>1
  <2> QED BY <2>1, <2>2, <2>3 DEF Clean
<1> QED BY <1>1, <1>2

\* The + before a packet becomes something else.
LEMMA AheadGarbled ==
  ASSUME NEW j \in 1 .. Len(Requests), NEW s, NEW u, NEW c, Garbles(s, u, c, Char), s[1] = Plus, Ahead("ack", s, j)
  PROVE  Ahead("ack", u, j)
<1> DEFINE e == PacketOf(j)
<1>1. Len(u) = Len(s) /\ (\A k \in 2 .. Len(s) : u[k] = s[k]) /\ Len(s) \in Nat
  BY DEF Garbles
<1>2. PICK m \in Nat : m = Len(e)
  BY PacketParts
<1>3. ASSUME NEW k \in 1 .. Len(u), Heard("ack", u, k)
      PROVE  StartsAt(u, k, j) /\ Quiet(u, k + Len(e))
  <2>1. u[k] = Dollar /\ \E i \in 1 .. k - 1 : u[i] = Plus
    BY <1>3 DEF Heard
  <2>2. k \in 2 .. Len(s) /\ 1 \in 1 .. k - 1
    BY <1>1, <2>1
  <2>3. Heard("ack", s, k)
    BY <1>1, <2>1, <2>2 DEF Heard
  <2>4. StartsAt(s, k, j) /\ Quiet(s, k + m)
    BY <1>1, <1>2, <2>2, <2>3 DEF Ahead
  <2>5. k + m - 1 <= Len(s) /\ \A i \in 1 .. m : s[k + i - 1] = e[i]
    BY <1>2, <2>4 DEF StartsAt
  <2>6. \A i \in 1 .. m : k + i - 1 \in 2 .. Len(s)
    BY <1>1, <2>2, <2>5
  <2> HIDE DEF e
  <2>7. k + m - 1 <= Len(u) /\ \A i \in 1 .. m : u[k + i - 1] = e[i]
    BY <1>1, <2>5, <2>6
  <2>8. StartsAt(u, k, j)
    BY <1>2, <2>7 DEF StartsAt, e
  <2>9. \A i \in k + m .. Len(s) : i \in 2 .. Len(s)
    BY <1>1, <2>2
  <2>10. \A i \in k + m .. Len(s) : \A q \in k + m .. i - 1 : q \in 2 .. Len(s)
    BY <1>1, <2>2
  <2>11. Quiet(u, k + m)
    BY <1>1, <2>4, <2>9, <2>10 DEF Quiet
  <2> QED BY <1>2, <2>8, <2>11
<1> QED BY <1>3 DEF Ahead

\* The host awaits that the stub takes its command: nothing else is on its way.
LEMMA AskingIs ==
  ASSUME Typed, Asking, Right
  PROVE  /\ next \in 1 .. Len(Requests) /\ toStub \in Seq(Char) /\ toStub # <<>>
         /\ hs = "acked" /\ toHost = <<>> /\ None(toHost, "ack") /\ None(toHost, "nak") /\ Done(next - 1)
         /\ ts = "ack" => toStub[1] = Plus /\ Ends(toStub, 2, next) /\ Ahead("ack", toStub, next)
         /\ ts = "hunt" => toStub[1] = Dollar /\ Ends(toStub, 1, next) /\ Clean(toStub, 2)
         /\ ts = "data" => /\ Collected(next, count, checksum, buffer) /\ From(toStub, next, count + 2)
                           /\ Begins(toStub, next, count + 2)
         /\ ts = "sum1" => HasText(next, count, checksum, buffer) /\ Begins(toStub, next, count + 3) /\ Len(toStub) = 2
         /\ ts = "sum2" => HasText(next, count, checksum, buffer) /\ Begins(toStub, next, count + 4) /\ Len(toStub) = 1
                           /\ high = Hex(PacketOf(next)[count + 3])
         /\ ts \in {"data", "sum1", "sum2"} => Clean(toStub, 1) /\ Clean(toStub, 2)
<1>1. next \in 1 .. Len(Requests) /\ toStub \in Seq(Char) /\ hs = "acked" /\ toHost = <<>> /\ AskingAt
  BY DEF Typed, Asking
<1>2. toStub # <<>>
  BY AskingGoes
<1>3. mem = MemoryAfter[next - 1] /\ sigval = SignalAfter[next - 1]
  BY DEF Right
<1>4. None(toHost, "ack") /\ None(toHost, "nak")
  <2>1. Len(toHost) = 0
    BY <1>1
  <2> QED BY <2>1 DEF None
<1>5. ASSUME ts = "ack" PROVE toStub[1] = Plus /\ Ends(toStub, 2, next) /\ Ahead("ack", toStub, next)
  <2>1. toStub = <<Plus>> \o PacketOf(next)
    BY <1>1, <1>5 DEF AskingAt
  <2>2. Ends(toStub, 2, next)
    BY <1>1, <2>1, Signs, EndsPacket
  <2>3. toStub[1] = Plus
    <3>1. <<Plus>> \in Seq(Char) /\ Len(<<Plus>>) = 1 /\ <<Plus>>[1] = Plus /\ PacketOf(next) \in Seq(Char)
      BY <1>1, Signs, EndsPacket
    <3> DEFINE p == <<Plus>>
               e == PacketOf(next)
    <3>2. Joins(p \o e, p, e, Char)
      BY <3>1, Cat
    <3>3. Len(p) = 1 /\ p[1] = Plus
      BY <3>1
    <3> HIDE DEF p, e
    <3>4. (p \o e)[1] = Plus
      BY <3>2, <3>3 DEF Joins
    <3> QED BY <2>1, <3>4 DEF p, e
  <2>4. Ahead("ack", <<>> \o toStub, next)
    <3>1. Len(<<>>) = 0 /\ <<>> \in Seq(Char)
      OBVIOUS
    <3>2. Deaf("ack", <<>>)
      BY <3>1 DEF Deaf
    <3> QED BY <1>1, <2>2, <3>1, <3>2, EndsCat
  <2> QED BY <1>1, <2>2, <2>3, <2>4, ConcatEmptySeq
<1>6. ASSUME ts = "hunt" PROVE toStub[1] = Dollar /\ Ends(toStub, 1, next) /\ Clean(toStub, 2)
  <2>1. From(toStub, next, 1)
    BY <1>1, <1>6 DEF AskingAt
  <2>2. Ends(toStub, 1, next)
    BY <1>1, <2>1, FromClean
  <2>3. toStub[1] = PacketOf(next)[1]
    BY <1>1, <2>1, FromTail
  <2>4. \A k \in 2 .. Len(toStub) : k \in 1 .. Len(toStub) /\ k # 1
    BY <1>1
  <2>5. Clean(toStub, 2)
    BY <2>2, <2>4 DEF Ends, Clean
  <2> QED BY <1>1, <2>2, <2>3, <2>5, PacketParts
<1>7. ASSUME NEW i, i # 1, From(toStub, next, i) PROVE Clean(toStub, 1) /\ Clean(toStub, 2) /\ Begins(toStub, next, i)
  <2>1. Clean(toStub, 1)
    BY <1>1, <1>7, FromClean
  <2>2. \A k \in 2 .. Len(toStub) : k \in 1 .. Len(toStub)
    BY <1>1
  <2>3. Clean(toStub, 2)
    BY <2>1, <2>2 DEF Clean
  <2> QED BY <1>1, <1>7, <2>1, <2>3, BeginsFrom
<1>8. ASSUME ts = "data"
      PROVE  /\ Collected(next, count, checksum, buffer) /\ From(toStub, next, count + 2)
             /\ Begins(toStub, next, count + 2) /\ Clean(toStub, 1) /\ Clean(toStub, 2)
  <2>1. Collected(next, count, checksum, buffer) /\ From(toStub, next, count + 2)
    BY <1>1, <1>8 DEF AskingAt
  <2>2. count + 2 # 1
    BY Constants DEF Typed
  <2> QED BY <1>7, <2>1, <2>2
<1>9. ASSUME ts = "sum1"
      PROVE  /\ HasText(next, count, checksum, buffer) /\ Begins(toStub, next, count + 3) /\ Len(toStub) = 2
             /\ Clean(toStub, 1) /\ Clean(toStub, 2)
  <2>1. HasText(next, count, checksum, buffer) /\ From(toStub, next, count + 3)
    BY <1>1, <1>9 DEF AskingAt
  <2>2. PICK n \in Nat : n = count /\ Len(PacketOf(next)) = n + 4
    BY <1>1, <2>1, TextEnds
  <2>3. n + 3 # 1 /\ n + 4 - (n + 3) + 1 = 2
    BY <2>2
  <2>4. Len(toStub) = 2
    BY <2>1, <2>2, <2>3 DEF From
  <2> QED BY <1>7, <2>1, <2>2, <2>3, <2>4
<1>10. ASSUME ts = "sum2"
       PROVE  /\ HasText(next, count, checksum, buffer) /\ Begins(toStub, next, count + 4) /\ Len(toStub) = 1
              /\ high = Hex(PacketOf(next)[count + 3]) /\ Clean(toStub, 1) /\ Clean(toStub, 2)
  <2>1. HasText(next, count, checksum, buffer) /\ From(toStub, next, count + 4) /\ high = Hex(PacketOf(next)[count + 3])
    BY <1>1, <1>10 DEF AskingAt
  <2>2. PICK n \in Nat : n = count /\ Len(PacketOf(next)) = n + 4
    BY <1>1, <2>1, TextEnds
  <2>3. n + 4 # 1 /\ n + 4 - (n + 4) + 1 = 1
    BY <2>2
  <2>4. Len(toStub) = 1
    BY <2>1, <2>2, <2>3 DEF From
  <2> QED BY <1>7, <2>1, <2>2, <2>3, <2>4
<1> QED BY <1>1, <1>2, <1>3, <1>4, <1>5, <1>6, <1>8, <1>9, <1>10 DEF Done

\* An error on its way to the stub, which has yet to take the command.
LEMMA AskingLine ==
  ASSUME ErrorsShow, Typed, Typed', Asking, Right, LineError
  PROVE  Awaited'
<1> DEFINE l == Len(TextOf(next))
           r == Tail(toStub)
<1>1. /\ next \in 1 .. Len(Requests) /\ toStub \in Seq(Char) /\ toStub # <<>> /\ r \in Seq(Char)
      /\ hs = "acked" /\ toHost = <<>> /\ None(toHost, "ack") /\ None(toHost, "nak") /\ Done(next - 1)
  BY AskingIs, HeadOff
<1>2. /\ UNCHANGED <<ts, buffer, count, checksum, high, packets, mem, sigval, hs, next, toHost>>
      /\ toStub' = r \/ \E c \in Noise : Garbles(toStub, toStub', c, Char)
  BY <1>1, LineErrorIs DEF stubVars, hostVars, input, target
<1>3. SUFFICES Coming'
  BY <1>1, <1>2 DEF Awaited, Done
<1>4. ts \in {"hunt", "ack", "data", "sum1", "sum2"}
  BY DEF Typed
<1> HIDE DEF r
<1>5. CASE ts = "ack"
  <2>1. toStub[1] = Plus /\ Ahead("ack", toStub, next)
    BY <1>5, AskingIs
  <2>2. CASE toStub' = r
    <3>1. Ahead("ack", r, next)
      BY <1>1, <2>1, HeardTail DEF r
    <3> QED BY <1>2, <1>5, <2>2, <3>1 DEF Coming
  <2>3. CASE \E c \in Noise : Garbles(toStub, toStub', c, Char)
    <3>1. PICK c \in Noise : Garbles(toStub, toStub', c, Char)
      BY <2>3
    <3>2. PICK u : u = toStub'
      OBVIOUS
    <3>3. Ahead("ack", u, next)
      BY <1>1, <2>1, <3>1, <3>2, AheadGarbled
    <3> QED BY <1>2, <1>5, <3>2, <3>3 DEF Coming
  <2> QED BY <1>2, <2>2, <2>3
<1>6. CASE ts = "hunt"
  <2>1. toStub[1] = Dollar /\ Ends(toStub, 1, next) /\ Clean(toStub, 2)
    BY <1>6, AskingIs
  <2>2. PICK u : u = toStub'
    OBVIOUS
  <2>3. Ahead("hunt", u, next)
    <3>1. CASE u = r
      BY <1>1, <2>1, <3>1, ErrorLeaves, CleanIs DEF r
    <3>2. ASSUME NEW c \in Noise, Garbles(toStub, u, c, Char)
          PROVE  Ahead("hunt", u, next)
      <4>1. CASE c = Dollar
        <5>1. u = toStub
          BY <2>1, <3>2, <4>1, GarbledTail
        <5>2. Len(<<>>) = 0 /\ <<>> \in Seq(Char)
          OBVIOUS
        <5>3. Deaf("hunt", <<>>)
          BY <5>2 DEF Deaf
        <5>4. Ahead("hunt", <<>> \o toStub, next)
          BY <1>1, <2>1, <5>2, <5>3, EndsCat
        <5> QED BY <1>1, <5>1, <5>4, ConcatEmptySeq
      <4>2. CASE c # Dollar
        BY <1>1, <2>1, <3>2, <4>2, ErrorLeaves, CleanIs
      <4> QED BY <4>1, <4>2
    <3> QED BY <1>2, <2>2, <3>1, <3>2
  <2> QED BY <1>2, <1>6, <2>2, <2>3 DEF Coming
<1>7. CASE ts \in {"data", "sum1", "sum2"}
  <2>1. Clean(toStub, 2)
    BY <1>7, AskingIs
  <2>2. PICK u : u = toStub'
    OBVIOUS
  <2>3. Clean(u, 2) /\ Single(u, next)
    BY <1>1, <1>2, <2>1, <2>2, ErrorLeaves, CleanIs DEF r
  <2>4. CASE ts = "sum1"
    <3>1. HasText(next, count, checksum, buffer)
      BY <2>4, AskingIs
    <3>2. Checking(u, next, count, checksum, buffer)
      BY <2>3, <3>1 DEF Checking
    <3> QED BY <1>2, <2>2, <2>4, <3>2 DEF Coming
  <2>5. CASE ts = "sum2"
    <3>1. HasText(next, count, checksum, buffer)
      BY <2>5, AskingIs
    <3>2. Deciding(u, next, count, checksum, buffer, high)
      BY <2>3, <3>1 DEF Deciding
    <3> QED BY <1>2, <2>2, <2>5, <3>2 DEF Coming
  <2>6. CASE ts = "data"
    <3>1. /\ Collected(next, count, checksum, buffer) /\ From(toStub, next, count + 2)
          /\ Begins(toStub, next, count + 2)
      BY <2>6, AskingIs
    <3>2. count \in 0 .. l /\ checksum = Sums(TextOf(next))[count] /\ l \in Nat
      BY <1>1, <3>1, PacketParts DEF Collected
    <3> HIDE DEF l
    <3>3. SUFFICES \/ Doomed(u, count, checksum)
                   \/ \E z \in LostHash : MergingAt(u, count, checksum, next, z)
                   \/ Reading(u, next, count, checksum, buffer)
      BY <1>1, <1>2, <2>2, <2>3, <2>6 DEF Coming, Reading, Merging
    <3>4. CASE count = l
      <4>1. CASE u = r
        <5>1. MergingAt(r, count, checksum, next, <<>>)
          BY <1>1, <3>1, <3>2, <3>4, HashLost DEF l, r
        <5> QED BY <3>3, <4>1, <5>1 DEF LostHash
      <4>2. ASSUME NEW c \in Noise, Garbles(toStub, u, c, Char)
            PROVE  Doomed(u, count, checksum)
                   \/ (\E z \in LostHash : MergingAt(u, count, checksum, next, z))
                   \/ Reading(u, next, count, checksum, buffer)
        <5>1. CASE c = Hash
          <6>1. toStub[1] = Hash
            BY <1>1, <3>1, <3>4, HashLost DEF l
          <6>2. u = toStub
            BY <4>2, <5>1, <6>1, GarbledTail
          <6>3. Quiet(u, Len(PacketOf(next)) - count)
            <7>1. Len(PacketOf(next)) = l + 4
              BY <1>1, PacketParts DEF l
            <7>2. Len(PacketOf(next)) - count = 4
              BY <3>2, <3>4, <7>1
            <7>3. \A k \in 4 .. Len(u) : k \in 2 .. Len(u)
              BY <1>1, <6>2
            <7>4. Quiet(u, 4)
              BY <2>3, <7>3 DEF Quiet, Clean
            <7> QED BY <7>2, <7>4
          <6> QED BY <3>1, <6>2, <6>3 DEF Reading
        <5>2. CASE c # Hash
          <6>1. c \in Noise \ {Hash} /\ u \in Seq(Char)
            BY <4>2, <5>2, GarbledTail
          <6>2. MergingAt(u, count, checksum, next, <<c>>)
            BY <1>1, <3>1, <3>2, <3>4, <4>2, <6>1, HashLost DEF l
          <6> QED BY <6>1, <6>2 DEF LostHash
        <5> QED BY <5>1, <5>2
      <4> QED BY <1>2, <2>2, <4>1, <4>2
    <3>5. CASE count # l
      <4>1. count \in 0 .. l - 1 /\ count + 1 \in 1 .. l /\ (count + 1) + 1 = count + 2
        BY <3>2, <3>5
      <4>2. toStub[1] = TextOf(next)[count + 1]
        <5>1. PacketOf(next)[(count + 1) + 1] = TextOf(next)[count + 1]
          BY <1>1, <4>1, PacketParts DEF l
        <5>2. toStub[1] = PacketOf(next)[count + 2]
          BY <1>1, <3>1, BeginsTail
        <5> QED BY <4>1, <5>1, <5>2
      <4>3. CASE u = r
        <5>1. Doomed(r, count, checksum)
          BY <1>1, <3>1, <3>2, <4>1, TextLoss DEF l, r
        <5> QED BY <4>3, <5>1
      <4>4. ASSUME NEW c \in Noise, Garbles(toStub, u, c, Char)
            PROVE  Doomed(u, count, checksum) \/ Reading(u, next, count, checksum, buffer)
        <5>1. CASE c = toStub[1]
          <6>1. u = toStub
            BY <4>4, <5>1, GarbledTail
          <6>2. PICK m \in Nat : m = Len(PacketOf(next)) - count /\ m >= 2
            <7>1. Len(PacketOf(next)) = l + 4
              BY <1>1, PacketParts DEF l
            <7> QED BY <3>2, <4>1, <7>1
          <6>3. \A k \in m .. Len(u) : k \in 2 .. Len(u)
            BY <1>1, <6>1, <6>2
          <6>4. Quiet(u, m)
            BY <2>3, <6>3 DEF Quiet, Clean
          <6> QED BY <3>1, <6>1, <6>2, <6>4 DEF Reading
        <5>2. CASE c # toStub[1]
          <6>1. c # TextOf(next)[count + 1]
            BY <4>2, <5>2
          <6>2. Doomed(u, count, checksum)
            BY <1>1, <3>1, <3>2, <4>1, <4>4, <6>1, TextGarbled DEF l
          <6> QED BY <6>2
        <5> QED BY <5>1, <5>2
      <4> QED BY <1>2, <2>2, <4>3, <4>4
    <3> QED BY <3>4, <3>5
  <2> QED BY <1>7, <2>4, <2>5, <2>6
<1> QED BY <1>4, <1>5, <1>6, <1>7

\* A packet for the host is garbled.
LEMMA HostGarbled ==
  ASSUME NEW h, NEW u, NEW m, Garbles(h, u, m, Message), m.kind = "bad", NEW x, x # "bad", NEW j
  PROVE  /\ None(h, x) => None(u, x)
         /\ AtMostOne(h, x) => AtMostOne(u, x)
         /\ AllAnswer(h, j) => AllAnswer(u, j)
         /\ ThenAnswer(h, j) => ThenAnswer(u, j)
<1>1. Len(u) = Len(h) /\ u[1] = m /\ (\A k \in 2 .. Len(h) : u[k] = h[k]) /\ Len(h) \in Nat
  BY DEF Garbles
<1>2. \A k \in 1 .. Len(u) : k \in 1 .. Len(h) /\ (u[k].kind = "bad" \/ (k \in 2 .. Len(h) /\ u[k] = h[k]))
  <2>1. \A k \in 1 .. Len(u) : k \in 1 .. Len(h) /\ (k = 1 \/ k \in 2 .. Len(h))
    BY <1>1
  <2> QED BY <1>1, <2>1
<1>3. None(h, x) => None(u, x)
  BY <1>2 DEF None
<1>4. AtMostOne(h, x) => AtMostOne(u, x)
  BY <1>2 DEF AtMostOne
<1>5. AllAnswer(h, j) => AllAnswer(u, j)
  BY <1>2 DEF AllAnswer, Answer
<1>6. ASSUME ThenAnswer(h, j), NEW i \in 1 .. Len(u), NEW k \in 1 .. Len(u), k < i, u[k].kind = "ack"
      PROVE  Answer(u[i], j)
  <2>1. k \in 1 .. Len(h) /\ i \in 1 .. Len(h) /\ u[k] = h[k]
    BY <1>2, <1>6
  <2>2. u[i].kind = "bad" \/ u[i] = h[i]
    BY <1>2
  <2>3. Answer(h[i], j)
    BY <1>6, <2>1 DEF ThenAnswer
  <2> QED BY <2>2, <2>3 DEF Answer
<1> QED BY <1>3, <1>4, <1>5, <1>6 DEF ThenAnswer

\* The stub answers: the host has a packet before it, or the + of the last one is on its way.
LEMMA AnsweringIs ==
  ASSUME Typed, Answering, Right
  PROVE  /\ ts = "ack" /\ Len(toStub) \in 0 .. 1 /\ Settled
         /\ hs = "acked" => toStub = <<>>
<1>1. /\ ts = "ack" /\ next \in 1 .. Len(Requests) /\ packets \in Seq(Seq(Char)) /\ packets # <<>>
      /\ toStub \in Seq(Char)
  BY DEF Typed, Answering
<1>2. mem = MemoryAfter[next] /\ sigval = SignalAfter[next] /\ \E p : SentUpTo(p)
  BY DEF Right
<1>3. PICK p : SentUpTo(p)
  BY <1>2
<1>4. PICK q : q = Head(packets) /\ q = packets[1] /\ q \in Seq(Char)
  BY <1>1, HeadOff
<1>5. PICK n \in Nat \ {0} : n = Len(packets)
  BY <1>1, HeadOff
<1>6. PICK w \in Nat : w = Len(Expected(next)) /\ p \in Nat /\ p + n = w /\ \A i \in 1 .. n : packets[i] = Expected(next)[p + i]
  <2>1. p \in Nat /\ p + n = Len(Expected(next)) /\ \A i \in 1 .. n : packets[i] = Expected(next)[p + i]
    BY <1>3, <1>5 DEF SentUpTo
  <2> QED BY <2>1
<1>7. \A i \in 1 .. n : p + i \in 1 .. w
  BY <1>6
<1>8. Owed(packets, next)
  BY <1>5, <1>6, <1>7 DEF Owed
<1>9. \E k \in 1 .. Len(Expected(next)) : q = Expected(next)[k]
  <2>1. 1 \in 1 .. n
    OBVIOUS
  <2> QED BY <1>4, <1>6, <1>7, <2>1
<1>10. Len(toStub) \in 0 .. 1
  <2>1. Len(<<>>) = 0 /\ Len(<<Plus>>) = 1
    OBVIOUS
  <2> QED BY <2>1 DEF Answering
<1>11. Deaf(ts, toStub)
  <2>0. \A m \in 0 .. 1 : \A k \in 2 .. m : FALSE
    OBVIOUS
  <2>1. \A k \in 2 .. Len(toStub) : FALSE
    BY <1>10, <2>0
  <2>2. Clean(toStub, 2)
    BY <2>1 DEF Clean
  <2> QED BY <1>1, <2>2, CleanIs
<1>12. /\ None(toHost, "nak")
       /\ \/ hs = "reply" /\ None(toHost, "ack") /\ AllAnswer(toHost, next)
          \/ hs = "acked" /\ AtMostOne(toHost, "ack") /\ ThenAnswer(toHost, next)
  <2>1. CASE hs = "acked" /\ toHost = <<Ack, Sent(q)>>
    <3>1. Ack \in Message /\ Sent(q) \in Message
      BY <1>4, MessagesTyped
    <3> DEFINE a == <<Ack>> \o <<Sent(q)>>
    <3>2. a = <<Ack, Sent(q)>>
      <4>1. <<>> \o a = <<Ack, Sent(q)>>
        BY <3>1, TwoAre
      <4>2. a \in Seq(Message)
        BY <1>1, <1>4, Saying
      <4> QED BY <4>1, <4>2, ConcatEmptySeq
    <3>3. None(a, "nak") /\ AtMostOne(a, "ack") /\ AllAnswer(a, next)
      BY <1>1, <1>4, <1>9, Saying
    <3> HIDE DEF a
    <3>4. ThenAnswer(a, next)
      BY <3>3 DEF AllAnswer, ThenAnswer
    <3> QED BY <2>1, <3>2, <3>3, <3>4
  <2>2. CASE hs = "reply" /\ toHost = <<Sent(q)>>
    <3> DEFINE a == <<Sent(q)>>
    <3>1. None(a, "nak") /\ None(a, "ack") /\ AllAnswer(a, next)
      BY <1>1, <1>4, <1>9, Saying
    <3> QED BY <2>2, <3>1
  <2>3. CASE hs = "reply" /\ toHost = <<>>
    <3>1. Len(toHost) = 0
      BY <2>3
    <3> QED BY <2>3, <3>1 DEF None, AllAnswer
  <2> QED BY <1>4, <2>1, <2>2, <2>3 DEF Answering
<1>13. Settled
  BY <1>1, <1>2, <1>8, <1>11, <1>12 DEF Settled, Done
<1> QED BY <1>1, <1>10, <1>13 DEF Answering

\* An error while the stub answers.
LEMMA AnsweringLine ==
  ASSUME Typed, Answering, Right, LineError
  PROVE  Settled'
<1>1. toStub \in Seq(Char) /\ toHost \in Seq(Message) /\ ts = "ack" /\ Len(toStub) \in 0 .. 1 /\ Settled
  BY AnsweringIs DEF Typed
<1>2. UNCHANGED <<ts, packets, mem, sigval, hs, next>>
  BY LineErrorIs DEF stubVars, hostVars, target
<1>3. PICK s, h : s = toStub' /\ h = toHost'
  OBVIOUS
<1>4. SUFFICES /\ Deaf("ack", s) /\ None(h, "nak")
               /\ \/ hs = "reply" /\ None(h, "ack") /\ AllAnswer(h, next)
                  \/ hs = "acked" /\ AtMostOne(h, "ack") /\ ThenAnswer(h, next)
  BY <1>1, <1>2, <1>3 DEF Settled, Done
<1>5. Deaf("ack", toStub) /\ None(toHost, "nak")
  BY <1>1 DEF Settled
<1>6. \/ hs = "reply" /\ None(toHost, "ack") /\ AllAnswer(toHost, next)
      \/ hs = "acked" /\ AtMostOne(toHost, "ack") /\ ThenAnswer(toHost, next)
  BY <1>1 DEF Settled
<1>7. \/ h = toHost /\ Len(s) \in 0 .. 1
      \/ s = toStub /\ toHost # <<>> /\ h = Tail(toHost)
      \/ s = toStub /\ \E m \in Message : m.kind = "bad" /\ Garbles(toHost, h, m, Message)
  <2>1. CASE toStub # <<>> /\ s = Tail(toStub) /\ h = toHost
    <3>1. PICK n \in 0 .. 1 : n = Len(toStub) /\ n # 0 /\ Len(Tail(toStub)) = n - 1
      BY <1>1, <2>1, HeadOff
    <3>2. n - 1 \in 0 .. 1
      BY <3>1
    <3> QED BY <2>1, <3>1, <3>2
  <2>2. CASE h = toHost /\ \E n \in Noise : Garbles(toStub, s, n, Char)
    <3>1. Len(s) = Len(toStub)
      BY <2>2 DEF Garbles
    <3> QED BY <1>1, <2>2, <3>1
  <2> QED BY <1>3, <2>1, <2>2, LineErrorIs
<1>8. CASE h = toHost /\ Len(s) \in 0 .. 1
  <2>0. \A m \in 0 .. 1 : \A k \in 2 .. m : FALSE
    OBVIOUS
  <2>1. \A k \in 2 .. Len(s) : FALSE
    BY <1>8, <2>0
  <2>2. Clean(s, 2)
    BY <2>1 DEF Clean
  <2> QED BY <1>5, <1>6, <1>8, <2>2, CleanIs
<1>9. CASE s = toStub /\ toHost # <<>> /\ h = Tail(toHost)
  BY <1>1, <1>5, <1>6, <1>9, HearsOne
<1>10. CASE s = toStub /\ \E m \in Message : m.kind = "bad" /\ Garbles(toHost, h, m, Message)
  <2>1. "ack" # "bad" /\ "nak" # "bad"
    OBVIOUS
  <2> QED BY <1>5, <1>6, <1>10, <2>1, HostGarbled
<1> QED BY <1>7, <1>8, <1>9, <1>10

\* What the line does at the first error.
LEMMA SteadyLine ==
  ASSUME ErrorsShow, Typed, Typed', Exchange, Right, LineError
  PROVE  Steady'
<1>1. UNCHANGED <<hs, next, got, shown>>
  BY LineErrorIs DEF hostVars
<1>2. GotWell'
  BY <1>1, RightKnows DEF GotWell
<1>3. hs # "done" => (Settled \/ Awaited)'
  BY AskingLine, AnsweringLine DEF Exchange, Over
<1>4. hs # "done" => Len(got) = next - 1 /\ shown \in Seq(Seq(Char)) /\ Among(shown, next)
  BY RightKnows
<1> QED BY <1>1, <1>2, <1>3, <1>4 DEF Steady

\* The host is too early, for the first time.
LEMMA SteadyEarly ==
  ASSUME Typed, Exchange, Right, Repeat
  PROVE  Steady'
<1> DEFINE e == PacketOf(next)
<1>1. /\ next \in 1 .. Len(Requests) /\ toStub \in Seq(Char)
      /\ UNCHANGED <<ts, buffer, count, checksum, high, packets, mem, sigval, hs, next, got, shown, toHost>>
      /\ \/ hs = "acked" /\ toStub' = toStub \o e
         \/ hs = "reply" /\ toStub' = toStub \o <<Minus>>
  BY DEF Repeat, Send, stubVars, hostVars, input, target, Typed, PacketOf, TextOf
<1>2. e \in Seq(Char) /\ Ends(e, 1, next) /\ Clean(e, 2) /\ <<>> \o e = e
  BY <1>1, EndsPacket, ConcatEmptySeq
<1>3. PICK s : s = toStub'
  OBVIOUS
<1>4. (Settled \/ Awaited)' => Steady'
  <2>1. GotWell /\ (hs # "done" => Len(got) = next - 1 /\ shown \in Seq(Seq(Char)) /\ Among(shown, next))
    BY RightKnows
  <2>2. GotWell'
    BY <1>1, <2>1 DEF GotWell
  <2> QED BY <1>1, <2>1, <2>2 DEF Steady
<1> HIDE DEF e
<1>5. CASE Answering
  <2>1. ts = "ack" /\ Settled /\ (hs = "acked" => toStub = <<>>)
    BY <1>5, AnsweringIs
  <2>2. Deaf("ack", s)
    <3>1. CASE hs = "acked"
      <4>1. s = e
        BY <1>1, <1>2, <1>3, <2>1, <3>1
      <4> QED BY <1>2, <4>1, CleanIs
    <3>2. CASE hs = "reply"
      <4>1. s = toStub \o <<Minus>>
        BY <1>1, <1>3, <3>2
      <4> QED BY <1>1, <2>1, <4>1, Signs, HeardCat DEF Settled
    <3> QED BY <1>1, <3>1, <3>2
  <2>3. Settled'
    BY <1>1, <1>3, <2>1, <2>2 DEF Settled, Done
  <2> QED BY <1>4, <2>3
<1>6. CASE Asking
  <2>1. hs = "acked" /\ None(toHost, "ack") /\ None(toHost, "nak") /\ Done(next - 1)
    BY <1>6, AskingIs
  <2>2. s = toStub \o e
    BY <1>1, <1>3, <2>1
  <2>3. Quiet(s, Len(toStub) + 1)
    BY <1>1, <1>2, <2>2, EndsCat
  <2>4. \A i : Begins(toStub, next, i) => Begins(s, next, i)
    BY <1>1, <1>2, <2>2, BeginsCat
  <2>5. ts \in {"hunt", "ack", "data", "sum1", "sum2"}
    BY DEF Typed
  <2>6. ASSUME ts \in {"hunt", "ack"} PROVE Coming'
    <3>1. \E c : Ends(toStub, c, next)
      BY <1>6, <2>6, AskingIs
    <3>2. Ahead(ts, s, next)
      BY <1>1, <1>2, <2>2, <3>1, EndsCat
    <3> QED BY <1>1, <1>3, <2>6, <3>2 DEF Coming
  <2>7. ASSUME ts = "data" PROVE Coming'
    <3>1. /\ Collected(next, count, checksum, buffer) /\ From(toStub, next, count + 2)
          /\ Begins(toStub, next, count + 2)
      BY <1>6, <2>7, AskingIs
    <3>2. Len(PacketOf(next)) \in Nat /\ count \in Nat
      BY <1>1, <1>2, Constants DEF Typed, e
    <3>3. Len(toStub) = Len(PacketOf(next)) - (count + 2) + 1
      BY <3>1 DEF From
    <3>4. Len(toStub) + 1 = Len(PacketOf(next)) - count
      BY <3>2, <3>3
    <3>5. Reading(s, next, count, checksum, buffer)
      BY <2>3, <2>4, <3>1, <3>4 DEF Reading
    <3> QED BY <1>1, <1>3, <2>7, <3>5 DEF Coming
  <2>8. ASSUME ts = "sum1" PROVE Coming'
    <3>1. HasText(next, count, checksum, buffer) /\ Begins(toStub, next, count + 3) /\ Len(toStub) = 2
      BY <1>6, <2>8, AskingIs
    <3>2. Len(toStub) + 1 = 3
      BY <3>1
    <3>3. Checking(s, next, count, checksum, buffer)
      BY <2>3, <2>4, <3>1, <3>2 DEF Checking
    <3> QED BY <1>1, <1>3, <2>8, <3>3 DEF Coming
  <2>9. ASSUME ts = "sum2" PROVE Coming'
    <3>1. /\ HasText(next, count, checksum, buffer) /\ Begins(toStub, next, count + 4) /\ Len(toStub) = 1
          /\ high = Hex(PacketOf(next)[count + 3])
      BY <1>6, <2>9, AskingIs
    <3>2. Len(toStub) + 1 = 2
      BY <3>1
    <3>3. Deciding(s, next, count, checksum, buffer, high)
      BY <2>3, <2>4, <3>1, <3>2 DEF Deciding
    <3> QED BY <1>1, <1>3, <2>9, <3>3 DEF Coming
  <2>10. Coming'
    BY <2>5, <2>6, <2>7, <2>8, <2>9
  <2>11. Awaited'
    BY <1>1, <2>1, <2>10 DEF Awaited, Done
  <2> QED BY <1>4, <2>11
<1> QED BY <1>1, <1>5, <1>6 DEF Exchange, Over

LEMMA SteadyHolds ==
  ASSUME ErrorsShow, Typed, errors = 0 => Exchange /\ Right, errors = 1 => Steady, [Next]_vars
  PROVE  (errors = 1 => Steady)'
<1>1. Typed' /\ errors \in Nat
  BY TypedHolds DEF Typed
<1>2. SUFFICES ASSUME errors' = 1 PROVE Steady'
  OBVIOUS
<1>3. CASE GetChar
  <2>1. errors = 1
    BY <1>2, <1>3 DEF GetChar
  <2> QED BY <1>1, <1>3, <2>1, SteadyChar
<1>4. CASE HostReads
  <2>1. errors = 1
    BY <1>2, <1>4 DEF HostReads
  <2> QED BY <1>4, <2>1, SteadyHost
<1>5. CASE Timeout
  <2>1. errors = 1
    BY <1>2, <1>5 DEF Timeout
  <2> QED BY <1>5, <2>1, SteadyTimeout
<1>6. CASE LineError \/ EarlyTimeout
  <2>1. errors' = errors + 1
    BY <1>6 DEF LineError, EarlyTimeout, Fails
  <2>2. Exchange /\ Right
    BY <1>1, <1>2, <2>1
  <2>3. CASE LineError
    BY <1>1, <2>2, <2>3, SteadyLine
  <2>4. CASE EarlyTimeout
    <3>1. Repeat
      BY <2>4 DEF EarlyTimeout
    <3> QED BY <2>2, <3>1, SteadyEarly
  <2> QED BY <1>6, <2>3, <2>4
<1>7. CASE UNCHANGED vars
  <2>1. UNCHANGED <<ts, buffer, count, checksum, high, packets, mem, sigval, hs, next, got, shown, toStub, toHost, errors>>
    BY <1>7 DEF vars, stubVars, hostVars, input, target
  <2>2. GotWell' = GotWell /\ Settled' = Settled
    BY <2>1 DEF GotWell, Settled, Done
  <2>3. Coming' = Coming
    BY <2>1 DEF Coming, Merging
  <2>4. Awaited' = Awaited
    BY <2>1, <2>3 DEF Awaited, Done
  <2> QED BY <1>2, <2>1, <2>2, <2>4 DEF Steady
<1> QED BY <1>3, <1>4, <1>5, <1>6, <1>7 DEF Next

----------------------------------------------------------------------------
(* With one error the stub runs nothing the host has not sent *)

Sent1(r, p) == \A i \in 1 .. Len(r) : \E j \in 1 .. p : r[i] = TextOf(j)

\* What was run was sent, and what is left on the line for a stub whose host has its last
\* reply is not taken for a packet.
Obedient == Sent1(ran, next) /\ (hs = "done" => ts \in {"hunt", "ack"} /\ Deaf(ts, toStub))

\* The host goes on.
LEMMA SentStays ==
  ASSUME Typed, Typed', Sent1(ran, next), ran' = ran, next' \in {next, next + 1}
  PROVE  Sent1(ran', next')
<1>1. next \in Nat /\ next' \in Nat /\ next' \in {next, next + 1}
  BY Constants DEF Typed
<1>2. \A n \in Nat : 1 .. n \subseteq 1 .. n /\ 1 .. n \subseteq 1 .. n + 1
  OBVIOUS
<1>3. 1 .. next \subseteq 1 .. next'
  BY <1>1, <1>2
<1> QED BY <1>3 DEF Sent1

\* A command that is run was sent: the text is whole where its checksum is right.
LEMMA SentRuns ==
  ASSUME ErrorsShow, Typed, Typed', GetChar, Sent1(ran, next), ts \notin {"hunt", "ack"} => Awaited
  PROVE  Sent1(ran', next')
<1> DEFINE c == Head(toStub)
<1>1. next \in 1 .. Len(Requests) /\ toStub \in Seq(Char) /\ buffer \in Buffer /\ next' = next /\ toStub # <<>>
  BY DEF Typed, GetChar, hostVars
<1>2. c = toStub[1]
  BY <1>1, HeadOff
<1>3. Hunt(c) \/ Resend(c) \/ Data(c) \/ Sum1(c) \/ Sum2(c)
  BY DEF GetChar
<1> HIDE DEF c
<1>4. ran' = ran => Sent1(ran', next')
  BY <1>1, SentStays
<1>5. CASE Hunt(c) \/ Resend(c) \/ Sum1(c)
  BY <1>4, <1>5 DEF Hunt, Resend, Acknowledged, Sum1, target
<1>6. CASE Data(c)
  <2>1. ts = "data"
    BY <1>6 DEF Data
  <2> QED BY <1>4, <2>1, SteadyData
<1>7. CASE Sum2(c) /\ ~ SumRight(c)
  BY <1>4, <1>7 DEF Sum2, Refuse, target
<1>8. CASE Sum2(c) /\ SumRight(c)
  <2>1. ts = "sum2" /\ Take(<<Ack>>)
    BY <1>8 DEF Sum2
  <2>2. Deciding(toStub, next, count, checksum, buffer, high)
    BY <2>1 DEF Awaited, Coming
  <2>3. HasText(next, count, checksum, buffer)
    BY <1>2, <1>8, <2>2 DEF Deciding, SumRight
  <2>4. ~ Numbered(buffer) /\ Unnumbered(buffer) = buffer /\ [i \in 1 .. count |-> buffer[i - 1]] = TextOf(next)
    BY <1>1, <2>3, TakenText
  <2>5. ran' = Append(ran, TextOf(next))
    BY <2>1, <2>4 DEF Take, Run
  <2>6. ran \in Seq(Seq(Char)) /\ TextOf(next) \in Seq(Char)
    BY <1>1, PacketParts DEF Typed
  <2>7. /\ Len(ran') = Len(ran) + 1 /\ Len(ran) \in Nat /\ ran'[Len(ran) + 1] = TextOf(next)
        /\ \A i \in 1 .. Len(ran) : ran'[i] = ran[i]
    BY <2>5, <2>6, AppendProperties, LenProperties
  <2>8. \A i \in 1 .. Len(ran') : i \in 1 .. Len(ran) \/ i = Len(ran) + 1
    BY <2>7
  <2>9. next \in 1 .. next
    BY <1>1, Constants
  <2> QED BY <1>1, <2>7, <2>8, <2>9 DEF Sent1
<1> QED BY <1>3, <1>5, <1>6, <1>7, <1>8

LEMMA ObedientChar ==
  ASSUME ErrorsShow, Typed, Typed', GetChar, Steady, Obedient
  PROVE  Obedient'
<1>1. next \in 1 .. Len(Requests) /\ toStub \in Seq(Char) /\ toStub # <<>> /\ toStub' = Tail(toStub) /\ UNCHANGED <<hs, next>>
  BY DEF Typed, GetChar, hostVars
<1>2. ts \notin {"hunt", "ack"} => Awaited
  BY DEF Steady, Obedient, Settled
<1>3. Sent1(ran', next')
  BY <1>2, SentRuns DEF Obedient
<1>4. ASSUME hs = "done" PROVE ts' \in {"hunt", "ack"} /\ Deaf(ts', Tail(toStub))
  <2>1. ts \in {"hunt", "ack"} /\ Deaf(ts, toStub)
    BY <1>4 DEF Obedient
  <2>2. CASE ts = "hunt"
    <3>1. 1 \in 1 .. Len(toStub) /\ Head(toStub) = toStub[1]
      <4>1. Len(toStub) \in Nat \ {0} /\ Head(toStub) = toStub[1]
        BY <1>1, HeadOff
      <4> QED BY <4>1
    <3>2. Head(toStub) # Dollar
      BY <2>1, <2>2, <3>1 DEF Deaf, Heard
    <3>3. ts' = "hunt"
      BY <2>2, <3>2 DEF GetChar, Hunt, Data, Sum1, Sum2, Resend
    <3> QED BY <1>1, <2>1, <2>2, <3>3, HeardTail
  <2>3. CASE ts = "ack"
    <3>1. ts' \in {"hunt", "ack"} /\ (ts' = ts \/ toStub[1] = Plus)
      BY <2>3, ResendIs
    <3> QED BY <1>1, <2>1, <2>3, <3>1, HeardTail
  <2> QED BY <2>1, <2>2, <2>3
<1> QED BY <1>1, <1>3, <1>4 DEF Obedient

LEMMA ObedientHost ==
  ASSUME Typed, Typed', HostReads, Steady, Obedient
  PROVE  Obedient'
<1> DEFINE m == Head(toHost)
<1>1. /\ next \in 1 .. Len(Requests) /\ toStub \in Seq(Char) /\ UNCHANGED <<ts, ran>>
      /\ (AwaitAck(m) \/ AwaitReply(m) \/ Idle(m))
  BY DEF Typed, HostReads, stubVars, target
<1> HIDE DEF m
<1>2. /\ next' \in {next, next + 1}
      /\ hs' = "done" => hs # "acked" /\ (toStub' = toStub \/ \E c \in {Plus, Minus} : toStub' = toStub \o <<c>>)
  BY <1>1 DEF AwaitAck, AwaitReply, Idle, Send, hostVars
<1>3. Sent1(ran', next')
  BY <1>1, <1>2, SentStays DEF Obedient
<1>4. ASSUME hs' = "done" PROVE ts \in {"hunt", "ack"} /\ Deaf(ts, toStub')
  <2>1. ts \in {"hunt", "ack"} /\ Deaf(ts, toStub)
    <3>1. hs = "done" \/ Settled
      BY <1>2, <1>4 DEF Steady, Awaited
    <3> QED BY <3>1 DEF Settled, Obedient
  <2>2. \A c \in {Plus, Minus} : Deaf(ts, toStub \o <<c>>)
    BY <1>1, <2>1, Signs, HeardCat
  <2> QED BY <1>2, <1>4, <2>1, <2>2
<1> QED BY <1>1, <1>3, <1>4 DEF Obedient

\* Until the first error.
LEMMA ObedientInTurn ==
  ASSUME Typed, Exchange
  PROVE  Sent1(ran, next)
<1>1. InTurn /\ Len(ran) \in {next - 1, next} /\ next \in Nat
  BY Constants DEF Exchange, Asking, Answering, Over, Typed
<1>2. \A n \in Nat : 1 .. n \subseteq 1 .. n /\ 1 .. (n - 1) \subseteq 1 .. n
  OBVIOUS
<1>3. 1 .. Len(ran) \subseteq 1 .. next
  BY <1>1, <1>2
<1> QED BY <1>1, <1>3 DEF InTurn, Sent1

LEMMA ObedientLine ==
  ASSUME Typed, Typed', Exchange, LineError \/ Repeat
  PROVE  Obedient'
<1>1. UNCHANGED <<ts, ran, hs, next>> /\ (Repeat => hs # "done")
  BY LineErrorIs DEF Repeat, stubVars, hostVars, target
<1>2. Sent1(ran', next')
  BY <1>1, ObedientInTurn, SentStays
<1>3. ASSUME hs = "done" PROVE ts \in {"hunt", "ack"} /\ Deaf(ts, toStub')
  <2>1. LineError /\ toStub \in Seq(Char) /\ ((ts = "ack" /\ toStub = <<Plus>>) \/ (ts = "hunt" /\ toStub = <<>>))
    BY <1>1, <1>3 DEF Exchange, Asking, Answering, Over, Typed
  <2>2. PICK s : s = toStub'
    OBVIOUS
  <2>3. \/ toStub # <<>> /\ s = Tail(toStub)
        \/ toStub # <<>> /\ \E n \in Noise : Garbles(toStub, s, n, Char)
        \/ s = toStub
    BY <2>1, <2>2, LineErrorIs
  <2>4. CASE ts = "hunt" /\ toStub = <<>>
    <3>1. s = <<>> /\ Len(<<>>) = 0
      BY <2>3, <2>4
    <3> QED BY <2>2, <2>4, <3>1 DEF Deaf
  <2>5. CASE ts = "ack" /\ toStub = <<Plus>>
    <3>1. Len(toStub) = 1
      BY <2>5
    <3>2. Len(s) \in 0 .. 1
      <4>1. toStub # <<>> => Len(Tail(toStub)) = 0
        <5>1. toStub # <<>> => Len(Tail(toStub)) = Len(toStub) - 1
          BY <2>1, HeadOff
        <5> QED BY <3>1, <5>1
      <4>2. \A n : Garbles(toStub, s, n, Char) => Len(s) = Len(toStub)
        BY DEF Garbles
      <4>3. Len(s) = 0 \/ Len(s) = 1
        <5>1. CASE toStub # <<>> /\ s = Tail(toStub)
          BY <4>1, <5>1
        <5>2. CASE \E n \in Noise : Garbles(toStub, s, n, Char)
          BY <3>1, <4>2, <5>2
        <5>3. CASE s = toStub
          BY <3>1, <5>3
        <5> QED BY <2>3, <5>1, <5>2, <5>3
      <4> QED BY <4>3
    <3>3. \A m \in 0 .. 1 : \A k \in 2 .. m : FALSE
      OBVIOUS
    <3>4. Clean(s, 2)
      BY <3>2, <3>3 DEF Clean
    <3> QED BY <2>2, <2>5, <3>4, CleanIs
  <2> QED BY <2>1, <2>4, <2>5
<1> QED BY <1>1, <1>2, <1>3 DEF Obedient

LEMMA ObedientHolds ==
  ASSUME ErrorsShow, Typed, errors = 0 => Exchange, errors = 1 => Steady /\ Obedient, [Next]_vars
  PROVE  (errors = 1 => Obedient)'
<1>1. Typed' /\ errors \in Nat
  BY TypedHolds DEF Typed
<1>2. SUFFICES ASSUME errors' = 1 PROVE Obedient'
  OBVIOUS
<1>3. CASE GetChar \/ HostReads \/ Timeout
  <2>1. errors = 1
    BY <1>2, <1>3 DEF GetChar, HostReads, Timeout
  <2>2. CASE Timeout
    <3>1. UNCHANGED <<ran, hs, next>> /\ hs # "done"
      BY <2>2 DEF Timeout, Repeat, stubVars, hostVars, target
    <3> QED BY <1>1, <2>1, <3>1, SentStays DEF Obedient
  <2> QED BY <1>1, <1>3, <2>1, <2>2, ObedientChar, ObedientHost
<1>4. CASE LineError \/ EarlyTimeout
  <2>1. errors' = errors + 1
    BY <1>4 DEF LineError, EarlyTimeout, Fails
  <2>2. Exchange
    BY <1>1, <1>2, <2>1
  <2> QED BY <1>1, <1>4, <2>2, ObedientLine DEF EarlyTimeout
<1>5. CASE UNCHANGED vars
  <2>1. UNCHANGED <<ts, ran, hs, next, toStub, errors>>
    BY <1>5 DEF vars, stubVars, hostVars, target
  <2> QED BY <1>2, <2>1 DEF Obedient
<1> QED BY <1>3, <1>4, <1>5 DEF Next

\* What is so of the two ends and the line between them up to the first error, and after one.
OneError ==
  /\ Typed
  /\ errors = 0 => Exchange /\ Right
  /\ errors = 1 => Steady /\ Obedient

LEMMA OneErrorHolds == ErrorsShow => (Spec => []OneError)
<1> SUFFICES ASSUME ErrorsShow PROVE Spec => []OneError
  OBVIOUS
<1>1. Init => OneError
  <2>1. Init => errors = 0
    BY DEF Init
  <2> QED BY <2>1, TypedStarts, ExchangeStarts, RightStarts DEF OneError
<1>2. OneError /\ [Next]_vars => OneError'
  BY TypedHolds, RightHolds, SteadyHolds, ObedientHolds DEF OneError
<1> QED BY <1>1, <1>2, PTL DEF Spec

\* What the checksum of a packet and the host's repeating are for: a lost or a garbled
\* character, whichever it is, a lost packet or a host that is too early does not make the
\* stub run anything the host has not sent, where errors show in the checksum at all.
THEOREM OnlyWhatWasSent == ErrorsShow => (Spec => []RunsWhatWasSent)
<1> SUFFICES ASSUME ErrorsShow PROVE Spec => []RunsWhatWasSent
  OBVIOUS
<1>1. OneError => RunsWhatWasSent
  <2> SUFFICES ASSUME OneError, errors <= 1 PROVE Sent1(ran, next)
    BY DEF RunsWhatWasSent, Sent1, TextOf
  <2>1. errors = 0 \/ errors = 1
    BY DEF OneError, Typed
  <2> QED BY <2>1, ObedientInTurn DEF OneError, Obedient
<1> QED BY <1>1, OneErrorHolds, PTL

\* One error, wherever it is: a character or a packet lost or garbled, or the command sent
\* again too early.  The host still takes for the reply to each request the reply to that
\* one, and shows nothing but what the program prints; without an error it shows all of it.
\* At each moment either an acknowledgement of the command was heard or is coming, and then
\* the stub will take nothing on the line for a packet and what comes behind it answers that
\* command; or none is coming, and then the stub gets the command (again), which it carries
\* out with the same outcome if it had carried it out before.
THEOREM RepliesHold == ErrorsShow => (Spec => []RepliesMatch)
<1> SUFFICES ASSUME ErrorsShow PROVE Spec => []RepliesMatch
  OBVIOUS
<1>1. OneError => RepliesMatch
  <2> SUFFICES ASSUME OneError, errors <= 1, NEW i \in 1 .. Len(got)
               PROVE  /\ got[i].reply = Due(i) /\ Among(got[i].output, i)
                      /\ errors = 0 => got[i].output = Printed(i)
    BY DEF RepliesMatch, Among
  <2>1. errors = 0 \/ errors = 1
    BY DEF OneError, Typed
  <2>2. CASE errors = 0
    <3>1. GotRight /\ GotWell
      BY <2>2, RightKnows DEF OneError, Right
    <3> QED BY <3>1 DEF GotRight, GotWell
  <2>3. CASE errors = 1
    <3>1. GotWell
      BY <2>3 DEF OneError, Steady
    <3> QED BY <2>3, <3>1 DEF GotWell
  <2> QED BY <2>1, <2>2, <2>3
<1> QED BY <1>1, OneErrorHolds, PTL
=============================================================================
