------------------------------ MODULE SciProofs ------------------------------
(***************************************************************************)
(* Proofs about Sci: characters are read once and in order, and sent once  *)
(* and in order, whatever the sizes of the FIFOs and wherever characters   *)
(* come and go between the driver's accesses.                              *)
(***************************************************************************)
EXTENDS Sci, TLAPS, SequenceTheorems

Types ==
  /\ port \in {"SCI", "SCIF"}
  /\ rdr \in Seq(Char) /\ tdr \in Seq(Nat)
  /\ then \in {"ready", "idle"}
  /\ come \in Char /\ sent \in Nat /\ got \in Char /\ put \in Nat

\* Between a character is read and its flag is cleared.
Clearing == pc \in {"status", "clear"}

\* What is in the register or the FIFO is newer than what was read, and the oldest is
\* first; while RD_F is set there is something, but while it is to be cleared.
Reading ==
  /\ got <= come /\ \A k \in 1 .. Len(rdr) : rdr[k] <= come
  /\ port = "SCIF" =>
       /\ \A k \in 1 .. Len(rdr) : got < rdr[k]
       /\ \A j, k \in 1 .. Len(rdr) : j < k => rdr[j] < rdr[k]
  /\ rdf /\ ~Clearing => rdr # <<>> /\ got < rdr[1]

\* What came and was not read is to be read, or was dropped: what is in the SCI's register
\* while RD_F is clear has been read, or was damaged.
Kept ==
  /\ \A c \in Char : got < c /\ c <= come => c \in dropped \/ \E k \in 1 .. Len(rdr) : rdr[k] = c
  /\ port = "SCI" =>
       /\ Len(rdr) <= 1
       /\ Clearing => \A k \in 1 .. Len(rdr) : rdr[k] <= got
       /\ ~rdf => \A k \in 1 .. Len(rdr) : rdr[k] <= got \/ rdr[k] \in dropped

\* What the driver has seen of RD_F still holds: only the driver clears it.
SeenStillSet ==
  /\ status.rd_f /\ (pc = "ready" \/ (pc \in {"error", "overrun"} /\ then = "ready")) => rdf
  /\ pc = "read" \/ Clearing => rdf

\* What waits to be sent is what was put and not sent; TD_E says that there is room.
Sending ==
  /\ Len(tdr) = put - sent /\ \A k \in 1 .. Len(tdr) : tdr[k] = sent + k
  /\ port = "SCI" => Len(tdr) <= 1
  /\ tde /\ pc # "sent" => Len(tdr) <= (IF port = "SCI" THEN 0 ELSE TRIGGER)

Inv == Types /\ Reading /\ Kept /\ SeenStillSet /\ Sending

LEMMA Constants ==
  /\ FIFO \in Nat \ {0} /\ TRIGGER \in 0 .. FIFO - 1 /\ MaxChars \in Nat
  BY SciConstantsOK

LEMMA CharIs == ASSUME NEW c \in Char PROVE c \in Nat
  BY Constants DEF Char

\* A character that comes is kept by the port or dropped.
LEMMA ComesKept ==
  ASSUME Inv, CharComes
  PROVE  Kept'
<1>1. come \in Nat /\ come' = come + 1 /\ got \in Nat /\ got' = got /\ port' = port /\ pc' = pc
  BY Constants DEF Inv, Types, CharComes, Char
<1>2. dropped \subseteq dropped' /\ (dropped' = dropped \/ come' \in dropped')
  BY DEF CharComes
<1>3. /\ rdr \in Seq(Char) /\ Len(rdr) \in Nat
      /\ \A k \in 1 .. Len(rdr) : rdr[k] \in Nat
  <2>1. rdr \in Seq(Char)
    BY DEF Inv, Types
  <2> QED
    BY <2>1, LenProperties, ElementOfSeq, CharIs
<1>4. \A c \in Char : c <= come' => c = come' \/ c <= come
  BY <1>1, CharIs
<1>5. CASE rdr' = rdr /\ rdf' = rdf /\ come' \in dropped'
  BY <1>1, <1>2, <1>3, <1>4, <1>5 DEF Inv, Kept, Clearing
<1>6. CASE port = "SCI" /\ ~rdf /\ rdr' = <<come'>> /\ (rdf' \/ come' \in dropped')
  <2>1. ~Clearing
    BY <1>6 DEF Inv, SeenStillSet
  <2>2. Len(rdr') = 1 /\ 1 \in 1 .. Len(rdr') /\ rdr'[1] = come' /\ \A k \in 1 .. Len(rdr') : k = 1
    BY <1>6
  <2>3. ASSUME NEW c \in Char, got < c, c <= come' PROVE c \in dropped' \/ rdr'[1] = c
    <3>1. CASE c = come'
      BY <2>2, <3>1
    <3>2. CASE c <= come
      <4>1. c \in dropped \/ \E k \in 1 .. Len(rdr) : rdr[k] = c
        BY <2>3, <3>2 DEF Inv, Kept
      <4>2. \A k \in 1 .. Len(rdr) : rdr[k] = c => c \in dropped
        BY <1>1, <1>3, <1>6, <2>3, CharIs DEF Inv, Kept
      <4> QED
        BY <1>2, <4>1, <4>2
    <3> QED
      BY <1>4, <2>3, <3>1, <3>2
  <2> QED
    BY <1>1, <1>6, <2>1, <2>2, <2>3 DEF Kept, Clearing
<1>7. CASE port = "SCIF" /\ rdr' = Append(rdr, come')
  <2>1. /\ Len(rdr') = Len(rdr) + 1 /\ rdr'[Len(rdr) + 1] = come'
        /\ \A k \in 1 .. Len(rdr) : rdr'[k] = rdr[k]
    BY <1>3, <1>7, AppendProperties DEF CharComes, Inv, Types, Char
  <2>2. /\ Len(rdr) + 1 \in 1 .. Len(rdr')
        /\ \A k \in 1 .. Len(rdr) : k \in 1 .. Len(rdr')
    BY <1>3, <2>1
  <2> QED
    BY <1>1, <1>2, <1>4, <1>7, <2>1, <2>2 DEF Inv, Kept
<1> QED
  BY <1>5, <1>6, <1>7 DEF CharComes, Inv, Types

\* A character comes.
LEMMA ComesInOrder ==
  ASSUME Inv, CharComes
  PROVE  Inv'
<1>1. come \in Nat /\ come' = come + 1 /\ come' \in Char /\ got \in Nat
  BY Constants DEF Inv, Types, CharComes, Char
<1>2. /\ UNCHANGED <<port, pc, then, count, status, got, tdr, tde, sent, put>>
      /\ rdf => rdf'
  BY DEF CharComes, out, Inv, Types
<1>6. Kept'
  BY ComesKept
<1> USE <1>6 DEF Clearing
<1>3. CASE rdr' = rdr /\ rdf' = rdf
  <2>1. Reading'
    <3>1. \A k \in 1 .. Len(rdr) : rdr[k] \in Nat
      BY CharIs, ElementOfSeq DEF Inv, Types
    <3> QED
      BY <1>1, <1>2, <1>3, <3>1 DEF Inv, Reading
  <2> QED
    BY <1>1, <1>2, <1>3, <2>1 DEF Inv, Types, SeenStillSet, Sending
<1>4. CASE port = "SCI" /\ ~rdf /\ rdr' = <<come'>>
  <2>1. rdr' \in Seq(Char) /\ Len(rdr') = 1 /\ rdr'[1] = come' /\ rdr' # <<>>
    BY <1>1, <1>4
  <2>2. Reading'
    BY <1>1, <1>2, <1>4, <2>1 DEF Inv, Reading
  <2> QED
    BY <1>1, <1>2, <2>1, <2>2 DEF Inv, Types, SeenStillSet, Sending
<1>5. CASE port = "SCIF" /\ rdr' = Append(rdr, come')
  <2>1. /\ rdr' \in Seq(Char) /\ Len(rdr') = Len(rdr) + 1 /\ rdr'[Len(rdr) + 1] = come'
        /\ \A k \in 1 .. Len(rdr) : rdr'[k] = rdr[k] /\ rdr[k] \in Nat
        /\ Len(rdr) \in Nat
    <3>1. rdr \in Seq(Char)
      BY DEF Inv, Types
    <3>2. \A k \in 1 .. Len(rdr) : rdr[k] \in Nat
      BY <3>1, CharIs, ElementOfSeq
    <3> QED
      BY <1>1, <1>5, <3>1, <3>2, AppendProperties, LenProperties
  <2>2. \A k \in 1 .. Len(rdr') : got < rdr'[k] /\ rdr'[k] <= come'
    <3> TAKE k \in 1 .. Len(rdr')
    <3>1. CASE k = Len(rdr) + 1
      BY <1>1, <2>1, <3>1 DEF Inv, Reading
    <3>2. CASE k \in 1 .. Len(rdr)
      BY <1>1, <1>5, <2>1, <3>2 DEF Inv, Reading
    <3> QED
      BY <2>1, <3>1, <3>2
  <2>3. \A j, k \in 1 .. Len(rdr') : j < k => rdr'[j] < rdr'[k]
    <3> SUFFICES ASSUME NEW j \in 1 .. Len(rdr'), NEW k \in 1 .. Len(rdr'), j < k
                 PROVE  rdr'[j] < rdr'[k]
      OBVIOUS
    <3>1. j \in 1 .. Len(rdr)
      BY <2>1
    <3>2. CASE k = Len(rdr) + 1
      BY <1>1, <2>1, <3>1, <3>2 DEF Inv, Reading
    <3>3. CASE k \in 1 .. Len(rdr)
      BY <1>5, <2>1, <3>1, <3>3 DEF Inv, Reading
    <3> QED
      BY <2>1, <3>2, <3>3
  <2>4. rdr' # <<>> /\ 1 \in 1 .. Len(rdr')
    BY <2>1
  <2>5. Reading'
    BY <1>1, <1>2, <1>5, <2>2, <2>3, <2>4 DEF Inv, Reading
  <2> QED
    BY <1>1, <1>2, <2>1, <2>5 DEF Inv, Types, SeenStillSet, Sending
<1> QED
  BY <1>3, <1>4, <1>5 DEF CharComes, Inv, Types

\* A character is read: what follows it is newer, and what was between it and the one
\* read before it was dropped.
LEMMA ReadInOrder ==
  ASSUME Inv, ReadChar
  PROVE  /\ Inv' /\ rdr # <<>> /\ Head(rdr) > got
         /\ got + 1 .. Head(rdr) - 1 \subseteq dropped
<1> USE DEF Clearing
<1>1. rdf /\ rdr # <<>> /\ got < rdr[1] /\ pc = "read" /\ pc' = "status"
  BY DEF ReadChar, Inv, SeenStillSet, Reading
<1>2. /\ Head(rdr) = rdr[1] /\ Head(rdr) \in Char /\ Len(rdr) \in Nat /\ Len(rdr) >= 1
      /\ \A k \in 1 .. Len(rdr) : rdr[k] \in Nat
  BY <1>1, LenProperties, EmptySeq, ElementOfSeq, CharIs DEF Inv, Types
<1>3. /\ UNCHANGED <<port, rdf, come, dropped, tdr, tde, sent, put, then, status>>
      /\ got' = rdr[1] /\ rdr' = IF port = "SCI" THEN rdr ELSE Tail(rdr)
  BY <1>1, <1>2 DEF ReadChar, out
<1>6. got \in Nat /\ \A c \in Char : c \in Nat
  BY CharIs DEF Inv, Types
<1>4. ASSUME port = "SCI" PROVE Inv'
  <2>1. Reading'
    BY <1>1, <1>2, <1>3, <1>4 DEF Inv, Reading
  <2>3. Len(rdr) = 1 /\ \A k \in 1 .. Len(rdr) : k = 1
    BY <1>2, <1>4 DEF Inv, Kept
  <2>5. ASSUME NEW c \in Char, rdr[1] < c, c <= come PROVE c \in dropped
    <3>1. got < c /\ \A k \in 1 .. Len(rdr) : rdr[k] # c
      BY <1>1, <1>2, <1>6, <2>3, <2>5
    <3> QED
      BY <2>5, <3>1 DEF Inv, Kept
  <2>6. rdf /\ rdr[1] <= rdr[1] /\ port' = "SCI" /\ rdr' = rdr /\ got' = rdr[1]
    BY <1>1, <1>2, <1>3, <1>4
  <2>7. \A k \in 1 .. Len(rdr') : rdr'[k] <= got'
    BY <2>3, <2>6
  <2>8. \A c \in Char : got' < c /\ c <= come' => c \in dropped'
    BY <1>3, <2>5, <2>6
  <2>9. Len(rdr') <= 1
    BY <2>3, <2>6
  <2>4. Kept'
    BY <2>7, <2>8, <2>9 DEF Kept
  <2>2. Types' /\ SeenStillSet' /\ Sending' /\ Kept'
    BY <1>1, <1>2, <1>3, <1>4, <2>4 DEF Inv, Types, SeenStillSet, Sending
  <2> QED
    BY <1>1, <1>2, <2>1, <2>2 DEF Inv
<1>5. ASSUME port = "SCIF" PROVE Inv'
  <2>1. /\ rdr' \in Seq(Char) /\ Len(rdr') = Len(rdr) - 1
        /\ \A k \in 1 .. Len(rdr') : rdr'[k] = rdr[k + 1]
    BY <1>1, <1>3, <1>5, HeadTailProperties DEF Inv, Types
  <2>2. \A k \in 1 .. Len(rdr') : k + 1 \in 1 .. Len(rdr) /\ 1 \in 1 .. Len(rdr) /\ 1 < k + 1
    BY <1>2, <2>1
  <2>3. \A j, k \in 1 .. Len(rdr') : j < k => rdr'[j] < rdr'[k]
    <3> SUFFICES ASSUME NEW j \in 1 .. Len(rdr'), NEW k \in 1 .. Len(rdr'), j < k
                 PROVE  rdr'[j] < rdr'[k]
      OBVIOUS
    <3>1. j + 1 < k + 1
      BY <1>2, <2>1
    <3> QED
      BY <1>5, <2>1, <2>2, <3>1 DEF Inv, Reading
  <2>4. \A k \in 1 .. Len(rdr') : got' < rdr'[k] /\ rdr'[k] <= come'
    BY <1>3, <1>5, <2>1, <2>2 DEF Inv, Reading
  <2>5. got' <= come'
    BY <1>2, <1>3 DEF Inv, Reading
  <2>6. Reading'
    BY <1>1, <1>3, <1>5, <2>3, <2>4, <2>5 DEF Reading
  <2>8. Kept'
    <3> SUFFICES ASSUME NEW c \in Char, got' < c, c <= come'
                 PROVE  c \in dropped' \/ \E k \in 1 .. Len(rdr') : rdr'[k] = c
      BY <1>3, <1>5 DEF Kept
    <3>1. got < c /\ c <= come
      BY <1>1, <1>2, <1>3, <1>6
    <3>2. c \in dropped \/ \E k \in 1 .. Len(rdr) : rdr[k] = c
      BY <3>1 DEF Inv, Kept
    <3>3. ASSUME NEW k \in 1 .. Len(rdr), rdr[k] = c PROVE \E j \in 1 .. Len(rdr') : rdr'[j] = c
      <4>1. k # 1
        BY <1>2, <1>3, <1>6, <3>3
      <4>2. k - 1 \in 1 .. Len(rdr') /\ (k - 1) + 1 = k
        BY <1>2, <2>1, <4>1
      <4> QED
        BY <2>1, <3>3, <4>2
    <3> QED
      BY <1>3, <3>2, <3>3
  <2>7. Types' /\ SeenStillSet' /\ Sending' /\ Kept'
    BY <1>1, <1>2, <1>3, <2>1, <2>8 DEF Inv, Types, SeenStillSet, Sending
  <2> QED
    BY <1>1, <1>2, <2>6, <2>7 DEF Inv
<1>7. Head(rdr) > got
  BY <1>1, <1>2, <1>6
<1>8. ASSUME NEW c \in got + 1 .. Head(rdr) - 1 PROVE c \in dropped
  <2>1. rdr[1] <= come /\ come \in Nat /\ rdr[1] \in Nat /\ come \in Char
    BY <1>1, <1>2, CharIs DEF Inv, Types, Reading
  <2>2. c \in Char /\ got < c /\ c < rdr[1] /\ c <= come
    BY <1>2, <1>6, <2>1, Constants DEF Char
  <2>3. \A k \in 1 .. Len(rdr) : rdr[1] <= rdr[k]
    <3> TAKE k \in 1 .. Len(rdr)
    <3>1. CASE k = 1
      BY <2>1, <3>1
    <3>2. CASE k # 1 /\ port = "SCI"
      BY <1>2, <3>2 DEF Inv, Kept
    <3>3. CASE k # 1 /\ port = "SCIF"
      <4>1. 1 \in 1 .. Len(rdr) /\ 1 < k
        BY <1>2, <3>3
      <4> QED
        BY <1>2, <3>3, <4>1 DEF Inv, Reading
    <3> QED
      BY <3>1, <3>2, <3>3 DEF Inv, Types
  <2>4. \A k \in 1 .. Len(rdr) : rdr[k] # c
    BY <1>2, <2>1, <2>2, <2>3, CharIs
  <2> QED
    BY <2>2, <2>4 DEF Inv, Kept
<1> QED
  BY <1>1, <1>4, <1>5, <1>7, <1>8 DEF Inv, Types

\* The character sent is the next of those put.
LEMMA GoesInOrder ==
  ASSUME Inv, CharGoes
  PROVE  Inv' /\ sent' = sent + 1
<1>1. /\ tdr # <<>> /\ sent' = Head(tdr) /\ tdr' = Tail(tdr)
      /\ tde' = (port = "SCI" \/ Len(tdr') <= TRIGGER)
      /\ UNCHANGED <<port, rdr, rdf, come, dropped, put, pc, then, status, got>>
  BY DEF CharGoes, line
<1>2. /\ Head(tdr) = tdr[1] /\ Head(tdr) \in Nat /\ Len(tdr) \in Nat /\ Len(tdr) >= 1
      /\ tdr' \in Seq(Nat) /\ Len(tdr') = Len(tdr) - 1
      /\ \A k \in 1 .. Len(tdr') : tdr'[k] = tdr[k + 1]
  BY <1>1, LenProperties, EmptySeq, HeadTailProperties DEF Inv, Types
<1>3. sent \in Nat /\ put \in Nat
  BY DEF Inv, Types
<1>4. sent' = sent + 1
  BY <1>1, <1>2 DEF Inv, Sending
<1>5. Sending'
  <2>1. Len(tdr') = put' - sent'
    BY <1>1, <1>2, <1>3, <1>4 DEF Inv, Sending
  <2>2. ASSUME NEW k \in 1 .. Len(tdr') PROVE tdr'[k] = sent' + k
    <3>1. k + 1 \in 1 .. Len(tdr)
      BY <1>2
    <3>2. tdr'[k] = sent + (k + 1)
      BY <1>2, <3>1 DEF Inv, Sending
    <3> QED
      BY <1>2, <1>3, <1>4, <3>2
  <2>3. port' = "SCI" => Len(tdr') = 0
    BY <1>1, <1>2 DEF Inv, Sending
  <2>4. tde' => Len(tdr') <= (IF port' = "SCI" THEN 0 ELSE TRIGGER)
    <3>1. CASE port = "SCI"
      BY <1>1, <2>3, <3>1
    <3>2. CASE port = "SCIF"
      BY <1>1, <3>2
    <3> QED
      BY <3>1, <3>2 DEF Inv, Types
  <2> QED
    BY <2>1, <2>2, <2>3, <2>4 DEF Sending
<1> QED
  BY <1>1, <1>2, <1>4, <1>5 DEF Inv, Types, Reading, Kept, Clearing, SeenStillSet

\* There is room for the character put.
LEMMA WriteHasRoom ==
  ASSUME Inv, WriteChar
  PROVE  Inv'
<1>1. /\ pc = "put" /\ tde /\ pc' = "sent" /\ put' = put + 1
      /\ tdr' = IF Len(tdr) < Depth THEN Append(tdr, put') ELSE [tdr EXCEPT ![Len(tdr)] = put']
      /\ UNCHANGED <<port, rdr, rdf, come, dropped, tde, sent, then, status, got>>
  BY DEF WriteChar, line
<1>2. sent \in Nat /\ put \in Nat /\ Len(tdr) \in Nat
  BY LenProperties DEF Inv, Types
<1>3. Len(tdr) <= (IF port = "SCI" THEN 0 ELSE TRIGGER)
  BY <1>1 DEF Inv, Sending
<1>4. Len(tdr) < Depth
  BY <1>2, <1>3, Constants DEF Depth
<1>5. tdr' = Append(tdr, put')
  BY <1>1, <1>4
<1>6. /\ tdr' \in Seq(Nat) /\ Len(tdr') = Len(tdr) + 1 /\ tdr'[Len(tdr) + 1] = put'
      /\ \A k \in 1 .. Len(tdr) : tdr'[k] = tdr[k]
  <2>1. put' \in Nat
    BY <1>1, <1>2
  <2> QED
    BY <1>5, <2>1, AppendProperties DEF Inv, Types
<1>7. Len(tdr) = put - sent
  BY DEF Inv, Sending
<1>8. \A k \in 1 .. Len(tdr') : tdr'[k] = sent + k
  <2> TAKE k \in 1 .. Len(tdr')
  <2>1. CASE k = Len(tdr) + 1
    BY <1>1, <1>2, <1>6, <1>7, <2>1
  <2>2. CASE k \in 1 .. Len(tdr)
    BY <1>6, <2>2 DEF Inv, Sending
  <2> QED
    BY <1>2, <1>6, <2>1, <2>2
<1>9. Sending'
  <2>1. Len(tdr') = put' - sent'
    BY <1>1, <1>2, <1>6, <1>7
  <2>2. port' = "SCI" => Len(tdr') <= 1
    BY <1>1, <1>2, <1>3, <1>6
  <2> QED
    BY <1>1, <1>8, <2>1, <2>2 DEF Sending
<1> QED
  BY <1>1, <1>2, <1>6, <1>9 DEF Inv, Types, Reading, Kept, Clearing, SeenStillSet

\* The driver's other steps, which read and clear flags.
LEMMA FlagsInOrder ==
  ASSUME Inv,
         \/ HandleError \/ HandleOverrun \/ getDebugCharReady \/ Ready \/ ReadStatus
         \/ ClearReceived \/ ClearSent \/ Put \/ \E n \in {NoCount} \cup 0 .. COUNTS - 1 : Get(n)
  PROVE  Inv' /\ sent' = sent /\ pc # "read"
<1>1. CASE HandleError
  BY <1>1 DEF HandleError, out, Inv, Types, Reading, Kept, Clearing, SeenStillSet, Sending
<1>2. CASE HandleOverrun
  <2>1. pc = "overrun" /\ pc' = then /\ UNCHANGED <<port, rdr, rdf, come, dropped, out, then, status, got>>
    BY <1>2 DEF HandleOverrun
  <2> QED
    BY <2>1 DEF out, Inv, Types, Reading, Kept, Clearing, SeenStillSet, Sending
<1>3. CASE getDebugCharReady
  BY <1>3 DEF getDebugCharReady, line, out, Inv, Types, Reading, Kept, Clearing, SeenStillSet, Sending
<1>4. CASE Ready
  BY <1>4 DEF Ready, line, out, Inv, Types, Reading, Kept, Clearing, SeenStillSet, Sending
<1>5. CASE ClearReceived
  <2>1. /\ pc = "clear" /\ pc' = "error" /\ then' = "idle" /\ rdf' = (port = "SCIF" /\ rdr # <<>>)
        /\ UNCHANGED <<port, rdr, come, dropped, out, got>>
    BY <1>5 DEF ClearReceived
  <2>2. rdr # <<>> => 1 \in 1 .. Len(rdr)
    BY LenProperties, EmptySeq DEF Inv, Types
  <2>3. Reading'
    BY <2>1, <2>2 DEF Inv, Reading, Clearing
  <2>4. Kept'
    BY <2>1 DEF Inv, Kept, Clearing
  <2> QED
    BY <2>1, <2>3, <2>4 DEF out, Inv, Types, SeenStillSet, Sending, Clearing
<1>6. CASE ClearSent
  BY <1>6 DEF ClearSent, line, Inv, Types, Reading, Kept, Clearing, SeenStillSet, Sending
<1>7. CASE Put
  BY <1>7 DEF Put, line, out, Inv, Types, Reading, Kept, Clearing, SeenStillSet, Sending
<1>8. CASE \E n \in {NoCount} \cup 0 .. COUNTS - 1 : Get(n)
  <2>1. pc = "idle" /\ pc' = "poll" /\ UNCHANGED <<port, line, out, then, status, got>>
    BY <1>8 DEF Get
  <2> QED
    BY <2>1 DEF line, out, Inv, Types, Reading, Kept, Clearing, SeenStillSet, Sending
<1>9. CASE ReadStatus
  BY <1>9 DEF ReadStatus, line, out, Inv, Types, Reading, Kept, Clearing, SeenStillSet, Sending
<1> QED
  BY <1>9, <1>1, <1>2, <1>3, <1>4, <1>5, <1>6, <1>7, <1>8

LEMMA InvHolds == Spec => []Inv
<1>1. Init => Inv
  <2> SUFFICES ASSUME Init PROVE Inv
    OBVIOUS
  <2>1. Types /\ Len(rdr) = 0 /\ Len(tdr) = 0
    BY Constants, EmptySeq DEF Init, Types, Char
  <2> QED
    BY <2>1, Constants DEF Init, Inv, Reading, Kept, Clearing, Char, SeenStillSet, Sending
<1>2. Inv /\ [Next]_vars => Inv'
  <2>1. CASE UNCHANGED vars
    BY <2>1 DEF vars, line, out, Inv, Types, Reading, Kept, Clearing, SeenStillSet, Sending
  <2>2. CASE Next
    BY <2>2, ComesInOrder, ReadInOrder, GoesInOrder, WriteHasRoom, FlagsInOrder DEF Next, Driver
  <2> QED
    BY <2>1, <2>2
<1> QED
  BY <1>1, <1>2, PTL DEF Spec

\* Whatever is read is there and newer than what was read before, with nothing between the
\* two that the port had kept, and what is sent is the next of what was put.
THEOREM ReadAndSentInOrder == Spec => InOrder
<1> DEFINE Reads == pc = "read" /\ pc' # "read" =>
                      /\ rdr # <<>> /\ Head(rdr) > got
                      /\ got + 1 .. Head(rdr) - 1 \subseteq dropped
           Sends == sent' # sent => sent' = sent + 1
<1>1. ASSUME Inv, Next PROVE Reads /\ Sends
  <2>1. CASE CharComes
    BY <2>1 DEF CharComes, out
  <2>2. CASE CharGoes
    BY <1>1, <2>2, GoesInOrder DEF CharGoes
  <2>3. CASE ReadChar
    BY <1>1, <2>3, ReadInOrder DEF ReadChar, out
  <2>4. CASE WriteChar
    BY <2>4 DEF WriteChar
  <2> QED
    BY <1>1, <2>1, <2>2, <2>3, <2>4, FlagsInOrder DEF Next, Driver
<1>2. Inv /\ [Next]_vars => [Reads /\ Sends]_vars
  BY <1>1
<1> QED
  BY <1>2, InvHolds, PTL DEF Spec, InOrder
=============================================================================
