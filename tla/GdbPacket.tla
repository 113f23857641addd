----------------------------- MODULE GdbPacket -----------------------------
(***************************************************************************)
(* Packets on the serial line between gdb and the stub: getpacket and      *)
(* putpacket of sh-stub.c read and write characters, and gdb_handle_       *)
(* exception does what a packet asks for; the host, outside this           *)
(* repository, is what gdb does.  Characters are numbers (ASCII); the line *)
(* to the stub carries characters, the one to the host whole packets, and  *)
(* either may lose or garble.                                              *)
(***************************************************************************)
EXTENDS Integers, Sequences, SequencesExt

CONSTANTS
  BUFMAX, OUTBUFMAX,    \* sizes of the stub's buffers
  WORD,        \* range of an int: 2^32 in the code
  MEM,         \* bytes of memory there are; elsewhere is a bus error
  Requests,    \* what the host asks for, one after the other: m, M, X, c, s, ?
  Runs,        \* for c and s: what the program prints, and the vector it stops with
  Noise,       \* what a garbled character may become
  MaxErrors    \* bound: characters and packets lost, garbled or given up early

\* Bound: addresses and lengths of one digit.
ASSUME PacketConstantsOK ==
  /\ BUFMAX \in Nat \ {0} /\ OUTBUFMAX \in Nat
  /\ WORD \in Nat /\ WORD > 31 /\ MEM \in 1 .. WORD - 1
  /\ Requests # <<>>
  /\ Requests \in Seq([op : {"m", "M", "X", "c", "s", "?"}, addr : 0 .. 15, len : 0 .. 15, data : Seq(0 .. 255)])
  /\ Runs \in [{"c", "s"} -> [prints : Seq(Seq(0 .. 255)), stop : STRING]]
  /\ Noise \subseteq 0 .. 255
  /\ MaxErrors \in Nat

VARIABLES
  ts,           \* where getpacket is, or "ack": putpacket waits
  buffer, count,                \* remcomInBuffer with the place behind it, which getpacket
                                \* writes too (buffer[BUFMAX]), and characters in it
  checksum, high,
  packets,      \* what is sent for a request: this packet, and those to come
  mem, sigval,
  ran,          \* history: packets the stub has taken, in order
  hs, next,     \* the host: what it waits for, and which request it is at
  got,          \* what the host took for each request so far: output and reply
  shown,        \* the output it has shown since the last of them
  toStub, toHost,
  errors

input == <<buffer, count, checksum, high>>
target == <<packets, mem, sigval, ran>>
stubVars == <<ts, input, target>>
hostVars == <<hs, next, got, shown>>
vars == <<stubVars, hostVars, toStub, toHost, errors>>

Dollar == 36
Hash == 35
Plus == 43
Minus == 45
Star == 42
Escape == 125
Colon == 58
Comma == 44

HexDigit(d) == IF d < 10 THEN 48 + d ELSE 87 + d

\* hex(): the value of a digit, -1 for any other character.
Hex(c) ==
  IF c \in 48 .. 57 THEN c - 48
  ELSE IF c \in 97 .. 102 THEN c - 87
  ELSE IF c \in 65 .. 70 THEN c - 55
  ELSE -1

\* The checksums of a packet's characters so far.
Sums(s) == LET sum[i \in 0 .. Len(s)] == IF i = 0 THEN 0 ELSE (sum[i - 1] + s[i]) % 256 IN sum
Sum8(s) == Sums(s)[Len(s)]

Encoded(s) ==
  <<Dollar>> \o s \o <<Hash, HexDigit(Sum8(s) \div 16), HexDigit(Sum8(s) % 16)>>

\* How many characters of s from i on are the same: putpacket looks at 99.
RunLen(s, i) ==
  CHOOSE n \in 1 .. 99 :
    /\ \A k \in 1 .. n - 1 : i + k <= Len(s) /\ s[i + k] = s[i]
    /\ n = 99 \/ i + n > Len(s) \/ s[i + n] # s[i]

\* Run-length encoding: c, * and the length, from 4 on.
Rle(s) ==
  LET enc[i \in 1 .. Len(s) + 1] ==
        IF i > Len(s) THEN <<>>
        ELSE IF RunLen(s, i) > 3
          THEN <<s[i], Star, RunLen(s, i) + 28>> \o enc[i + RunLen(s, i)]
          ELSE <<s[i]>> \o enc[i + 1]
  IN enc[1]

\* What gdb makes of it: after a * comes the count, whatever character it is.
Unrle(r) ==
  LET dec[i \in 1 .. Len(r) + 1] ==
        IF i > Len(r) THEN <<>>
        ELSE IF i + 2 <= Len(r) /\ r[i + 1] = Star
          THEN [k \in 1 .. r[i + 2] - 28 |-> r[i]] \o dec[i + 3]
          ELSE <<r[i]>> \o dec[i + 1]
  IN dec[1]

(* Memory and text *)

mem2hex(bytes) ==
  [k \in 1 .. 2 * Len(bytes) |->
     IF k % 2 = 1 THEN HexDigit(bytes[(k + 1) \div 2] \div 16) ELSE HexDigit(bytes[k \div 2] % 16)]

\* What is behind the buffer is taken for 0.
At(b, i) == IF i <= BUFMAX THEN b[i] ELSE 0

\* hexToInt: where the number at p ends, and what it is.
NumberEnd(b, p) == CHOOSE q \in p .. BUFMAX : Hex(b[q]) = -1 /\ \A k \in p .. q - 1 : Hex(b[k]) # -1

hexToInt(b, p) ==
  LET v[q \in p .. NumberEnd(b, p)] == IF q = p THEN 0 ELSE (16 * v[q - 1] + Hex(b[q - 1])) % WORD
  IN v[NumberEnd(b, p)]

\* The two numbers of an m, M or X packet; the second one is signed, and counts bytes.
AddrEnd(b) == NumberEnd(b, 1)
LenEnd(b) == NumberEnd(b, AddrEnd(b) + 1)
TwoNumbers(b) == AddrEnd(b) > 1 /\ b[AddrEnd(b)] = Comma /\ LenEnd(b) > AddrEnd(b) + 1
Addr(b) == hexToInt(b, 1)
Length(b) == LET n == hexToInt(b, AddrEnd(b) + 1) IN IF n < WORD \div 2 THEN n ELSE 0

\* The byte i of the data at p.
hex2mem(b, p, i) == (16 * Hex(At(b, p + 2 * i)) + Hex(At(b, p + 2 * i + 1))) % 256

Toggled(c) == IF (c \div 32) % 2 = 0 THEN c + 32 ELSE c - 32

\* A mutant takes the character after an escape as it is.
Ebin2memRaw(b, p, i) ==
  LET at[k \in 0 .. i] == IF k = 0 THEN p ELSE at[k - 1] + (IF At(b, at[k - 1]) = Escape THEN 2 ELSE 1)
  IN IF At(b, at[i]) = Escape THEN At(b, at[i] + 1) ELSE At(b, at[i])

ebin2mem(b, p, i) ==
  LET at[k \in 0 .. i] == IF k = 0 THEN p ELSE at[k - 1] + (IF At(b, at[k - 1]) = Escape THEN 2 ELSE 1)
  IN IF At(b, at[i]) = Escape THEN Toggled(At(b, at[i] + 1)) ELSE At(b, at[i])

OK == <<79, 75>>
Error(n) == <<69, 48, 48 + n>>    \* E01 to E03

Faults(addr, n) == n > 0 /\ addr + n > MEM

\* As many bytes as fit into the answer; the bus error handler answers E03.
MemoryRead(b) ==
  LET n == IF Length(b) * 2 > OUTBUFMAX THEN OUTBUFMAX \div 2 ELSE Length(b)
  IN IF ~TwoNumbers(b) THEN Error(1)
     ELSE IF Faults(Addr(b), n) THEN Error(3)
     ELSE mem2hex([i \in 1 .. n |-> mem[Addr(b) + i - 1]])

\* What is written before a bus error stays.
Writes(b) == TwoNumbers(b) /\ b[LenEnd(b)] = Colon

MemoryWritten(b) ==
  LET p == LenEnd(b) + 1
      byte(i) == IF b[0] = 77 THEN hex2mem(b, p, i) ELSE ebin2mem(b, p, i)
  IN IF Writes(b)
       THEN [a \in 0 .. MEM - 1 |-> IF a \in Addr(b) .. Addr(b) + Length(b) - 1 THEN byte(a - Addr(b)) ELSE mem[a]]
       ELSE mem

WriteAnswer(b) ==
  IF ~Writes(b) THEN Error(2) ELSE IF Faults(Addr(b), Length(b)) THEN Error(3) ELSE OK

----------------------------------------------------------------------------
(* What is done for a packet *)

computeSignal(vec) ==
  CASE vec \in {"illegal", "slot"} -> 4
    [] vec \in {"load", "store"} -> 10
    [] vec \in {"break", "nmi"} -> 2
    [] vec \in {"ubreak", "trap"} -> 5
    [] OTHER -> 7

Stopped(sig) == <<83>> \o mem2hex(<<sig>>)

\* serial_output makes a packet that begins with an O of what a program prints.
OutputPacket(s) == <<79>> \o mem2hex(s)

\* The answers to a packet, as putpacket sends them: to c and s, what the program prints
\* and the report of its stop; to what the stub does not know, an empty one.
Answers(b) ==
  CASE b[0] = 109 -> <<MemoryRead(b)>>
    [] b[0] \in {77, 88} -> <<WriteAnswer(b)>>
    [] b[0] = 63 -> <<Stopped(sigval)>>
    [] b[0] \in {99, 115} ->
         LET run == Runs[IF b[0] = 99 THEN "c" ELSE "s"]
         IN [k \in 1 .. Len(run.prints) |-> OutputPacket(run.prints[k])]
              \o <<Stopped(computeSignal(run.stop))>>
    [] OTHER -> <<<<>>>>

\* A packet that begins with two characters and a colon has a sequence number, which is
\* removed; the echo of it the host does not look at.
strlen(b) == CHOOSE n \in 0 .. BUFMAX : b[n] = 0 /\ \A k \in 0 .. n - 1 : b[k] # 0
Numbered(b) == b[2] = Colon /\ strlen(b) > 2
Unnumbered(b) ==
  IF Numbered(b) THEN [i \in 0 .. BUFMAX |-> IF i + 3 <= strlen(b) THEN b[i + 3] ELSE b[i]] ELSE b

Ack == [kind |-> "ack", of |-> <<>>]
Nak == [kind |-> "nak", of |-> <<>>]
Frame(kind, s) == [kind |-> kind, of |-> s]    \* "good", or "bad" when garbled

TypeOK ==
  /\ ts \in {"hunt", "data", "sum1", "sum2", "ack"}
  /\ buffer \in [0 .. BUFMAX -> 0 .. 255] /\ count \in 0 .. BUFMAX
  /\ checksum \in 0 .. 255 /\ high \in -1 .. 15
  /\ mem \in [0 .. MEM - 1 -> 0 .. 255] /\ sigval \in 0 .. 255
  /\ ran \in Seq(Seq(0 .. 255)) /\ packets \in Seq(Seq(0 .. 255)) /\ (ts = "ack" => packets # <<>>)
  /\ hs \in {"acked", "reply", "done"}
  /\ next \in 1 .. Len(Requests)
  /\ Len(got) <= Len(Requests) /\ shown \in Seq(Seq(0 .. 255))
  /\ toStub \in Seq(0 .. 255)
  /\ toHost \in Seq([kind : {"ack", "nak", "good", "bad"}, of : Seq(0 .. 255)])
  /\ errors \in 0 .. MaxErrors

----------------------------------------------------------------------------
(* The stub *)

Say(msgs) == toHost' = toHost \o msgs

\* putpacket, each time it sends the packet it is at.
Sent(p) == Frame("good", Rle(p))

\* A packet of n characters was taken: what it asks for is done, and putpacket begins.
Run(msgs, n) ==
  /\ ts' = "ack" /\ ran' = Append(ran, [i \in 1 .. n |-> buffer'[i - 1]])
  /\ packets' = Answers(buffer')
  /\ mem' = IF buffer'[0] \in {77, 88} THEN MemoryWritten(buffer') ELSE mem
  /\ sigval' = CASE buffer'[0] = 99 -> computeSignal(Runs["c"].stop)
                 [] buffer'[0] = 115 -> computeSignal(Runs["s"].stop)
                 [] OTHER -> sigval
  /\ Say(msgs \o <<Sent(Head(packets'))>>)

\* Characters before a packet's $ are ignored, those of an old packet too.
Hunt(c) ==
  /\ ts = "hunt"
  /\ ts' = IF c = Dollar THEN "data" ELSE "hunt"
  /\ count' = 0 /\ checksum' = 0 /\ high' = 0
  /\ UNCHANGED <<buffer, target, toHost>>

\* The buffer is full when BUFMAX characters came without a #: then the
\* packet counts if the checksum is that of xmitcsum's initial -1.
Data(c) ==
  LET s == (checksum + c) % 256
  IN /\ ts = "data" /\ UNCHANGED high
     /\ \/ /\ c = Hash /\ ts' = "sum1" /\ buffer' = [buffer EXCEPT ![count] = 0]
           /\ UNCHANGED <<count, checksum, target, toHost>>
        \/ /\ c # Hash /\ count' = count + 1 /\ checksum' = s
           /\ buffer' = [i \in 0 .. BUFMAX |-> IF i = count THEN c ELSE IF i = BUFMAX THEN 0 ELSE buffer[i]]
           /\ \/ count' < BUFMAX /\ UNCHANGED <<ts, target, toHost>>
              \/ count' = BUFMAX /\ s # 255 /\ ts' = "hunt" /\ UNCHANGED <<target, toHost>>
              \/ count' = BUFMAX /\ s = 255 /\ Run(<<>>, BUFMAX)

Sum1(c) ==
  /\ ts = "sum1" /\ ts' = "sum2" /\ high' = Hex(c)
  /\ UNCHANGED <<buffer, count, checksum, target, toHost>>

Take(msgs) ==
  /\ buffer' = Unnumbered(buffer) /\ UNCHANGED <<count, checksum, high>>
  /\ Run(msgs, IF Numbered(buffer) THEN count - 3 ELSE count)

Refuse(msgs) == ts' = "hunt" /\ Say(msgs) /\ UNCHANGED <<input, target>>

SumRight(c) == (16 * high + Hex(c)) % 256 = checksum

\* Mutants: a packet that is taken whatever its checksum, and one with + and -
\* the wrong way round.
Sum2Trusting(c) == ts = "sum2" /\ Take(<<Ack>>)

Sum2Swapped(c) ==
  /\ ts = "sum2"
  /\ \/ SumRight(c) /\ Take(<<Nak>>)
     \/ ~SumRight(c) /\ Refuse(<<Ack>>)

Sum2(c) ==
  /\ ts = "sum2"
  /\ \/ SumRight(c) /\ Take(<<Ack>>)
     \/ ~SumRight(c) /\ Refuse(<<Nak>>)

\* putpacket is done: after output the program goes on and prints more, or stops.
Acknowledged ==
  IF Len(packets) = 1 THEN ts' = "hunt" /\ UNCHANGED <<packets, toHost>>
  ELSE packets' = Tail(packets) /\ Say(<<Sent(Head(packets'))>>) /\ UNCHANGED ts

\* A mutant of putpacket that gives the host one chance to read the packet.
ResendNever(c) ==
  /\ ts = "ack" /\ UNCHANGED <<input, mem, sigval, ran>>
  /\ \/ c = Plus /\ Acknowledged
     \/ c # Plus /\ UNCHANGED <<ts, packets, toHost>>

\* putpacket: whatever is not a + has the packet sent again.
Resend(c) ==
  /\ ts = "ack" /\ UNCHANGED <<input, mem, sigval, ran>>
  /\ \/ c = Plus /\ Acknowledged
     \/ c # Plus /\ Say(<<Sent(Head(packets))>>) /\ UNCHANGED <<ts, packets>>

GetChar ==
  /\ toStub # <<>> /\ toStub' = Tail(toStub)
  /\ LET c == Head(toStub) IN Hunt(c) \/ Data(c) \/ Sum1(c) \/ Sum2(c) \/ Resend(c)
  /\ UNCHANGED <<hostVars, errors>>

----------------------------------------------------------------------------
(* The host: gdb *)

\* What gdb sends for a request; in binary data #, $, * and the escape are escaped.
EscapedData(d) ==
  FlattenSeq([i \in 1 .. Len(d) |-> IF d[i] \in {Hash, Dollar, Star, Escape} THEN <<Escape, Toggled(d[i])>>
                                   ELSE <<d[i]>>])

Text(r) ==
  LET where == <<HexDigit(r.addr), Comma, HexDigit(r.len)>>
  IN CASE r.op = "m" -> <<109>> \o where
       [] r.op = "M" -> <<77>> \o where \o <<Colon>> \o mem2hex(r.data)
       [] r.op = "X" -> <<88>> \o where \o <<Colon>> \o EscapedData(r.data)
       [] r.op = "c" -> <<99>>
       [] r.op = "s" -> <<115>>
       [] r.op = "?" -> <<63>>

\* gdb's packets are no longer than the target's buffer.
ASSUME TextsFit == \A i \in 1 .. Len(Requests) : Len(Text(Requests[i])) < BUFMAX

\* It sends as much data as it says, and asks for no more than an answer has room for.
ASSUME DataFits ==
  \A i \in 1 .. Len(Requests) :
    /\ Requests[i].op \in {"M", "X"} => Len(Requests[i].data) = Requests[i].len
    /\ Requests[i].op = "m" => Requests[i].len * 2 <= OUTBUFMAX

Send(s) == toStub' = toStub \o s

\* A packet where an acknowledgement is due is an old reply: gdb takes it out
\* of the way and acknowledges it.
AwaitAck(m) ==
  /\ hs = "acked" /\ UNCHANGED <<next, got, shown>>
  /\ \/ m.kind = "ack" /\ hs' = "reply" /\ UNCHANGED toStub
     \/ m.kind = "nak" /\ Send(Encoded(Text(Requests[next]))) /\ UNCHANGED hs
     \/ m.kind \in {"good", "bad"} /\ Send(<<Plus>>) /\ UNCHANGED hs

\* While a program runs, what begins with an O is its output; OK is a reply otherwise.
IsOutput(p) == Requests[next].op \in {"c", "s"} /\ p # <<>> /\ Head(p) = 79

\* Output is shown, and the reply awaited further.
AwaitReply(m) ==
  /\ hs = "reply"
  /\ \/ m.kind \in {"ack", "nak"} /\ UNCHANGED <<hostVars, toStub>>
     \/ m.kind = "bad" /\ Send(<<Minus>>) /\ UNCHANGED hostVars
     \/ /\ m.kind = "good" /\ IsOutput(m.of) /\ Send(<<Plus>>)
        /\ shown' = Append(shown, Tail(Unrle(m.of))) /\ UNCHANGED <<hs, next, got>>
     \/ /\ m.kind = "good" /\ ~IsOutput(m.of)
        /\ got' = Append(got, [reply |-> Unrle(m.of), output |-> shown]) /\ shown' = <<>>
        /\ IF next < Len(Requests)
             THEN /\ hs' = "acked" /\ next' = next + 1
                  /\ Send(<<Plus>> \o Encoded(Text(Requests[next + 1])))
             ELSE hs' = "done" /\ Send(<<Plus>>) /\ UNCHANGED next

\* A session that is over: late packets are acknowledged as they come.
Idle(m) ==
  /\ hs = "done" /\ UNCHANGED hostVars
  /\ IF m.kind \in {"good", "bad"} THEN Send(<<Plus>>) ELSE UNCHANGED toStub

HostReads ==
  /\ toHost # <<>> /\ toHost' = Tail(toHost)
  /\ LET m == Head(toHost) IN AwaitAck(m) \/ AwaitReply(m) \/ Idle(m)
  /\ UNCHANGED <<stubVars, errors>>

\* Nothing came for long: the command again, or - for the reply.
Repeat ==
  /\ \/ hs = "acked" /\ Send(Encoded(Text(Requests[next])))
     \/ hs = "reply" /\ Send(<<Minus>>)
  /\ UNCHANGED <<stubVars, hostVars, toHost>>

Timeout == toStub = <<>> /\ toHost = <<>> /\ Repeat /\ UNCHANGED errors

----------------------------------------------------------------------------
(* The line *)

Fails == errors < MaxErrors /\ errors' = errors + 1

\* Bound: a character in front of the stub, or a packet in front of the host.
LineError ==
  /\ Fails /\ UNCHANGED <<stubVars, hostVars>>
  /\ \/ /\ toStub # <<>> /\ UNCHANGED toHost
        /\ \/ toStub' = Tail(toStub)
           \/ \E n \in Noise : toStub' = [toStub EXCEPT ![1] = n]
     \/ /\ toHost # <<>> /\ UNCHANGED toStub
        /\ \/ toHost' = Tail(toHost)
           \/ toHost[1].kind = "good" /\ toHost' = [toHost EXCEPT ![1].kind = "bad"]

\* The host gives up waiting while something is on its way.
EarlyTimeout == Fails /\ (toStub # <<>> \/ toHost # <<>>) /\ Repeat

Next == GetChar \/ HostReads \/ Timeout \/ LineError \/ EarlyTimeout

\* The program has stopped at a trap, and the host knows; memory is 0.
Init ==
  /\ ts = "hunt" /\ buffer = [i \in 0 .. BUFMAX |-> 0] /\ count = 0 /\ checksum = 0 /\ high = 0
  /\ packets = <<>> /\ ran = <<>> /\ mem = [a \in 0 .. MEM - 1 |-> 0] /\ sigval = computeSignal("trap")
  /\ hs = "acked" /\ next = 1 /\ got = <<>> /\ shown = <<>>
  /\ toStub = Encoded(Text(Requests[1])) /\ toHost = <<>>
  /\ errors = 0

Spec == Init /\ [][Next]_vars

\* Both ends read what comes, and the host does not wait for ever.
FairSpec == Spec /\ WF_vars(GetChar) /\ WF_vars(HostReads) /\ WF_vars(Timeout)

----------------------------------------------------------------------------
(* Properties *)

\* What comes on the line when the # of a packet is lost, or is another character z, and
\* the host sends the packet again.
Merged(t, z) == t \o z \o SubSeq(Encoded(t), Len(t) + 3, Len(t) + 4) \o Encoded(t)
LostHash == {<<>>} \cup {<<n>> : n \in Noise \ {Hash}}

\* A checksum of eight bits does not show each error.  It shows these if no character of
\* a text is 0, if the two that follow a character which became a # do not happen to be
\* the checksum before it, and if two packets that have become one do not have the
\* checksum of the second one (or that of a buffer that is full).
ErrorsShow ==
  \A i \in 1 .. Len(Requests) :
    LET t == Text(Requests[i])
        e == Encoded(t)
    IN /\ \A k \in 1 .. Len(t) : t[k] # 0
       /\ Hash \in Noise => \A k \in 0 .. Len(t) - 1 : (16 * Hex(e[k + 3]) + Hex(e[k + 4])) % 256 # Sums(t)[k]
       /\ \A z \in LostHash :
            LET m == Merged(t, z)
            IN IF Len(m) - 3 < BUFMAX THEN Sums(m)[Len(m) - 3] # Sum8(t) ELSE Sums(m)[BUFMAX] # 255

\* The stub runs what the host has sent, and not a packet put together from
\* pieces of others, as long as a single character or packet went wrong.
RunsWhatWasSent ==
  errors <= 1 => \A i \in 1 .. Len(ran) : \E j \in 1 .. next : ran[i] = Text(Requests[j])

\* Commands have no number: one that is repeated is run again.  That takes an
\* error each time, so without errors each command runs once.
RepeatsTakeErrors == Len(ran) <= next + errors

\* What a target does for the requests: its memory after i of them, and the signal.
MemoryAfter ==
  LET m[i \in 0 .. Len(Requests)] ==
        IF i = 0 THEN [a \in 0 .. MEM - 1 |-> 0]
        ELSE LET r == Requests[i]
             IN [a \in 0 .. MEM - 1 |-> IF r.op \in {"M", "X"} /\ a \in r.addr .. r.addr + r.len - 1
                                         THEN r.data[a - r.addr + 1] ELSE m[i - 1][a]]
  IN m

SignalAfter ==
  LET sig[i \in 0 .. Len(Requests)] ==
        IF i = 0 THEN 5
        ELSE IF Requests[i].op \in {"c", "s"} THEN computeSignal(Runs[Requests[i].op].stop) ELSE sig[i - 1]
  IN sig

Due(i) ==
  LET r == Requests[i]
      there == r.len = 0 \/ r.addr + r.len <= MEM
  IN CASE r.op \in {"c", "s", "?"} -> Stopped(SignalAfter[i])
       [] r.op = "m" /\ there -> mem2hex([k \in 1 .. r.len |-> MemoryAfter[i - 1][r.addr + k - 1]])
       [] r.op \in {"M", "X"} /\ there -> OK
       [] OTHER -> Error(3)

Printed(i) ==
  IF Requests[i].op \in {"c", "s"}
    THEN LET p == Runs[Requests[i].op].prints IN [k \in 1 .. Len(p) |-> mem2hex(p[k])]
    ELSE <<>>

\* The host takes for the reply to a request the reply to that request: what it reads is
\* what it has written, in hexadecimal or with escapes, with runs decoded.  It shows what
\* the program prints before a reply: all of it if nothing goes wrong, and nothing else
\* if one thing does.
RepliesMatch ==
  errors <= 1 =>
    \A i \in 1 .. Len(got) :
      /\ got[i].reply = Due(i)
      /\ \A k \in 1 .. Len(got[i].output) : \E j \in 1 .. Len(Printed(i)) : got[i].output[k] = Printed(i)[j]
      /\ errors = 0 => got[i].output = Printed(i)

\* The host gets all its replies even if the line fails once, wherever that is; a program
\* that prints goes on, as long as a host acknowledges.
\* (Failing twice it may lose a reply for good: the stub, once it has seen a +,
\* does not know the reply any more.)
SessionCompletes == <>(hs = "done" \/ errors > 1)
=============================================================================
