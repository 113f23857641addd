--------------------------- MODULE NetBootProofs ---------------------------
(***************************************************************************)
(* Proofs about NetBoot, for any number of servers, files of any length    *)
(* and queues, retries and faults as many as one likes.                    *)
(***************************************************************************)
EXTENDS NetBoot, TLAPS, SequenceTheorems

LEMMA Constants == None \notin Servers /\ "loader" \notin Servers /\ Servers # {} /\ Dhcp \subseteq Servers
  BY NetConstantsOK, BootpConstantsOK

----------------------------------------------------------------------------
(* What is on its way *)

Items(q) == {q[i] : i \in 1 .. Len(q)}
Flying == net \cup Items(rx)

LEMMA ItemsAppended ==
  ASSUME NEW q, q \in Seq(Items(q)), NEW x
  PROVE  Append(q, x) \in Seq(Items(Append(q, x))) /\ Items(Append(q, x)) = Items(q) \cup {x}
<1> DEFINE S == Items(q) \cup {x}
           r == Append(q, x)
<1>1. q \in Seq(S)
  BY SeqMonotonic
<1>2. /\ r \in Seq(S) /\ Len(r) = Len(q) + 1 /\ Len(q) \in Nat
      /\ \A i \in 1 .. Len(q) : r[i] = q[i]
      /\ r[Len(q) + 1] = x
  BY <1>1, AppendProperties, LenProperties
<1>3. Items(r) = S
  <2>1. \A y \in Items(q) : y \in Items(r)
    <3> SUFFICES ASSUME NEW i \in 1 .. Len(q) PROVE q[i] \in Items(r)
      BY DEF Items
    <3>1. i \in 1 .. Len(r) /\ r[i] = q[i]
      BY <1>2
    <3> QED
      BY <3>1 DEF Items
  <2>2. x \in Items(r)
    <3>1. Len(q) + 1 \in 1 .. Len(r)
      BY <1>2
    <3> QED
      BY <1>2, <3>1 DEF Items
  <2>3. \A y \in Items(r) : y \in S
    <3> SUFFICES ASSUME NEW i \in 1 .. Len(r) PROVE r[i] \in S
      BY DEF Items
    <3> QED
      BY <1>2, ElementOfSeq
  <2> QED
    BY <2>1, <2>2, <2>3
<1> QED
  BY <1>2, <1>3

LEMMA ItemsTaken ==
  ASSUME NEW q, q \in Seq(Items(q)), q # <<>>
  PROVE  /\ Tail(q) \in Seq(Items(Tail(q)))
         /\ Items(q) = Items(Tail(q)) \cup {Head(q)}
<1> DEFINE S == Items(q)
           r == Tail(q)
<1>1. /\ Head(q) \in S /\ r \in Seq(S) /\ Len(r) = Len(q) - 1 /\ Len(q) \in Nat /\ Len(q) # 0
      /\ \A i \in 1 .. Len(r) : r[i] = q[i + 1]
  BY HeadTailProperties, EmptySeq
<1>2. Head(q) = q[1]
  BY <1>1
<1>3. \A y \in S : y \in Items(r) \cup {Head(q)}
  <2> SUFFICES ASSUME NEW i \in 1 .. Len(q), i # 1 PROVE q[i] \in Items(r)
    BY <1>2 DEF Items
  <2>1. i - 1 \in 1 .. Len(r) /\ r[i - 1] = q[i]
    BY <1>1
  <2> QED
    BY <2>1 DEF Items
<1>4. \A y \in Items(r) : y \in S
  <2> SUFFICES ASSUME NEW i \in 1 .. Len(r) PROVE r[i] \in S
    BY DEF Items
  <2> QED
    BY <1>1, ElementOfSeq
<1>5. r \in Seq(Items(r))
  <2>1. \A i \in 1 .. Len(r) : r[i] \in Items(r)
    BY DEF Items
  <2>2. r \in [1 .. Len(r) -> S] /\ Len(r) \in Nat
    BY <1>1, LenProperties
  <2>3. r \in [1 .. Len(r) -> Items(r)]
    BY <2>1, <2>2
  <2> QED
    BY <2>2, <2>3, SeqDef
<1> QED
  BY <1>1, <1>3, <1>4, <1>5

Queued == rx \in Seq(Items(rx))

\* What server m.to may say to the call m: the whole piece, or the start of it.
Gives(x, m) ==
  /\ x.body.size = Len(File[m.to])
  /\ x.ok => \E k : /\ x.body.data = Piece(m, k)
                    /\ LET n == IF m.len <= Left(m) THEN m.len ELSE Left(m) IN k = n \/ (k = 1 /\ n > 1)

IsReply(x, m) ==
  /\ x.kind = "reply" /\ x.id = m.id /\ x.port = m.sport
  /\ x.body.port = IF m.proc = "mountport" THEN mountd[m.to] ELSE NFSD
  /\ Gives(x, m)

IsBootReply(x) ==
  \E s \in Servers : \E t \in Answers(s, call, TRUE) \cup Answers(s, call, FALSE) :
    x = BootReply(t, s, "own") /\ (t \in {"ACK", "none"} => s \in leases')

\* The messages that a step adds.
IsNew(x) ==
  \/ x.kind \in {"arpreq", "arpreply"}
  \/ x = call /\ at \in {"send", "arp", "arplate"} /\ call.kind = "call"
  \/ IsBootReply(x) /\ call.kind = "boot"
  \/ \E m \in net : m.kind = "call" /\ IsReply(x, m)

\* Where it is queued.
LEMMA QueueGrows ==
  ASSUME Queued, NEW m \in net, rx' = Append(rx, m), net' \subseteq net
  PROVE  Queued' /\ Flying' \subseteq Flying
<1>1. Queued' /\ Items(rx') = Items(rx) \cup {m}
  BY ItemsAppended DEF Queued
<1> QED
  BY <1>1 DEF Flying

LEMMA QueueShrinks ==
  ASSUME Queued, rx # <<>>, rx' = Tail(rx)
  PROVE  Queued' /\ Items(rx') \subseteq Items(rx) /\ Head(rx) \in Flying
<1>1. Queued' /\ Items(rx) = Items(rx') \cup {Head(rx)}
  BY ItemsTaken DEF Queued
<1> QED
  BY <1>1 DEF Flying

LEMMA NetGrows ==
  ASSUME UNCHANGED rx, \A x \in net' : x \in net \/ IsNew(x)
  PROVE  (Queued => Queued') /\ \A x \in Flying' : x \in Flying \/ IsNew(x)
BY DEF Flying, Queued

\* Where the loader is in which of its requests.
Places ==
  /\ call.kind \in {"boot", "idle", "call"}
  /\ at \in {"arp", "arplate"} => call.kind = "call"
  /\ at \in {"failed", "done"} => call.kind = "call"
  /\ call.kind = "call" => at # "halt"

LEMMA PlacesKept ==
  ASSUME Places, Next
  PROVE  Places'
<1> USE DEF Places
<1>1. CASE Environment
  BY <1>1 DEF Environment, Network, Deliver, Lose, Duplicate, ServerArp, ServerForgets, ServerAsks, Serve,
     ServerMoves, loader, bootpVars, nfsVars
<1>2. CASE Loader \/ Discard(Accepts)
  BY <1>2 DEF Loader, Discard, Transmit, AnswerArp, ArpAnswered, ArpTimeout, loader
<1>3. CASE BootpLoader
  <2>1. CASE BootpDrained \/ Broadcast
    BY <2>1 DEF BootpDrained, Broadcast
  <2>2. ASSUME NEW server, NEW file, Booted(server, file) PROVE Places'
    BY <2>2 DEF Booted, Idle
  <2>3. ASSUME OuterAgain, call.kind = "boot" PROVE Places'
    BY <2>3 DEF OuterAgain
  <2>4. ASSUME NEW type, InnerAgain(type), call.kind = "boot" PROVE Places'
    BY <2>3, <2>4 DEF InnerAgain
  <2>5. ASSUME NEW server, NEW addr, Request(server, addr) PROVE Places'
    BY <2>5 DEF Request, BootRequest
  <2>6. CASE BootpReply
    BY <2>2, <2>4, <2>5, <2>6 DEF BootpReply, AcceptsBootp
  <2>7. CASE BootpTimeout
    BY <2>3, <2>4, <2>7 DEF BootpTimeout
  <2> QED
    BY <1>3, <2>1, <2>6, <2>7 DEF BootpLoader
<1>4. CASE NfsLoader
  <2>1. ASSUME NEW proc, NEW from, NEW port, NEW o, NEW n, CallFor(proc, from, port, o, n) PROVE Places'
    BY <2>1 DEF CallFor
  <2>2. ASSUME NEW proc, NEW from, NEW port, Call(proc, from, port) PROVE Places'
    BY <2>1, <2>2 DEF Call
  <2>3. ASSUME Umount, call.kind = "call" PROVE Places'
    BY <2>2, <2>3 DEF Umount, Leave
  <2>4. CASE Begin
    BY <2>2, <2>4 DEF Begin
  <2>5. ASSUME NEW rep, NEW answered, Continue(rep, answered), call.kind = "call" PROVE Places'
    <3>1. CASE PortsKnown(rep)
      BY <2>2, <2>5, <3>1 DEF PortsKnown
    <3>2. CASE Mounted(rep) \/ LookedUp(rep) \/ ReadFailed(rep)
      BY <2>1, <2>2, <2>3, <2>5, <3>2 DEF Mounted, LookedUp, ReadFailed
    <3>3. CASE BlockRead(rep)
      BY <2>1, <2>2, <2>5, <3>3 DEF BlockRead
    <3>4. CASE Unmounted(answered)
      BY <2>5, <3>4 DEF Unmounted, Leave
    <3> QED
      BY <2>5, <3>1, <3>2, <3>3, <3>4 DEF Continue
  <2>6. CASE RpcReply
    BY <2>5, <2>6 DEF RpcReply, AcceptsRpc
  <2>7. CASE RpcTimeout
    BY <2>5, <2>7 DEF RpcTimeout
  <2>8. CASE LoadAgain
    BY <2>8 DEF LoadAgain, Idle
  <2> QED
    BY <1>4, <2>4, <2>6, <2>7, <2>8 DEF NfsLoader
<1> QED
  BY <1>1, <1>2, <1>3, <1>4 DEF Next, LoaderStep

\* What a step adds to what is on its way.
LEMMA FlyingGrows ==
  ASSUME Queued, Places, Next
  PROVE  Queued' /\ \A x \in Flying' : x \in Flying \/ IsNew(x)
<1>1. ASSUME UNCHANGED rx, net' \subseteq net PROVE Queued' /\ \A x \in Flying' : x \in Flying \/ IsNew(x)
  BY <1>1, NetGrows
<1>2. ASSUME Queued', Items(rx') \subseteq Items(rx), \A x \in net' : x \in net \/ IsNew(x)
      PROVE  Queued' /\ \A x \in Flying' : x \in Flying \/ IsNew(x)
  BY <1>2 DEF Flying
<1>3. CASE Deliver
  <2>1. PICK m \in net : rx' = Append(rx, m) /\ net' = net \ {m}
    BY <1>3 DEF Deliver
  <2> QED
    BY <2>1, QueueGrows
<1>4. CASE Duplicate
  <2>1. PICK m \in net : rx' = Append(rx, m) /\ net' = net
    BY <1>4 DEF Duplicate
  <2> QED
    BY <2>1, QueueGrows
<1>5. CASE Lose \/ ServerForgets \/ ServerMoves
  BY <1>1, <1>5 DEF Lose, ServerForgets, ServerMoves
<1>6. CASE ServerArp
  <2>1. UNCHANGED rx /\ \A x \in net' : x \in net \/ IsNew(x)
    BY <1>6 DEF ServerArp, IsNew, ArpReply
  <2> QED
    BY <2>1, NetGrows
<1>7. CASE ServerAsks
  <2>1. UNCHANGED rx /\ \A x \in net' : x \in net \/ IsNew(x)
    BY <1>7 DEF ServerAsks, IsNew, ArpRequest
  <2> QED
    BY <2>1, NetGrows
<1>8. CASE Serve
  <2>1. PICK m \in net :
          /\ m.kind = "call"
          /\ \/ net' = net \ {m}
             \/ \E ok \in BOOLEAN : \E port, d :
                  /\ net' = (net \ {m}) \cup {Reply(m, ok, port, d)}
                  /\ port = IF m.proc = "mountport" THEN mountd[m.to] ELSE NFSD
                  /\ ok => \E k : /\ d = Piece(m, k)
                                  /\ LET n == IF m.len <= Left(m) THEN m.len ELSE Left(m)
                                     IN k = n \/ (k = 1 /\ n > 1)
    BY <1>8, ZenonT(40) DEF Serve
  <2>2. UNCHANGED rx
    BY <1>8 DEF Serve
  <2>3. ASSUME NEW ok \in BOOLEAN, NEW port, NEW d,
               port = IF m.proc = "mountport" THEN mountd[m.to] ELSE NFSD,
               ok => \E k : /\ d = Piece(m, k)
                            /\ LET n == IF m.len <= Left(m) THEN m.len ELSE Left(m)
                               IN k = n \/ (k = 1 /\ n > 1)
        PROVE  IsReply(Reply(m, ok, port, d), m)
    BY <2>3 DEF IsReply, Gives, Reply
  <2>4. \A x \in net' : x \in net \/ IsNew(x)
    <3>1. CASE net' = net \ {m}
      BY <3>1
    <3>2. ASSUME NEW y, net' = (net \ {m}) \cup {y}, IsReply(y, m) PROVE \A x \in net' : x \in net \/ IsNew(x)
      <4>1. IsNew(y)
        BY <2>1, <3>2 DEF IsNew
      <4> QED
        BY <3>2, <4>1
    <3> QED
      BY <2>1, <2>3, <3>1, <3>2
  <2> QED
    BY <2>2, <2>4, NetGrows
<1>9. CASE Transmit \/ ArpTimeout
  <2>1. UNCHANGED rx /\ \A x \in net' : x \in net \/ IsNew(x)
    BY <1>9 DEF Transmit, ArpTimeout, IsNew, ArpRequest
  <2> QED
    BY <2>1, NetGrows
<1>10. CASE ArpAnswered
  <2>1. rx # <<>> /\ rx' = Tail(rx) /\ \A x \in net' : x \in net \/ IsNew(x)
    BY <1>10 DEF ArpAnswered, IsNew, Places
  <2> QED
    BY <1>2, <2>1, QueueShrinks
<1>11. CASE AnswerArp \/ Discard(Accepts)
  <2>1. rx # <<>> /\ rx' = Tail(rx) /\ \A x \in net' : x \in net \/ IsNew(x)
    BY <1>11 DEF AnswerArp, Discard, Polling, IsNew, ArpReply
  <2> QED
    BY <1>2, <2>1, QueueShrinks
<1>12. CASE BootpDrained \/ BootpTimeout \/ Begin \/ RpcTimeout \/ LoadAgain
  <2>1. CASE BootpDrained \/ BootpTimeout \/ Begin \/ LoadAgain
    BY <1>1, <2>1 DEF BootpDrained, BootpTimeout, Begin, LoadAgain, steady
  <2>2. CASE RpcTimeout
    BY <1>1, <2>2 DEF RpcTimeout, Continue, steady
  <2> QED
    BY <1>12, <2>1, <2>2
<1>13. CASE Broadcast
  <2>1. PICK refuses \in BOOLEAN :
          /\ net' = net \cup UNION {{BootReply(t, s, "own") : t \in Answers(s, call, refuses)} : s \in Servers}
          /\ leases' = leases \cup {s \in Servers : Answers(s, call, refuses) \cap {"ACK", "none"} # {}}
    BY <1>13 DEF Broadcast
  <2>2. ASSUME NEW s \in Servers, NEW t \in Answers(s, call, refuses) PROVE IsBootReply(BootReply(t, s, "own"))
    <3>1. t \in Answers(s, call, TRUE) \cup Answers(s, call, FALSE)
      BY <2>1
    <3>2. t \in {"ACK", "none"} => s \in leases'
      BY <2>1
    <3> QED
      BY <3>1, <3>2 DEF IsBootReply
  <2>3. UNCHANGED rx /\ call.kind = "boot"
    BY <1>13 DEF Broadcast
  <2>4. \A x \in net' : x \in net \/ IsNew(x)
    BY <2>1, <2>2, <2>3 DEF IsNew
  <2> QED
    BY <2>3, <2>4, NetGrows
<1>14. CASE BootpReply \/ RpcReply
  <2>1. rx # <<>> /\ rx' = Tail(rx) /\ net' = net
    BY <1>14 DEF BootpReply, RpcReply, Continue, steady
  <2> QED
    BY <1>2, <2>1, QueueShrinks
<1> QED
  BY <1>3, <1>4, <1>5, <1>6, <1>7, <1>8, <1>9, <1>10, <1>11, <1>12, <1>13, <1>14
  DEF Next, Environment, LoaderStep, Network, Loader, BootpLoader, NfsLoader

----------------------------------------------------------------------------
(* Whose address the loader takes *)

\* What a server says to the loader has its own address, or none; it says that the loader
\* may have it when it holds it for the loader.
BootGood(x) ==
  x.kind = "bootreply" /\ x.xid = "own" =>
    /\ x.from \in Servers /\ x.type \in {"none", "OFFER", "ACK", "NAK"}
    /\ x.addr = IF x.type = "NAK" THEN None ELSE x.from
    /\ x.type \in {"ACK", "none"} => x.from \in leases
    /\ x.type = "none" <=> x.from \notin Dhcp

Replies == \A x \in Flying : BootGood(x)

\* In the loop that asks for a confirmation nothing is left of an earlier answer.
Forgotten == call.kind = "boot" /\ inner => dhcp_reply = "none"

Table == arptable \in [ip : Servers \cup {None}, node : BOOLEAN]

AtServer == Loading => ip \in leases /\ ip = arptable.ip /\ ip \in Servers

Held == Queued /\ Places /\ Replies /\ Forgotten /\ Table /\ AtServer

\* An answer that makes the loader go on is the confirmation of an offer, or a plain one.
LEMMA GoesOnHeld ==
  ASSUME Held, BootpReply
  PROVE  /\ Table'
         /\ Loading' => /\ Head(rx).from \in leases /\ Head(rx).from \in Servers
                        /\ ip' = Head(rx).from /\ arptable'.ip = Head(rx).from
                        /\ filename' = NewFilename(Head(rx))
                        /\ Head(rx).type = IF Head(rx).from \in Dhcp THEN "ACK" ELSE "none"
<1> DEFINE m == Head(rx)
           type == IF m.type = "none" THEN dhcp_reply ELSE m.type
           server == IF m.type = "none" THEN dhcp_server ELSE m.from
           siaddr == IF m.addr = None THEN None ELSE m.from
<1>1. m \in Flying
  BY QueueShrinks DEF BootpReply, Held
<1>2. BootGood(m) /\ m.kind = "bootreply" /\ m.xid = "own" /\ call.kind = "boot" /\ at = "await"
  BY <1>1 DEF Held, Replies, BootpReply, AcceptsBootp
<1>3. /\ m.from \in Servers /\ m.type \in {"none", "OFFER", "ACK", "NAK"}
      /\ m.addr = IF m.type = "NAK" THEN None ELSE m.from
      /\ m.type \in {"ACK", "none"} => m.from \in leases
      /\ m.type = "none" <=> m.from \notin Dhcp
  BY <1>2 DEF BootGood
<1>4. /\ ip' = m.addr /\ arptable' = [ip |-> siaddr, node |-> FALSE] /\ filename' = NewFilename(m)
      /\ \/ inner /\ Confirmed(type) /\ Booted(siaddr, filename')
         \/ inner /\ ~Confirmed(type) /\ InnerAgain(type)
         \/ ~inner /\ type = "OFFER" /\ Request(server, m.addr)
         \/ ~inner /\ type # "OFFER" /\ Booted(siaddr, filename')
  BY DEF BootpReply
<1>5. Table'
  BY <1>3, <1>4 DEF Table
<1>6. ASSUME Loading', m.type \in {"ACK", "none"}
      PROVE  /\ m.from \in leases /\ m.from \in Servers /\ ip' = m.from /\ arptable'.ip = m.from
             /\ filename' = NewFilename(m) /\ m.type = IF m.from \in Dhcp THEN "ACK" ELSE "none"
  BY <1>3, <1>4, <1>6, Constants
<1>7. CASE InnerAgain(type) \/ Request(server, m.addr)
  BY <1>2, <1>5, <1>7 DEF InnerAgain, OuterAgain, Request, BootRequest, Loading
<1>8. CASE inner /\ Confirmed(type) /\ Booted(siaddr, filename')
  <2>1. type = "ACK"
    BY <1>8 DEF Confirmed
  <2>2. m.type # "none"
    BY <1>2, <1>8, <2>1 DEF Held, Forgotten
  <2> QED
    BY <1>5, <1>6, <2>1, <2>2
<1>9. CASE ~inner /\ type # "OFFER" /\ Booted(siaddr, filename')
  <2> SUFFICES ASSUME Loading' PROVE m.type \in {"ACK", "none"}
    BY <1>5, <1>6
  <2>1. siaddr # None
    BY <1>9 DEF Booted, Loading
  <2>2. m.type # "NAK" /\ m.type # "OFFER"
    BY <1>3, <1>9, <2>1
  <2> QED
    BY <1>3, <2>2
<1> QED
  BY <1>4, <1>7, <1>8, <1>9

\* Only bootp touches what it has found.
LEMMA NfsLeaves ==
  ASSUME NfsLoader
  PROVE  UNCHANGED <<arptable, bootpVars>> /\ at # "halt" /\ (at # "failed" => call.kind # "boot")
<1>1. CASE Begin \/ LoadAgain
  BY <1>1 DEF Begin, LoadAgain, steady
<1>2. CASE RpcReply \/ RpcTimeout
  BY <1>2 DEF RpcReply, RpcTimeout, Continue, steady, AcceptsRpc
<1> QED
  BY <1>1, <1>2 DEF NfsLoader

LEMMA HeldKept ==
  ASSUME Held, Next
  PROVE  Held'
<1>1. Queued' /\ Places' /\ \A x \in Flying' : x \in Flying \/ IsNew(x)
  BY PlacesKept, FlyingGrows DEF Held
<1>2. leases \subseteq leases'
  <2>1. CASE Environment
    BY <2>1 DEF Environment, Network, bootpVars, Serve, ServerMoves
  <2>2. CASE Loader \/ Discard(Accepts) \/ NfsLoader
    BY <2>2, NfsLeaves DEF Next, Loader, Discard, Transmit, AnswerArp, ArpAnswered, ArpTimeout, LoaderStep, bootpVars,
       BootpLoader, BootpDrained, BootpReply, BootpTimeout, Broadcast, Environment, Network, Serve, ServerMoves
  <2>3. CASE BootpLoader
    BY <2>3 DEF BootpLoader, BootpDrained, BootpReply, BootpTimeout, Broadcast, bootpVars
  <2> QED
    BY <2>1, <2>2, <2>3 DEF Next, LoaderStep
<1>3. Replies'
  <2> SUFFICES ASSUME NEW x \in Flying' PROVE BootGood(x)'
    BY DEF Replies
  <2>1. CASE x \in Flying
    BY <1>2, <2>1 DEF Held, Replies, BootGood
  <2>2. CASE IsBootReply(x)
    <3>4. PICK s \in Servers : \E t \in Answers(s, call, TRUE) \cup Answers(s, call, FALSE) :
            x = BootReply(t, s, "own") /\ (t \in {"ACK", "none"} => s \in leases')
      BY <2>2 DEF IsBootReply
    <3>1. PICK t \in Answers(s, call, TRUE) \cup Answers(s, call, FALSE) :
            x = BootReply(t, s, "own") /\ (t \in {"ACK", "none"} => s \in leases')
      BY <3>4
    <3>2. t \in {"none", "OFFER", "ACK", "NAK"}
      BY DEF Answers
    <3>5. t = "none" <=> s \notin Dhcp
      BY DEF Answers
    <3>3. x.from = s /\ x.type = t /\ x.addr = IF t = "NAK" THEN None ELSE s
      BY <3>1 DEF BootReply
    <3> QED
      BY <3>1, <3>2, <3>3, <3>5 DEF BootGood
  <2>3. CASE x.kind # "bootreply"
    BY <2>3 DEF BootGood
  <2> QED
    BY <1>1, <2>1, <2>2, <2>3 DEF IsNew, IsReply
<1>4. CASE BootpReply
  <2>1. Table' /\ (Loading' => ip' = Head(rx).from /\ arptable'.ip = ip' /\ ip' \in leases /\ ip' \in Servers)
    BY <1>4, GoesOnHeld
  <2>2. AtServer'
    BY <1>2, <2>1 DEF AtServer
  <2>3. Forgotten'
    <3>1. ASSUME NEW server, NEW file, Booted(server, file) PROVE Forgotten'
      BY <3>1 DEF Booted, Idle, Forgotten
    <3>2. ASSUME NEW type, InnerAgain(type) PROVE Forgotten'
      BY <3>2 DEF InnerAgain, OuterAgain, Forgotten
    <3>3. ASSUME NEW server, NEW addr, Request(server, addr) PROVE Forgotten'
      BY <3>3 DEF Request, Forgotten
    <3> QED
      BY <1>4, <3>1, <3>2, <3>3, Zenon DEF BootpReply
  <2> QED
    BY <1>1, <1>3, <2>1, <2>2, <2>3 DEF Held
<1>5. ASSUME UNCHANGED <<arptable, bootpVars>>, Loading' => Loading, call'.kind = "boot" => call.kind = "boot"
      PROVE  Held'
  BY <1>1, <1>3, <1>5 DEF Held, Forgotten, Table, AtServer, bootpVars
<1>6. CASE Environment
  BY <1>5, <1>6 DEF Environment, Network, Deliver, Lose, Duplicate, ServerArp, ServerForgets, ServerAsks, Serve,
     ServerMoves, loader, Loading
<1>7. CASE (Loader \/ Discard(Accepts)) /\ UNCHANGED <<bootpVars, nfsVars>>
  <2>1. CASE ArpAnswered
    <3>1. arptable'.ip = arptable.ip /\ arptable' \in [ip : Servers \cup {None}, node : BOOLEAN]
      BY <2>1 DEF ArpAnswered, Held, Table
    <3>2. UNCHANGED <<bootpVars, call>> /\ at # "halt"
      BY <1>7, <2>1 DEF ArpAnswered
    <3>3. Table' /\ AtServer' /\ Forgotten'
      BY <3>1, <3>2 DEF Held, Forgotten, Table, AtServer, Loading, bootpVars
    <3> QED
      BY <1>1, <1>3, <3>3 DEF Held
  <2>2. CASE Transmit \/ AnswerArp \/ ArpTimeout \/ Discard(Accepts)
    BY <1>5, <1>7, <2>2 DEF Discard, Transmit, AnswerArp, ArpTimeout, loader, Loading
  <2> QED
    BY <1>7, <2>1, <2>2 DEF Loader
<1>8. CASE BootpDrained
  BY <1>5, <1>8 DEF BootpDrained, Loading
<1>9. CASE Broadcast
  <2>1. UNCHANGED <<call, arptable, ip, inner, dhcp_reply>> /\ ~Loading /\ call.kind = "boot"
    BY <1>9 DEF Broadcast, Loading
  <2> QED
    BY <1>1, <1>3, <2>1 DEF Held, Forgotten, Table, AtServer, Loading
<1>10. CASE BootpTimeout
  <2>1. UNCHANGED <<call, arptable, ip>> /\ call.kind = "boot"
    BY <1>10 DEF BootpTimeout, InnerAgain, OuterAgain
  <2>2. Forgotten'
    BY <1>10 DEF BootpTimeout, InnerAgain, OuterAgain, Forgotten, Held
  <2> QED
    BY <1>1, <1>3, <2>1, <2>2 DEF Held, Table, AtServer, Loading
<1>11. CASE NfsLoader
  <2>1. call'.kind # "boot" /\ Loading
    <3>1. CASE RpcReply \/ RpcTimeout \/ Begin
      <4>1. call.kind # "boot" /\ at # "halt"
        BY <3>1, NfsLeaves DEF RpcReply, RpcTimeout, Begin, NfsLoader
      <4>2. call'.kind # "boot"
        <5>1. CASE Begin
          BY <5>1 DEF Begin, Call, CallFor
        <5>2. CASE RpcTimeout /\ retries + 1 < MAX_RPC_RETRIES
          BY <4>1, <5>2 DEF RpcTimeout
        <5>3. ASSUME NEW rep, NEW answered, Continue(rep, answered) PROVE call'.kind # "boot"
          BY <4>1, <5>3 DEF Continue, PortsKnown, Mounted, LookedUp, BlockRead, ReadFailed, Unmounted, Umount,
             Call, CallFor, Leave
        <5> QED
          BY <3>1, <5>1, <5>2, <5>3 DEF RpcReply, RpcTimeout
      <4> QED
        BY <4>1, <4>2 DEF Loading
    <3>2. CASE LoadAgain
      BY <3>2 DEF LoadAgain, Idle, Held, Places, Loading
    <3> QED
      BY <1>11, <3>1, <3>2 DEF NfsLoader
  <2> QED
    BY <1>5, <1>11, <2>1, NfsLeaves
<1> QED
  BY <1>4, <1>6, <1>7, <1>8, <1>9, <1>10, <1>11 DEF Next, LoaderStep, BootpLoader

LEMMA HeldFirst ==
  ASSUME Init
  PROVE  Held
<1>1. rx = <<>> /\ Items(rx) = {} /\ Queued
  BY EmptySeq DEF Init, NetInit, Items, Queued
<1>2. net = {} \/ \E s \in Dhcp : net = {BootReply("ACK", s, "others")}
  BY DEF Init, BootpInit
<1>3. Replies
  BY <1>1, <1>2 DEF Flying, Replies, BootGood, BootReply
<1>4. call.kind = "boot" /\ at = "drain" /\ inner = FALSE
  BY DEF Init, BootpInit, NetInit, BootRequest
<1>5. Table
  BY DEF Init, NetInit, Table
<1> QED
  BY <1>1, <1>3, <1>4, <1>5 DEF Held, Places, Forgotten, AtServer, Loading

\* The loader loads with an address that its server holds for it, however many servers
\* offer, confirm and refuse, in whatever order, and whatever is lost, doubled or late.
THEOREM AddressIsHeld == Spec => []AddressHeld
<1>1. Held /\ [Next]_vars => Held'
  <2> SUFFICES ASSUME Held, [Next]_vars PROVE Held'
    OBVIOUS
  <2>1. CASE Next
    BY <2>1, HeldKept
  <2>2. CASE UNCHANGED vars
    BY <2>2 DEF vars, netVars, bootpVars, Held, Queued, Places, Replies, Flying, BootGood, Forgotten, Table, AtServer, Loading
  <2> QED
    BY <2>1, <2>2
<1>2. Held => AddressHeld
  BY DEF Held, AtServer, AddressHeld
<1> QED
  BY <1>1, <1>2, HeldFirst, PTL DEF Spec

\* The name the loader has is one that a server gave.
GivenName(f) == \E n \in Naming : f = n[1]

\* What the answer that made ip the loader's says of the file.
Named ==
  /\ filename = None \/ GivenName(filename)
  /\ Loading => filename # None
  /\ Loading /\ Names(ip) => filename = ip

LEMMA NamedKept ==
  ASSUME Held, Named, Next
  PROVE  Named'
<1>1. CASE BootpReply
  <2> DEFINE m == Head(rx)
  <2>1. filename' = NewFilename(m)
    BY <1>1 DEF BootpReply
  <2>2. filename' = None \/ GivenName(filename')
    <3>1. CASE <<m.from, m.type>> \in Naming
      BY <2>1, <3>1 DEF NewFilename, GivenName
    <3>2. CASE <<m.from, m.type>> \notin Naming
      BY <2>1, <3>2 DEF NewFilename, Named
    <3> QED
      BY <3>1, <3>2
  <2>3. Loading' => filename' # None
    BY <1>1 DEF BootpReply, AcceptsBootp, Loading, Booted, InnerAgain, OuterAgain, Request, BootRequest
  <2>4. ASSUME Loading', Names(ip)' PROVE filename' = ip'
    <3>1. ip' = m.from /\ m.type = IF m.from \in Dhcp THEN "ACK" ELSE "none"
      BY <1>1, <2>4, GoesOnHeld
    <3>2. <<m.from, m.type>> \in Naming
      BY <2>4, <3>1 DEF Names
    <3> QED
      BY <2>1, <3>1, <3>2 DEF NewFilename
  <2> QED
    BY <2>2, <2>3, <2>4 DEF Named, GivenName
<1>2. ASSUME UNCHANGED bootpVars, Loading' => Loading PROVE Named'
  BY <1>2 DEF Named, GivenName, Names, bootpVars
<1>3. CASE Environment
  BY <1>2, <1>3 DEF Environment, Network, Deliver, Lose, Duplicate, ServerArp, ServerForgets, ServerAsks, Serve,
     ServerMoves, loader, Loading
<1>4. CASE (Loader \/ Discard(Accepts)) /\ UNCHANGED <<bootpVars, nfsVars>>
  BY <1>2, <1>4 DEF Loader, Discard, Polling, Transmit, AnswerArp, ArpAnswered, ArpTimeout, loader, Loading
<1>5. CASE BootpDrained
  BY <1>2, <1>5 DEF BootpDrained, Loading
<1>6. CASE Broadcast
  BY <1>6 DEF Broadcast, Named, GivenName, Names, Loading
<1>7. CASE BootpTimeout
  BY <1>7 DEF BootpTimeout, InnerAgain, OuterAgain, Named, GivenName, Names, Loading
<1>8. CASE NfsLoader
  <2>1. UNCHANGED bootpVars /\ at # "halt" /\ (at # "failed" => call.kind # "boot")
    BY <1>8, NfsLeaves
  <2>2. Loading
    BY <2>1 DEF Held, Places, Loading
  <2> QED
    BY <1>2, <2>1, <2>2
<1> QED
  BY <1>1, <1>3, <1>4, <1>5, <1>6, <1>7, <1>8 DEF Next, LoaderStep, BootpLoader

\* Address and server come from one answer, however many servers answer and whatever they
\* name, and the file name too when that answer has one; when it has none, the name is
\* one that some server gave before, and need not be this server's.
THEOREM OneServerAnswers == Spec => []OneServer
<1>1. Init => Held /\ Named
  <2> SUFFICES ASSUME Init PROVE Held /\ Named
    OBVIOUS
  <2>1. call.kind = "boot" /\ filename = None
    BY DEF Init, BootpInit, BootRequest
  <2> QED
    BY <2>1, HeldFirst DEF Named, Loading
<1>2. Held /\ Named /\ [Next]_vars => (Held /\ Named)'
  <2> SUFFICES ASSUME Held, Named, [Next]_vars PROVE (Held /\ Named)'
    OBVIOUS
  <2>1. CASE Next
    BY <2>1, HeldKept, NamedKept
  <2>2. CASE UNCHANGED vars
    BY <2>2 DEF vars, netVars, bootpVars, Held, Queued, Places, Replies, Flying, BootGood, Forgotten, Table, AtServer,
       Named, GivenName, Names, Loading
  <2> QED
    BY <2>1, <2>2
<1>3. Held /\ Named => OneServer
  BY DEF Held, AtServer, Named, GivenName, OneServer
<1> QED
  BY <1>1, <1>2, <1>3, PTL DEF Spec

----------------------------------------------------------------------------
(* What the loader has read *)

\* A call that is made takes a number that nothing on its way has; what has its number
\* is the call, or an answer to it.
Numbers ==
  /\ rpc_id \in Nat
  /\ call.kind = "call" => call.id \in Nat /\ call.id < rpc_id
  /\ \A x \in Flying : x.kind \in {"call", "reply"} => x.id \in Nat /\ x.id < rpc_id

Current ==
  call.kind = "call" =>
    \A x \in Flying : x.kind \in {"call", "reply"} /\ x.id = call.id =>
      IF x.kind = "call" THEN x = call ELSE Gives(x, call)

\* A step keeps the request, or makes one with the next number, or none.
LEMMA CallKept ==
  ASSUME Next
  PROVE  \/ UNCHANGED <<call, rpc_id>>
         \/ call'.kind # "call" /\ rpc_id' = rpc_id
         \/ net' = net /\ call'.kind = "call" /\ call'.id = rpc_id /\ rpc_id' = rpc_id + 1
<1>1. CASE Environment
  BY <1>1 DEF Environment, Network, Deliver, Lose, Duplicate, ServerArp, ServerForgets, ServerAsks, Serve,
     ServerMoves, loader, nfsVars
<1>2. CASE (Loader \/ Discard(Accepts)) /\ UNCHANGED <<bootpVars, nfsVars>>
  BY <1>2 DEF Loader, Discard, Transmit, AnswerArp, ArpAnswered, ArpTimeout, loader, nfsVars
<1>3. CASE BootpLoader /\ UNCHANGED nfsVars
  <2>1. rpc_id' = rpc_id
    BY <1>3 DEF nfsVars
  <2>2. call' = call \/ call'.kind # "call"
    <3>1. CASE BootpDrained \/ Broadcast
      BY <3>1 DEF BootpDrained, Broadcast
    <3>2. CASE BootpTimeout
      BY <3>2 DEF BootpTimeout, InnerAgain, OuterAgain
    <3>3. CASE BootpReply
      <4>1. ASSUME NEW server, NEW file, Booted(server, file) PROVE call'.kind # "call"
        BY <4>1 DEF Booted, Idle
      <4>2. ASSUME NEW type, InnerAgain(type) PROVE call' = call
        BY <4>2 DEF InnerAgain, OuterAgain
      <4>3. ASSUME NEW server, NEW addr, Request(server, addr) PROVE call'.kind # "call"
        BY <4>3 DEF Request, BootRequest
      <4> QED
        BY <3>3, <4>1, <4>2, <4>3, Zenon DEF BootpReply
    <3> QED
      BY <1>3, <3>1, <3>2, <3>3 DEF BootpLoader
  <2> QED
    BY <2>1, <2>2
<1>4. CASE NfsLoader
  <2>1. ASSUME NEW proc, NEW from, NEW port, NEW o, NEW n, CallFor(proc, from, port, o, n)
        PROVE  call'.kind = "call" /\ call'.id = rpc_id /\ rpc_id' = rpc_id + 1
    BY <2>1 DEF CallFor
  <2>2. ASSUME NEW rep, NEW answered, Continue(rep, answered)
        PROVE  /\ net' = net
               /\ \/ UNCHANGED <<call, rpc_id>>
                  \/ call'.kind = "call" /\ call'.id = rpc_id /\ rpc_id' = rpc_id + 1
    <3>1. net' = net
      BY <2>2 DEF Continue, steady
    <3>2. ASSUME Umount PROVE UNCHANGED <<call, rpc_id>> \/ (call'.kind = "call" /\ call'.id = rpc_id /\ rpc_id' = rpc_id + 1)
      BY <2>1, <3>2 DEF Umount, Call
    <3>3. CASE PortsKnown(rep)
      BY <2>1, <3>1, <3>3, Zenon DEF PortsKnown, Call
    <3>4. CASE Mounted(rep) \/ LookedUp(rep) \/ ReadFailed(rep)
      BY <2>1, <3>1, <3>2, <3>4 DEF Mounted, LookedUp, ReadFailed, Call
    <3>5. CASE BlockRead(rep)
      BY <2>1, <3>1, <3>5, Zenon DEF BlockRead, Call
    <3>6. CASE Unmounted(answered)
      BY <3>1, <3>6 DEF Unmounted
    <3> QED
      BY <2>2, <3>3, <3>4, <3>5, <3>6 DEF Continue
  <2>3. CASE Begin
    BY <2>1, <2>3 DEF Begin, Call, steady
  <2>4. CASE RpcReply \/ RpcTimeout
    BY <2>2, <2>4 DEF RpcReply, RpcTimeout, steady
  <2>5. CASE LoadAgain
    BY <2>5 DEF LoadAgain, Idle
  <2> QED
    BY <1>4, <2>3, <2>4, <2>5 DEF NfsLoader
<1> QED
  BY <1>1, <1>2, <1>3, <1>4 DEF Next, LoaderStep

LEMMA NumbersKept ==
  ASSUME Queued, Places, Numbers, Current, Next
  PROVE  Numbers' /\ Current'
<1>1. \A x \in Flying' : x \in Flying \/ IsNew(x)
  BY FlyingGrows
\* What is new has a number that there is already.
<1>2. ASSUME NEW x \in Flying', x.kind \in {"call", "reply"}
      PROVE  /\ x.id \in Nat /\ x.id < rpc_id
             /\ call.kind = "call" /\ x.id = call.id => IF x.kind = "call" THEN x = call ELSE Gives(x, call)
  <2>1. CASE x \in Flying
    BY <1>2, <2>1 DEF Numbers, Current
  <2>2. CASE x = call /\ call.kind = "call"
    BY <2>2 DEF Numbers
  <2>3. CASE IsBootReply(x)
    BY <1>2, <2>3 DEF IsBootReply, BootReply
  <2>4. ASSUME NEW m \in net, m.kind = "call", IsReply(x, m)
        PROVE  /\ x.id \in Nat /\ x.id < rpc_id
               /\ call.kind = "call" /\ x.id = call.id => IF x.kind = "call" THEN x = call ELSE Gives(x, call)
    <3>1. m \in Flying
      BY DEF Flying
    <3>2. m.id \in Nat /\ m.id < rpc_id /\ (call.kind = "call" /\ m.id = call.id => m = call)
      BY <2>4, <3>1 DEF Numbers, Current
    <3>3. x.kind = "reply" /\ x.id = m.id /\ Gives(x, m)
      BY <2>4 DEF IsReply
    <3> QED
      BY <3>2, <3>3
  <2> QED
    BY <1>1, <1>2, <2>1, <2>2, <2>3, <2>4 DEF IsNew
<1>3. CASE UNCHANGED <<call, rpc_id>>
  BY <1>2, <1>3 DEF Numbers, Current
<1>4. CASE call'.kind # "call" /\ rpc_id' = rpc_id
  BY <1>2, <1>4 DEF Numbers, Current
<1>5. CASE call'.kind = "call" /\ call'.id = rpc_id /\ rpc_id' = rpc_id + 1
  <2>1. rpc_id \in Nat
    BY DEF Numbers
  <2>2. \A x \in Flying' : x.kind \in {"call", "reply"} => x.id \in Nat /\ x.id < rpc_id' /\ x.id # call'.id
    BY <1>2, <1>5, <2>1
  <2>3. call'.id \in Nat /\ call'.id < rpc_id' /\ rpc_id' \in Nat
    BY <1>5, <2>1
  <2> QED
    BY <2>2, <2>3 DEF Numbers, Current
<1> QED
  BY <1>3, <1>4, <1>5, CallKept

Content == File[arptable.ip]
HasRead(n) == n \in 0 .. Len(Content) /\ image = SubSeq(Content, 1, n)

Early == call.kind # "call" \/ call.proc \in {"mountport", "nfsport", "mount", "lookup"}
Reading == call.kind = "call" /\ call.proc = "read" /\ at \notin {"failed", "done"}

\* Asked for is what follows what has been read, at most to the end, once that is known.
Asks ==
  /\ HasRead(offs) /\ call.off = offs /\ call.len = len /\ len \in Nat \ {0}
  /\ \/ size = -1 /\ offs = 0 /\ len = READ
     \/ size = Len(Content) /\ len = IF size - offs < READ THEN size - offs ELSE READ

Progress ==
  /\ Early => image = <<>> /\ ~loaded
  /\ Loading =>
       /\ call.kind = "call" => call.to = arptable.ip
       /\ \E n \in Nat : HasRead(n)
       /\ loaded => image = Content
       /\ at = "failed" => ~loaded
       /\ at = "done" => loaded
       /\ Reading => ~loaded /\ Asks

LEMMA ContentIs ==
  ASSUME Held, Loading
  PROVE  Content \in Seq(Int) /\ Len(Content) \in Nat
<1>1. arptable.ip \in Servers
  BY DEF Held, AtServer
<1> QED
  BY <1>1, NfsConstantsOK, LenProperties DEF Content

LEMMA NothingRead ==
  ASSUME Held, Loading, image = <<>>
  PROVE  HasRead(0)
<1>1. SubSeq(Content, 1, 0) = <<>>
  BY SubSeqEmpty
<1>2. 0 \in 0 .. Len(Content)
  BY ContentIs
<1> QED
  BY <1>1, <1>2 DEF HasRead

\* A call that is not for a piece of the file.
LEMMA OtherCall ==
  ASSUME Held, Progress, Loading, UNCHANGED <<arptable, image, loaded>>,
         NEW proc, NEW from, NEW port, Call(proc, from, port), proc # "read",
         proc \in {"mountport", "nfsport", "mount", "lookup"} => Early
  PROVE  Progress'
<1>1. call'.kind = "call" /\ call'.proc = proc /\ call'.to = arptable.ip /\ at' = "send"
  BY DEF Call, CallFor
<1> QED
  BY <1>1 DEF Progress, Early, Reading, HasRead, Content

\* The end of an attempt that has not loaded the file.
LEMMA UmountNotLoaded ==
  ASSUME Held, Progress, Loading, UNCHANGED <<arptable, image, loaded>>, ~loaded, Umount
  PROVE  Progress'
<1>1. CASE fs_mounted
  BY <1>1, OtherCall DEF Umount
<1>2. CASE ~fs_mounted
  <2>1. at' = "failed" /\ call' = call
    BY <1>2 DEF Umount, Leave
  <2> QED
    BY <2>1 DEF Progress, Early, Reading, HasRead, Content, Loading
<1> QED
  BY <1>1, <1>2

\* What a reply holds is what follows.
LEMMA PieceFits ==
  ASSUME Held, Progress, Loading, Reading, NEW x, Gives(x, call), x.ok
  PROVE  /\ x.body.size = Len(Content)
         /\ \E k \in Nat : /\ k <= len /\ offs + k <= Len(Content) /\ offs \in Nat
                           /\ x.body.data = SubSeq(Content, offs + 1, offs + k)
                           /\ Len(x.body.data) = k
<1>1. /\ HasRead(offs) /\ call.off = offs /\ call.len = len /\ len \in Nat /\ call.to = arptable.ip
      /\ Len(Content) \in Nat /\ Content \in Seq(Int)
  BY ContentIs DEF Progress, Reading, Asks
<1>2. offs \in Nat /\ offs <= Len(Content)
  BY <1>1 DEF HasRead
<1>3. x.body.size = Len(Content)
  BY <1>1 DEF Gives, Content
<1>4. PICK k : /\ x.body.data = Piece(call, k)
               /\ LET n == IF call.len <= Left(call) THEN call.len ELSE Left(call) IN k = n \/ (k = 1 /\ n > 1)
  BY DEF Gives
<1>5. Left(call) = Len(Content) - offs
  BY <1>1 DEF Left, Content
<1>6. k \in Nat /\ k <= len /\ offs + k <= Len(Content)
  BY <1>1, <1>2, <1>4, <1>5
<1>7. x.body.data = SubSeq(Content, offs + 1, offs + k)
  BY <1>1, <1>4 DEF Piece, Content
<1>8. Len(SubSeq(Content, offs + 1, offs + k)) = k
  <2>1. \A i \in offs + 1 .. offs + k : Content[i] \in Int
    BY <1>1, <1>2, <1>6, ElementOfSeq
  <2>2. Len(SubSeq(Content, offs + 1, offs + k)) =
          IF offs + 1 <= offs + k THEN (offs + k) - (offs + 1) + 1 ELSE 0
    <3>1. offs + 1 \in Int /\ offs + k \in Int
      BY <1>2, <1>6
    <3> HIDE DEF Content
    <3> QED
      BY <2>1, <3>1, SubSeqProperties
  <2> QED
    BY <1>2, <1>6, <2>2
<1> QED
  BY <1>2, <1>3, <1>6, <1>7, <1>8

\* A block goes behind the last, and the next one is asked for, until it is the last.
LEMMA BlockProgress ==
  ASSUME Held, Progress, Loading, Reading, UNCHANGED arptable, NEW x, Gives(x, call), x.ok, BlockRead(x)
  PROVE  Progress'
<1>1. /\ HasRead(offs) /\ ~loaded /\ len \in Nat \ {0} /\ Len(Content) \in Nat /\ Content \in Seq(Int)
      /\ \/ size = -1 /\ offs = 0 /\ len = READ
         \/ size = Len(Content) /\ len = IF size - offs < READ THEN size - offs ELSE READ
  BY ContentIs DEF Progress, Asks
<1>2. PICK k \in Nat : /\ k <= len /\ offs + k <= Len(Content) /\ offs \in Nat
                       /\ x.body.data = SubSeq(Content, offs + 1, offs + k)
                       /\ Len(x.body.data) = k
  BY PieceFits
<1>3. x.body.size = Len(Content) /\ READ \in Nat \ {0}
  BY PieceFits, NfsConstantsOK
<1> DEFINE rlen == IF Len(x.body.data) > len THEN len ELSE Len(x.body.data)
<1>4. /\ size' = IF size = -1 THEN x.body.size ELSE size
      /\ Binaryload(SubSeq(x.body.data, 1, rlen))
      /\ offs' = offs + rlen
      /\ len' = IF size' - offs' < READ THEN size' - offs' ELSE len
      /\ loaded' = (len' = 0)
      /\ \/ len' # 0 /\ CallFor("read", sport, nfs_port, offs', len')
         \/ len' = 0 /\ Call("umount", oport, mount_port)
         \/ len' = 0 /\ at' = "done" /\ UNCHANGED call
  BY DEF BlockRead
<1>5. rlen = k
  BY <1>1, <1>2
<1>6. image' = SubSeq(Content, 1, offs + k)
  <2>1. SubSeq(x.body.data, 1, k) = x.body.data
    <3>1. x.body.data \in Seq(Int)
      <4>1. \A i \in offs + 1 .. offs + k : Content[i] \in Int
        BY <1>1, <1>2, ElementOfSeq
      <4>2. offs + 1 \in Int /\ offs + k \in Int
        BY <1>2
      <4> QED
        BY <1>2, <4>1, <4>2, SubSeqProperties
    <3> QED
      BY <1>2, <3>1, SubSeqFull
  <2>2. image' = image \o x.body.data
    BY <1>4, <1>5, <2>1 DEF Binaryload
  <2>3. image = SubSeq(Content, 1, offs)
    BY <1>1 DEF HasRead
  <2>4. SubSeq(Content, 1, offs) \o SubSeq(Content, offs + 1, offs + k) = SubSeq(Content, 1, offs + k)
    <3>1. 1 \in 1 .. Len(Content) + 1 /\ offs \in (1 - 1) .. Len(Content) /\ offs + k \in offs .. Len(Content)
      BY <1>1, <1>2
    <3> QED
      BY <1>1, <3>1, ConcatAdjacentSubSeq
  <2> QED
    BY <1>2, <2>2, <2>3, <2>4
<1>7. Content' = Content /\ arptable' = arptable
  BY DEF Content
<1>8. offs' = offs + k /\ size' = Len(Content)
  BY <1>1, <1>3, <1>4, <1>5
<1>9. HasRead(offs)'
  BY <1>1, <1>2, <1>6, <1>7, <1>8 DEF HasRead
<1>10. len' = IF size' - offs' < READ THEN size' - offs' ELSE READ
  <2>1. PICK c \in Nat, l \in Nat, o \in Nat : c = Len(Content) /\ l = len /\ o = offs
    BY <1>1, <1>2
  <2>2. o + k <= c /\ (l = READ \/ l = IF c - o < READ THEN c - o ELSE READ)
    BY <1>1, <1>2, <2>1
  <2>3. (IF c - (o + k) < READ THEN c - (o + k) ELSE l) = IF c - (o + k) < READ THEN c - (o + k) ELSE READ
    BY <1>3, <2>2
  <2>4. size' = c /\ offs' = o + k
    BY <1>8, <2>1
  <2> QED
    BY <1>4, <2>1, <2>3, <2>4, Zenon
<1>11. len' \in Nat /\ (len' = 0 => offs' = Len(Content)) /\ offs' \in Nat
  BY <1>1, <1>2, <1>3, <1>8, <1>10
<1>12. len' = 0 => image' = Content'
  BY <1>1, <1>6, <1>7, <1>8, <1>11, SubSeqFull
<1>13. CASE len' # 0 /\ CallFor("read", sport, nfs_port, offs', len')
  <2>1. call'.kind = "call" /\ call'.proc = "read" /\ call'.to = arptable'.ip /\ call'.off = offs' /\ call'.len = len' /\ at' = "send"
    BY <1>7, <1>13 DEF CallFor
  <2>2. ~loaded' /\ Asks' /\ ~Early'
    BY <1>4, <1>7, <1>8, <1>9, <1>10, <1>11, <1>13, <2>1 DEF Asks, Early
  <2> QED
    BY <1>9, <1>11, <2>1, <2>2 DEF Progress
<1>14. CASE len' = 0 /\ Call("umount", oport, mount_port)
  <2>1. call'.kind = "call" /\ call'.proc = "umount" /\ call'.to = arptable'.ip /\ at' = "send"
    BY <1>7, <1>14 DEF Call, CallFor
  <2> QED
    BY <1>4, <1>9, <1>11, <1>12, <1>14, <2>1 DEF Progress, Early, Reading
<1>15. CASE len' = 0 /\ at' = "done" /\ UNCHANGED call
  <2>1. call'.kind = "call" /\ call'.proc = "read" /\ call'.to = arptable'.ip /\ loaded'
    BY <1>4, <1>7, <1>15 DEF Reading, Progress
  <2> QED
    BY <1>9, <1>11, <1>12, <1>15, <2>1 DEF Progress, Early, Reading
<1> QED
  BY <1>4, <1>13, <1>14, <1>15

LEMMA AnswerProgress ==
  ASSUME Held, Progress, Loading, call.kind = "call", at = "await", NEW rep, NEW answered,
         Continue(rep, answered), rep.ok => Gives(rep, call)
  PROVE  Progress'
<1>0. UNCHANGED arptable
  BY DEF Continue, steady
<1>1. CASE PortsKnown(rep)
  <2>1. UNCHANGED <<image, loaded>> /\ Early /\ ~loaded
    BY <1>1 DEF PortsKnown, reading, Early, Progress
  <2>2. \/ \E mp : Call("nfsport", sport, 0) \/ Call("mount", sport, mp)
        \/ at' = "failed" /\ UNCHANGED call
    BY <1>1 DEF PortsKnown
  <2>3. CASE at' = "failed" /\ UNCHANGED call
    BY <1>0, <2>1, <2>3 DEF Progress, Early, Reading, HasRead, Content
  <2> QED
    BY <1>0, <2>1, <2>2, <2>3, OtherCall
<1>2. CASE Mounted(rep)
  <2>1. UNCHANGED <<image, loaded>> /\ Early /\ ~loaded
    BY <1>2 DEF Mounted, reading, Early, Progress
  <2>2. Call("lookup", sport, nfs_port) \/ Umount
    BY <1>2 DEF Mounted
  <2> QED
    BY <1>0, <2>1, <2>2, OtherCall, UmountNotLoaded
<1>3. CASE LookedUp(rep)
  <2>1. UNCHANGED <<image, loaded>> /\ Early /\ ~loaded /\ image = <<>>
    BY <1>3 DEF LookedUp, Early, Progress
  <2>2. CASE ~rep.ok
    BY <1>0, <1>3, <2>1, <2>2, UmountNotLoaded DEF LookedUp
  <2>3. CASE rep.ok
    <3>1. offs' = 0 /\ size' = -1 /\ len' = READ /\ CallFor("read", sport, nfs_port, 0, READ)
      BY <1>3, <2>3 DEF LookedUp
    <3>2. /\ call'.kind = "call" /\ call'.proc = "read" /\ call'.to = arptable'.ip /\ at' = "send"
          /\ call'.off = 0 /\ call'.len = READ
      BY <1>0, <3>1 DEF CallFor
    <3>3. HasRead(0)' /\ READ \in Nat \ {0}
      BY <1>0, <2>1, NothingRead, NfsConstantsOK DEF HasRead, Content
    <3>4. HasRead(offs)'
      BY <3>1, <3>3 DEF HasRead, Content
    <3>5. Asks'
      BY <3>1, <3>2, <3>3, <3>4 DEF Asks
    <3>6. ~loaded' /\ ~Early'
      BY <2>1, <3>2 DEF Early
    <3>7. \E n \in Nat : HasRead(n)'
      <4>1. 0 \in Nat
        OBVIOUS
      <4> QED
        BY <3>3, <4>1
    <3> QED
      BY <3>2, <3>5, <3>6, <3>7 DEF Progress
  <2> QED
    BY <2>2, <2>3
<1>4. CASE BlockRead(rep)
  <2>1. Reading /\ rep.ok
    BY <1>4 DEF BlockRead, Reading
  <2> QED
    BY <1>0, <1>4, <2>1, BlockProgress
<1>5. CASE ReadFailed(rep)
  <2>1. UNCHANGED <<image, loaded>> /\ ~loaded /\ Umount
    BY <1>5 DEF ReadFailed, reading, Reading, Progress
  <2> QED
    BY <1>0, <2>1, UmountNotLoaded
<1>6. CASE Unmounted(answered)
  <2>1. UNCHANGED <<image, loaded, call>> /\ at' = IF loaded THEN "done" ELSE "failed"
    BY <1>6 DEF Unmounted, Leave, reading
  <2> QED
    BY <1>0, <2>1 DEF Progress, Early, Reading, HasRead, Content
<1> QED
  BY <1>1, <1>2, <1>3, <1>4, <1>5, <1>6 DEF Continue

LEMMA ProgressKept ==
  ASSUME Held, Numbers, Current, Progress, Next
  PROVE  Progress'
\* A step that has to do with neither the call nor the file.
<1>1. ASSUME UNCHANGED <<call, image, loaded, offs, size, len>>, arptable'.ip = arptable.ip, Loading' => Loading,
             at' \in {"failed", "done"} <=> at \in {"failed", "done"}, at' # "failed" \/ at = "failed",
             at' # "done" \/ at = "done"
      PROVE  Progress'
  BY <1>1 DEF Progress, Early, Reading, Asks, HasRead, Content
<1>2. CASE Environment
  BY <1>1, <1>2 DEF Environment, Network, Deliver, Lose, Duplicate, ServerArp, ServerForgets, ServerAsks, Serve,
     ServerMoves, loader, Loading, nfsVars
<1>3. CASE (Loader \/ Discard(Accepts)) /\ UNCHANGED <<bootpVars, nfsVars>>
  <2>1. arptable'.ip = arptable.ip
    BY <1>3 DEF Loader, Discard, Transmit, AnswerArp, ArpAnswered, ArpTimeout, loader, Held, Table
  <2>2. /\ at \notin {"failed", "done", "halt"} /\ at' \notin {"failed", "done", "halt"} /\ call' = call
        /\ UNCHANGED <<image, loaded, offs, size, len>>
    BY <1>3 DEF Loader, Discard, Polling, Transmit, AnswerArp, ArpAnswered, ArpTimeout, loader, nfsVars
  <2> QED
    BY <1>1, <2>1, <2>2 DEF Loading
<1>4. CASE BootpLoader /\ UNCHANGED nfsVars
  <2>1. UNCHANGED <<image, loaded>> /\ call.kind = "boot"
    BY <1>4 DEF nfsVars, BootpLoader, BootpDrained, Broadcast, BootpReply, BootpTimeout, AcceptsBootp
  <2>2. image = <<>> /\ ~loaded
    BY <2>1 DEF Progress, Early
  <2>3. CASE Loading'
    <3>1. BootpReply
      BY <1>4, <2>1, <2>3 DEF BootpLoader, BootpDrained, Broadcast, BootpTimeout, InnerAgain, OuterAgain, Loading
    <3>2. Held'
      BY HeldKept
    <3>3. call'.kind = "idle" /\ at' = "drain"
      <4>1. ASSUME NEW server, NEW file, Booted(server, file) PROVE call'.kind = "idle" /\ at' = "drain"
        BY <2>3, <4>1 DEF Booted, Idle, Loading
      <4>2. ASSUME NEW type, InnerAgain(type) PROVE call' = call
        BY <4>2 DEF InnerAgain, OuterAgain
      <4>3. ASSUME NEW server, NEW addr, Request(server, addr) PROVE call'.kind = "boot"
        BY <4>3 DEF Request, BootRequest
      <4> QED
        BY <2>1, <2>3, <3>1, <4>1, <4>2, <4>3, Zenon DEF BootpReply, Loading
    <3>4. Content' \in Seq(Int) /\ Len(Content') \in Nat
      <4>1. arptable'.ip \in Servers
        BY <2>3, <3>2 DEF Held, AtServer
      <4> QED
        BY <4>1, NfsConstantsOK, LenProperties DEF Content
    <3>5. HasRead(0)'
      <4>1. SubSeq(Content', 1, 0) = <<>>
        BY SubSeqEmpty
      <4>2. 0 \in 0 .. Len(Content')
        BY <3>4
      <4> QED
        BY <2>1, <2>2, <4>1, <4>2 DEF HasRead
    <3>6. \E n \in Nat : HasRead(n)'
      <4>1. 0 \in Nat
        OBVIOUS
      <4> QED
        BY <3>5, <4>1
    <3> QED
      BY <2>1, <2>2, <3>3, <3>6 DEF Progress, Reading
  <2>4. CASE ~Loading'
    BY <2>1, <2>2, <2>4 DEF Progress
  <2> QED
    BY <2>3, <2>4
<1>5. CASE Begin
  <2>1. call.kind = "idle" /\ at = "drain" /\ UNCHANGED <<arptable, image, loaded>>
    BY <1>5 DEF Begin, steady, reading
  <2>2. \/ Call("mountport", oport, 0) \/ Call("nfsport", oport, 0)
        \/ Call("mount", oport, mount_port)
    BY <1>5 DEF Begin
  <2> QED
    BY <2>1, <2>2, OtherCall DEF Early, Loading
<1>6. CASE RpcReply
  <2>1. call.kind = "call" /\ at = "await" /\ rx # <<>> /\ AcceptsRpc(Head(rx)) /\ Queued
    BY <1>6 DEF RpcReply, AcceptsRpc, Held
  <2>2. Head(rx) \in Flying
    <3>1. rx' = Tail(rx)
      BY <1>6 DEF RpcReply
    <3> QED
      BY <2>1, <3>1, QueueShrinks
  <2>3. Gives(Head(rx), call)
    BY <2>1, <2>2 DEF Current, AcceptsRpc
  <2>4. Continue(Head(rx), TRUE)
    BY <1>6 DEF RpcReply
  <2> QED
    BY <2>1, <2>3, <2>4, AnswerProgress DEF Loading
<1>7. CASE RpcTimeout
  <2>1. CASE Continue(Silent, FALSE)
    <3>1. ~Silent.ok
      BY DEF Silent
    <3> QED
      BY <1>7, <2>1, <3>1, AnswerProgress DEF RpcTimeout, Loading
  <2>2. CASE ~Continue(Silent, FALSE)
    <3>1. UNCHANGED <<call, image, loaded, offs, size, len, arptable>> /\ at = "await" /\ at' = "send"
      BY <1>7, <2>2 DEF RpcTimeout, reading, steady
    <3> QED
      BY <1>1, <3>1 DEF Loading
  <2> QED
    BY <2>1, <2>2
<1>8. CASE LoadAgain
  <2>1. /\ at = "failed" /\ at' = "drain" /\ call'.kind = "idle" /\ image' = <<>> /\ UNCHANGED <<arptable, loaded>>
    BY <1>8 DEF LoadAgain, Idle
  <2>2. Loading
    BY <2>1 DEF Held, Places, Loading
  <2>3. ~loaded'
    BY <2>1, <2>2 DEF Progress
  <2>4. HasRead(0)'
    <3>1. SubSeq(Content, 1, 0) = <<>> /\ 0 \in 0 .. Len(Content)
      BY <2>2, SubSeqEmpty, ContentIs
    <3> QED
      BY <2>1, <3>1 DEF HasRead, Content
  <2>5. \E n \in Nat : HasRead(n)'
    <3>1. 0 \in Nat
      OBVIOUS
    <3> QED
      BY <2>4, <3>1
  <2> QED
    BY <2>1, <2>3, <2>5 DEF Progress, Reading
<1> QED
  BY <1>2, <1>3, <1>4, <1>5, <1>6, <1>7, <1>8 DEF Next, LoaderStep, NfsLoader

LEMMA ImageIs ==
  ASSUME Held, Progress
  PROVE  ImageExact
<1> SUFFICES ASSUME Loading
             PROVE  /\ Len(image) <= Len(Content)
                    /\ image = SubSeq(Content, 1, Len(image))
                    /\ at = "done" => image = Content
  BY DEF ImageExact, Content
<1>1. PICK n \in Nat : HasRead(n)
  BY DEF Progress
<1>2. Content \in Seq(Int) /\ Len(Content) \in Nat /\ n <= Len(Content)
  BY <1>1, ContentIs DEF HasRead
<1>3. Len(SubSeq(Content, 1, n)) = n
  <2>1. \A i \in 1 .. n : Content[i] \in Int
    BY <1>2, ElementOfSeq
  <2>2. Len(SubSeq(Content, 1, n)) = IF 1 <= n THEN n - 1 + 1 ELSE 0
    <3>1. n \in Int
      OBVIOUS
    <3> HIDE DEF Content
    <3> QED
      BY <2>1, <3>1, SubSeqProperties
  <2> QED
    BY <2>2
<1>4. image = SubSeq(Content, 1, n)
  BY <1>1 DEF HasRead
<1>5. at = "done" => image = Content
  BY DEF Progress
<1> QED
  BY <1>2, <1>3, <1>4, <1>5

LEMMA LoadingFirst ==
  ASSUME Init
  PROVE  Numbers /\ Current /\ Progress
<1>1. Items(rx) = {} /\ call.kind = "boot" /\ rpc_id = 0 /\ image = <<>> /\ loaded = FALSE
  BY DEF Init, NetInit, BootpInit, NfsInit, Items, BootRequest
<1>2. \A x \in Flying : x.kind = "bootreply"
  BY <1>1 DEF Init, BootpInit, Flying, BootReply
<1>3. Numbers
  BY <1>1, <1>2 DEF Numbers
<1> QED
  BY <1>1, <1>3 DEF Current, Progress, Loading

\* What is at the load address is the beginning of the server's file, and all of it when the
\* kernel is started, whatever the network did: a late or doubled answer is never taken for
\* another block's.
THEOREM ImageIsExact == Spec => []ImageExact
<1> DEFINE Inv == Held /\ Numbers /\ Current /\ Progress
<1>1. Init => Inv
  BY HeldFirst, LoadingFirst
<1>2. Inv /\ [Next]_vars => Inv'
  <2> SUFFICES ASSUME Inv, [Next]_vars PROVE Inv'
    OBVIOUS
  <2>1. CASE Next
    <3>1. Queued /\ Places
      BY DEF Held
    <3> QED
      BY <2>1, <3>1, HeldKept, NumbersKept, ProgressKept
  <2>2. CASE UNCHANGED vars
    <3>1. Held'
      BY <2>2 DEF vars, netVars, bootpVars, Held, Queued, Places, Replies, Flying, BootGood, Forgotten, Table, AtServer,
         Loading
    <3>2. Numbers' /\ Current'
      BY <2>2 DEF vars, netVars, nfsVars, Numbers, Current, Flying
    <3>3. Progress'
      BY <2>2 DEF vars, netVars, nfsVars, Progress, Early, Reading, Asks, HasRead, Content, Loading
    <3> QED
      BY <3>1, <3>2, <3>3
  <2> QED
    BY <2>1, <2>2
<1>3. Inv => ImageExact
  BY ImageIs
<1> QED
  BY <1>1, <1>2, <1>3, PTL DEF Spec

----------------------------------------------------------------------------
(* Without faults, every mount is released *)

\* Where the call that is made, or its answer, is: exactly one of them is on its way.
Plain(x) == x.kind \notin {"call", "reply"}
AllPlain(S) == \A x \in S : Plain(x)

Quiet == AllPlain(Flying)
Asked == call \in net /\ AllPlain(net \ {call}) /\ AllPlain(Items(rx))

\* The answer: a failure only if there is no such file, and the right port.
Right(c, r) ==
  /\ c.kind = "call" /\ r.kind = "reply" /\ r.port = c.sport /\ r.id = c.id
  /\ c.proc # "lookup" => r.ok
  /\ c.proc \in {"mountport", "nfsport"} => r.body.port = IF c.proc = "mountport" THEN 1 ELSE NFSD

Coming == AllPlain(Items(rx)) /\ \E r \in net : Right(call, r) /\ AllPlain(net \ {r})
Come ==
  /\ AllPlain(net)
  /\ \E i \in 1 .. Len(rx) : Right(call, rx[i]) /\ \A j \in 1 .. Len(rx) : j # i => Plain(rx[j])

\* The server's clients, before it gets the call and after.
Before == IF call.proc \in {"lookup", "read", "umount"} THEN {arptable.ip} ELSE {}
After == IF call.proc \in {"mount", "lookup", "read"} THEN {arptable.ip} ELSE {}

Pending == call.kind = "call" /\ at \notin {"failed", "done"}

Exchange ==
  IF Pending
    THEN /\ fs_mounted <=> call.proc \in {"lookup", "read", "umount"}
         /\ IF at = "await"
              THEN (Asked /\ mounted = Before) \/ ((Coming \/ Come) /\ mounted = After)
              ELSE Quiet /\ mounted = Before
    ELSE Quiet /\ mounted = {} /\ ~fs_mounted

\* No call goes to a port where nobody listens.
Ports ==
  /\ \A s \in Servers : mountd[s] = 1
  /\ mount_port \in {None, 1} /\ nfs_port \in {None, NFSD}
  /\ call.kind = "call" =>
       /\ call.proc \in {"mountport", "nfsport", "mount", "lookup", "read", "umount"}
       /\ call.proc \in {"mount", "umount"} => call.port = 1
       /\ call.proc \in {"lookup", "read"} => call.port = NFSD
       /\ call.proc \notin {"mountport", "nfsport"} => mount_port = 1 /\ nfs_port = NFSD

\* The server's hardware address is asked for once.
Arping ==
  at \in {"arp", "arplate"} =>
    /\ at = "arp"
    /\ ArpRequest("loader", arptable.ip) \in net \/ ArpReply(arptable.ip, "loader") \in Flying

Clean == faults \in Nat /\ (faults = 0 => Exchange /\ Ports /\ Arping)

LEMMA PendingIs ==
  ASSUME Held, Progress, Pending
  PROVE  Loading /\ call.to = arptable.ip /\ call.to \in Servers /\ call.to # "loader"
<1>1. Loading
  BY DEF Held, Places, Pending, Loading
<1> QED
  BY <1>1, Constants DEF Held, AtServer, Progress, Pending

LEMMA FaultsGrow ==
  ASSUME faults \in Nat, Next
  PROVE  faults' \in Nat /\ (faults' = 0 => faults = 0 /\ ~Fault)
<1>1. faults' = faults \/ Fault
  <2>1. CASE Environment
    BY <2>1 DEF Environment, Network, Deliver, Lose, Duplicate, ServerArp, ServerForgets, ServerAsks, Serve, ServerMoves
  <2>2. CASE Loader \/ Discard(Accepts)
    BY <2>2 DEF Loader, Discard, Transmit, AnswerArp, ArpAnswered, ArpTimeout, Silence
  <2>3. CASE BootpLoader
    BY <2>3 DEF BootpLoader, BootpDrained, Broadcast, BootpReply, BootpTimeout, Silence
  <2>4. CASE NfsLoader
    BY <2>4 DEF NfsLoader, Begin, RpcReply, RpcTimeout, LoadAgain, Silence
  <2> QED
    BY <2>1, <2>2, <2>3, <2>4 DEF Next, LoaderStep
<1> QED
  BY <1>1 DEF Fault

\* Steps that neither add nor take a call or an answer.
SameCall ==
  /\ UNCHANGED <<call, mounted, fs_mounted>> /\ arptable'.ip = arptable.ip
  /\ at' = "await" <=> at = "await"
  /\ at' \in {"failed", "done"} <=> at \in {"failed", "done"}

LEMMA ExchangeSame ==
  ASSUME Exchange, SameCall, Quiet => Quiet', Pending /\ Asked => Asked',
         Coming \/ Come => Coming' \/ Come'
  PROVE  Exchange'
BY DEF Exchange, SameCall, Pending, Before, After

LEMMA NetSame ==
  ASSUME Exchange, SameCall, UNCHANGED rx, NEW R, NEW A, net' = (net \ R) \cup A, AllPlain(R), AllPlain(A)
  PROVE  Exchange'
<1>1. Quiet => Quiet'
  BY DEF Quiet, AllPlain, Flying
<1>2. Pending /\ Asked => Asked'
  BY DEF Asked, AllPlain, SameCall, Pending, Plain
<1>3. ASSUME Coming PROVE Coming'
  <2>1. PICK r \in net : Right(call, r) /\ AllPlain(net \ {r})
    BY <1>3 DEF Coming
  <2>2. ~Plain(r)
    BY <2>1 DEF Right, Plain
  <2>3. r \in net' /\ AllPlain(net' \ {r})
    BY <2>1, <2>2 DEF AllPlain
  <2>4. Right(call', r)
    BY <2>1 DEF SameCall
  <2> QED
    BY <1>3, <2>3, <2>4 DEF Coming
<1>4. ASSUME Come PROVE Come'
  <2>1. AllPlain(net')
    BY <1>4 DEF Come, AllPlain
  <2>2. \A x : Right(call, x) => Right(call', x)
    BY DEF SameCall
  <2> QED
    BY <1>4, <2>1, <2>2 DEF Come
<1> QED
  BY <1>1, <1>2, <1>3, <1>4, ExchangeSame

\* A packet that is neither leaves the queue.
LEMMA QueueSame ==
  ASSUME Exchange, SameCall, Queued, rx # <<>>, Plain(Head(rx)), rx' = Tail(rx),
         NEW A, net' = net \cup A, AllPlain(A)
  PROVE  Exchange'
<1>1. Items(rx') \subseteq Items(rx)
  BY QueueShrinks
<1>2. Quiet => Quiet'
  BY <1>1 DEF Quiet, AllPlain, Flying
<1>3. Pending /\ Asked => Asked'
  BY <1>1 DEF Asked, AllPlain, SameCall
<1>4. \A x : Right(call, x) => Right(call', x)
  BY DEF SameCall
<1>5. ASSUME Coming PROVE Coming'
  <2>1. PICK r \in net : Right(call, r) /\ AllPlain(net \ {r})
    BY <1>5 DEF Coming
  <2>2. r \in net' /\ AllPlain(net' \ {r})
    BY <2>1 DEF AllPlain
  <2>3. AllPlain(Items(rx'))
    BY <1>1, <1>5 DEF Coming, AllPlain
  <2> QED
    BY <1>4, <2>1, <2>2, <2>3 DEF Coming
<1>6. ASSUME Come PROVE Come'
  <2>1. PICK i \in 1 .. Len(rx) : Right(call, rx[i]) /\ \A j \in 1 .. Len(rx) : j # i => Plain(rx[j])
    BY <1>6 DEF Come
  <2>2. /\ Len(rx) \in Nat /\ Len(rx') = Len(rx) - 1 /\ Head(rx) = rx[1]
        /\ \A j \in 1 .. Len(rx') : rx'[j] = rx[j + 1]
    BY HeadTailProperties, LenProperties DEF Queued
  <2>3. i # 1
    BY <2>1, <2>2 DEF Right, Plain
  <2>4. i - 1 \in 1 .. Len(rx') /\ rx'[i - 1] = rx[i]
    BY <2>2, <2>3
  <2>5. ASSUME NEW j \in 1 .. Len(rx'), j # i - 1 PROVE Plain(rx'[j])
    <3>1. j + 1 \in 1 .. Len(rx) /\ j + 1 # i /\ rx'[j] = rx[j + 1]
      BY <2>2, <2>5
    <3> QED
      BY <2>1, <3>1
  <2>6. AllPlain(net')
    BY <1>6 DEF Come, AllPlain
  <2>7. Right(call', rx'[i - 1])
    BY <1>4, <2>1, <2>4
  <2>8. \E k \in 1 .. Len(rx') : Right(call', rx'[k]) /\ \A j \in 1 .. Len(rx') : j # k => Plain(rx'[j])
    BY <2>4, <2>5, <2>7
  <2> QED
    BY <2>6, <2>8 DEF Come, Plain
<1> QED
  BY <1>2, <1>3, <1>5, <1>6, ExchangeSame

LEMMA DeliverSame ==
  ASSUME Held, Progress, Exchange, Deliver, UNCHANGED <<bootpVars, nfsVars>>
  PROVE  Exchange'
<1>1. PICK m \in net : m.to = "loader" /\ rx' = Append(rx, m) /\ net' = net \ {m}
  BY DEF Deliver
<1>2. SameCall
  BY DEF SameCall, Deliver, loader, nfsVars
<1>3. Queued /\ Items(rx') = Items(rx) \cup {m}
  BY <1>1, ItemsAppended DEF Held, Queued
<1>4. /\ Len(rx) \in Nat /\ Len(rx') = Len(rx) + 1 /\ rx'[Len(rx) + 1] = m
      /\ \A i \in 1 .. Len(rx) : rx'[i] = rx[i]
  <2>1. rx \in Seq(Items(rx) \cup {m})
    BY <1>3, SeqMonotonic DEF Queued
  <2> QED
    BY <1>1, <2>1, AppendProperties, LenProperties
<1>5. Quiet => Quiet'
  BY <1>1, <1>3 DEF Quiet, AllPlain, Flying
<1>6. \A x : Right(call, x) => Right(call', x)
  BY <1>2 DEF SameCall
<1>7. ASSUME Pending, Asked PROVE Asked'
  <2>1. m # call
    BY <1>1, <1>7, PendingIs
  <2> QED
    BY <1>1, <1>2, <1>3, <1>7, <2>1 DEF Asked, AllPlain, SameCall
<1>8. ASSUME Coming PROVE Coming' \/ Come'
  <2>1. PICK r \in net : Right(call, r) /\ AllPlain(net \ {r})
    BY <1>8 DEF Coming
  <2>2. CASE r = m
    <3>1. AllPlain(net') /\ Len(rx) + 1 \in 1 .. Len(rx') /\ Right(call', rx'[Len(rx) + 1])
      BY <1>1, <1>4, <1>6, <2>1, <2>2
    <3>2. ASSUME NEW j \in 1 .. Len(rx'), j # Len(rx) + 1 PROVE Plain(rx'[j])
      <4>1. j \in 1 .. Len(rx) /\ rx'[j] = rx[j]
        BY <1>4, <3>2
      <4>2. rx[j] \in Items(rx)
        BY <4>1 DEF Items
      <4> QED
        BY <1>8, <4>1, <4>2 DEF Coming, AllPlain
    <3>3. \E k \in 1 .. Len(rx') : Right(call', rx'[k]) /\ \A j \in 1 .. Len(rx') : j # k => Plain(rx'[j])
      BY <3>1, <3>2
    <3> QED
      BY <3>1, <3>3 DEF Come, Plain
  <2>3. CASE r # m
    BY <1>1, <1>3, <1>6, <1>8, <2>1, <2>3 DEF Coming, AllPlain
  <2> QED
    BY <2>2, <2>3
<1>9. ASSUME Come PROVE Come'
  <2>1. PICK i \in 1 .. Len(rx) : Right(call, rx[i]) /\ \A j \in 1 .. Len(rx) : j # i => Plain(rx[j])
    BY <1>9 DEF Come
  <2>2. AllPlain(net') /\ Plain(m)
    BY <1>1, <1>9 DEF Come, AllPlain
  <2>3. i \in 1 .. Len(rx') /\ Right(call', rx'[i])
    BY <1>4, <1>6, <2>1
  <2>4. ASSUME NEW j \in 1 .. Len(rx'), j # i PROVE Plain(rx'[j])
    <3>1. CASE j = Len(rx) + 1
      BY <1>4, <2>2, <3>1
    <3>2. CASE j # Len(rx) + 1
      <4>1. j \in 1 .. Len(rx) /\ rx'[j] = rx[j]
        BY <1>4, <3>2
      <4> QED
        BY <2>1, <2>4, <4>1
    <3> QED
      BY <3>1, <3>2
  <2>5. \E k \in 1 .. Len(rx') : Right(call', rx'[k]) /\ \A j \in 1 .. Len(rx') : j # k => Plain(rx'[j])
    BY <2>3, <2>4
  <2> QED
    BY <2>2, <2>5 DEF Come, Plain
<1> QED
  BY <1>2, <1>5, <1>7, <1>8, <1>9, ExchangeSame

\* Only the call is served, once, and the answer is right.
LEMMA ServeClean ==
  ASSUME Held, Progress, Exchange, Ports, Serve, ~Fault
  PROVE  Exchange'
<1>1. PICK m \in net :
        /\ m.kind = "call" /\ m.to \in knows
        /\ LET n == IF m.len <= Left(m) THEN m.len ELSE Left(m)
               port == IF m.proc = "mountport" THEN mountd[m.to] ELSE NFSD
           IN \/ ~Listening(m)
              \/ /\ m.proc = "lookup" /\ mounted' = mounted
                 /\ net' = (net \ {m}) \cup {Reply(m, FALSE, port, <<>>)}
              \/ /\ Effect(m)
                 /\ net' = (net \ {m}) \cup {Reply(m, TRUE, port, Piece(m, n))}
  BY Zenon DEF Serve
<1>2. UNCHANGED <<rx, call, at, arptable, fs_mounted>>
  BY DEF Serve, loader
<1>3. Pending /\ at = "await" /\ Asked /\ mounted = Before
  BY <1>1 DEF Exchange, Quiet, Coming, Come, AllPlain, Flying, Plain, Right
<1>4. m = call
  BY <1>1, <1>3 DEF Asked, AllPlain, Plain
<1>5. call.to = arptable.ip /\ call.to \in Servers /\ call.kind = "call"
  BY <1>3, PendingIs DEF Pending
<1>6. Listening(m)
  BY <1>4, <1>5 DEF Ports, Listening
<1> DEFINE port == IF m.proc = "mountport" THEN mountd[m.to] ELSE NFSD
<1>7. ASSUME NEW ok \in BOOLEAN, NEW d, ok \/ m.proc = "lookup",
             net' = (net \ {m}) \cup {Reply(m, ok, port, d)}, mounted' = After
      PROVE  Exchange'
  <2>1. Right(call', Reply(m, ok, port, d))
    BY <1>2, <1>4, <1>5, <1>7 DEF Right, Reply, Ports
  <2>2. AllPlain(net' \ {Reply(m, ok, port, d)}) /\ AllPlain(Items(rx'))
    BY <1>2, <1>3, <1>4, <1>7 DEF Asked, AllPlain
  <2>3. Coming'
    BY <1>7, <2>1, <2>2 DEF Coming
  <2> QED
    BY <1>2, <1>3, <1>7, <2>3 DEF Exchange, Pending, After
<1>8. CASE m.proc = "lookup" /\ mounted' = mounted /\ net' = (net \ {m}) \cup {Reply(m, FALSE, port, <<>>)}
  <2>1. mounted' = After
    BY <1>3, <1>4, <1>8 DEF Before, After
  <2> QED
    BY <1>7, <1>8, <2>1
<1>9. ASSUME NEW n, Effect(m), net' = (net \ {m}) \cup {Reply(m, TRUE, port, Piece(m, n))} PROVE Exchange'
  <2>1. mounted' = After
    BY <1>3, <1>4, <1>5, <1>9 DEF Before, After, Effect, Ports
  <2> QED
    BY <1>7, <1>9, <2>1
<1> QED
  BY <1>1, <1>6, <1>8, <1>9

\* The answer is the first of the queue, and nothing is left when it is taken.
LEMMA AnswerTaken ==
  ASSUME Held, Exchange, RpcReply
  PROVE  Pending /\ Right(call, Head(rx)) /\ Quiet' /\ mounted = After
         /\ (fs_mounted <=> call.proc \in {"lookup", "read", "umount"})
<1>1. /\ at = "await" /\ rx # <<>> /\ AcceptsRpc(Head(rx)) /\ rx' = Tail(rx) /\ net' = net /\ Queued
      /\ call.kind = "call"
  BY DEF RpcReply, Continue, steady, Held, AcceptsRpc
<1>2. /\ Len(rx) \in Nat /\ Len(rx) # 0 /\ Len(rx') = Len(rx) - 1 /\ Head(rx) = rx[1]
      /\ \A j \in 1 .. Len(rx') : rx'[j] = rx[j + 1]
  BY <1>1, HeadTailProperties, LenProperties, EmptySeq DEF Queued
<1>3. rx[1] \in Items(rx) /\ ~Plain(rx[1])
  BY <1>1, <1>2 DEF Items, AcceptsRpc, Plain
<1>4. Pending /\ Come /\ mounted = After
  BY <1>1, <1>3 DEF Exchange, Pending, Asked, Coming, AllPlain
<1>5. PICK i \in 1 .. Len(rx) : Right(call, rx[i]) /\ \A j \in 1 .. Len(rx) : j # i => Plain(rx[j])
  BY <1>4 DEF Come
<1>6. i = 1
  <2>1. 1 \in 1 .. Len(rx)
    BY <1>2
  <2> QED
    BY <1>3, <1>5, <2>1
<1>7. ASSUME NEW x \in Items(rx') PROVE Plain(x)
  <2>1. PICK j \in 1 .. Len(rx') : x = rx'[j]
    BY <1>7 DEF Items
  <2>2. j + 1 \in 1 .. Len(rx) /\ j + 1 # 1
    BY <1>2
  <2> QED
    BY <1>2, <1>5, <1>6, <2>1, <2>2
<1>8. AllPlain(net')
  BY <1>1, <1>4 DEF Come
<1> QED
  BY <1>2, <1>4, <1>5, <1>6, <1>7, <1>8 DEF Quiet, AllPlain, Flying, Plain, Exchange

\* A call that is about to be made.
LEMMA CallClean ==
  ASSUME Quiet', NEW proc, NEW from, NEW port, NEW o, NEW n, CallFor(proc, from, port, o, n),
         fs_mounted' <=> proc \in {"lookup", "read", "umount"},
         mounted' = IF proc \in {"lookup", "read", "umount"} THEN {arptable'.ip} ELSE {}
  PROVE  Exchange'
<1>1. call'.kind = "call" /\ call'.proc = proc /\ at' = "send"
  BY DEF CallFor
<1> QED
  BY <1>1 DEF Exchange, Pending, Before

LEMMA CallPorts ==
  ASSUME \A s \in Servers : mountd'[s] = 1, mount_port' \in {None, 1}, nfs_port' \in {None, NFSD},
         NEW proc, NEW from, NEW port, NEW o, NEW n, CallFor(proc, from, port, o, n),
         proc \in {"mountport", "nfsport", "mount", "lookup", "read", "umount"},
         proc \in {"mount", "umount"} => port = 1,
         proc \in {"lookup", "read"} => port = NFSD,
         proc \notin {"mountport", "nfsport"} => mount_port' = 1 /\ nfs_port' = NFSD
  PROVE  Ports'
<1>1. call'.kind = "call" /\ call'.proc = proc /\ call'.port = port
  BY DEF CallFor
<1> QED
  BY <1>1 DEF Ports

LEMMA AnswerClean ==
  ASSUME Held, Exchange, Ports, RpcReply
  PROVE  Exchange' /\ Ports' /\ Arping'
<1> DEFINE rep == Head(rx)
<1>1. /\ Pending /\ Right(call, rep) /\ Quiet' /\ mounted = After
      /\ (fs_mounted <=> call.proc \in {"lookup", "read", "umount"})
  BY AnswerTaken
<1>2. Continue(rep, TRUE) /\ UNCHANGED <<arptable, mountd, mounted>> /\ call.kind = "call"
  BY <1>1 DEF RpcReply, Continue, steady, Right
<1>3. /\ \A s \in Servers : mountd'[s] = 1
      /\ mount_port \in {None, 1} /\ nfs_port \in {None, NFSD}
      /\ call.proc \notin {"mountport", "nfsport"} => mount_port = 1 /\ nfs_port = NFSD
  BY <1>2 DEF Ports
\* What comes next, without a call.
<1>4. ASSUME at' \in {"failed", "done"}, mounted' = {}, ~fs_mounted', UNCHANGED <<call, mount_port, nfs_port>>
      PROVE  Exchange' /\ Ports' /\ Arping'
  BY <1>1, <1>2, <1>3, <1>4 DEF Exchange, Pending, Ports, Arping
\* And with one.
<1>5. ASSUME NEW proc, NEW from, NEW port, NEW o, NEW n, CallFor(proc, from, port, o, n) PROVE Arping'
  BY <1>5 DEF CallFor, Arping
<1>6. CASE PortsKnown(rep)
  <2>1. call.proc \in {"mountport", "nfsport"} /\ mounted' = {} /\ ~fs_mounted' /\ rep.ok
    BY <1>1, <1>2, <1>6 DEF PortsKnown, After, Right
  <2> DEFINE mp == IF call.proc = "mountport" THEN rep.body.port ELSE mount_port
             np == IF call.proc = "nfsport" THEN rep.body.port ELSE nfs_port
  <2>2. mp \in {None, 1} /\ np \in {None, NFSD}
    BY <1>1, <1>3, <2>1 DEF Right
  <2>3. /\ mount_port' = mp /\ nfs_port' = np
        /\ \/ Call("nfsport", sport, 0)
           \/ (mp = None \/ np = None) /\ at' = "failed" /\ UNCHANGED call
           \/ mp # None /\ np # None /\ Call("mount", sport, mp)
    BY <1>6, <2>1 DEF PortsKnown
  <2>4. CASE Call("nfsport", sport, 0)
    BY <1>1, <1>3, <1>5, <2>1, <2>2, <2>3, <2>4, CallClean, CallPorts DEF Call
  <2>5. CASE mp # None /\ np # None /\ Call("mount", sport, mp)
    <3>1. mp = 1 /\ np = NFSD
      BY <2>2, <2>5
    <3> QED
      BY <1>1, <1>3, <1>5, <2>1, <2>2, <2>3, <2>5, <3>1, CallClean, CallPorts DEF Call
  <2>6. CASE at' = "failed" /\ UNCHANGED call
    BY <1>1, <1>2, <1>3, <2>1, <2>2, <2>3, <2>6 DEF Exchange, Pending, Ports, Arping
  <2> QED
    BY <2>3, <2>4, <2>5, <2>6
<1>7. CASE Mounted(rep)
  <2>1. call.proc = "mount" /\ rep.ok /\ mounted' = {arptable'.ip}
    BY <1>1, <1>2, <1>7 DEF Mounted, Right, After
  <2>2. fs_mounted' /\ Call("lookup", sport, nfs_port) /\ UNCHANGED <<mount_port, nfs_port>>
    BY <1>7, <2>1 DEF Mounted
  <2> QED
    BY <1>1, <1>3, <1>5, <2>1, <2>2, CallClean, CallPorts DEF Call
\* The end of an attempt.
<1>8. ASSUME call.proc \in {"lookup", "read"}, UNCHANGED <<mount_port, nfs_port, fs_mounted>>,
             Call("umount", oport, mount_port)
      PROVE  Exchange' /\ Ports' /\ Arping'
  <2>1. fs_mounted' /\ mounted' = {arptable'.ip}
    BY <1>1, <1>2, <1>8 DEF After
  <2> QED
    BY <1>1, <1>3, <1>5, <1>8, <2>1, CallClean, CallPorts DEF Call
<1>9. ASSUME call.proc \in {"lookup", "read"}, UNCHANGED <<mount_port, nfs_port, fs_mounted>>,
             NEW o, NEW n, CallFor("read", sport, nfs_port, o, n)
      PROVE  Exchange' /\ Ports' /\ Arping'
  <2>1. fs_mounted' /\ mounted' = {arptable'.ip}
    BY <1>1, <1>2, <1>9 DEF After
  <2> QED
    BY <1>1, <1>3, <1>5, <1>9, <2>1, CallClean, CallPorts
<1>10. CASE LookedUp(rep) \/ BlockRead(rep) \/ ReadFailed(rep)
  <2>1. /\ call.proc \in {"lookup", "read"} /\ UNCHANGED <<mount_port, nfs_port, fs_mounted>> /\ fs_mounted
        /\ Call("umount", oport, mount_port) \/ \E o, n : CallFor("read", sport, nfs_port, o, n)
    <3>1. CASE LookedUp(rep)
      BY <1>1, <3>1 DEF LookedUp, Umount
    <3>2. CASE BlockRead(rep)
      BY <1>1, <3>2 DEF BlockRead
    <3>3. CASE ReadFailed(rep)
      BY <1>1, <3>3 DEF ReadFailed, Umount
    <3> QED
      BY <1>10, <3>1, <3>2, <3>3
  <2> QED
    BY <1>8, <1>9, <2>1
<1>11. CASE Unmounted(TRUE)
  <2>1. /\ call.proc = "umount" /\ ~fs_mounted' /\ mounted' = {} /\ at' \in {"failed", "done"}
        /\ UNCHANGED <<call, mount_port, nfs_port>>
    BY <1>1, <1>2, <1>11 DEF Unmounted, Leave, After
  <2> QED
    BY <1>4, <2>1
<1> QED
  BY <1>2, <1>6, <1>7, <1>10, <1>11 DEF Continue

\* While it is asked for, the server's address does not get lost.
LEMMA ArpingNet ==
  ASSUME Held, Arping, NEW R, NEW A, net' = (net \ R) \cup A, UNCHANGED <<rx, at, arptable>>,
         at \in {"arp", "arplate"} => ArpReply(arptable.ip, "loader") \notin R,
         at \in {"arp", "arplate"} /\ ArpRequest("loader", arptable.ip) \in R => ArpReply(arptable.ip, "loader") \in A
  PROVE  Arping'
BY DEF Arping, Flying

LEMMA ArpingQueue ==
  ASSUME Held, Arping, rx # <<>>, rx' = Tail(rx), net \subseteq net', UNCHANGED <<at, arptable>>,
         at \in {"arp", "arplate"} => Head(rx) # ArpReply(arptable.ip, "loader")
  PROVE  Arping'
<1>1. Items(rx) = Items(rx') \cup {Head(rx)}
  BY ItemsTaken DEF Held, Queued
<1> QED
  BY <1>1 DEF Arping, Flying

\* Ports is about nothing else than this.
LEMMA PortsSame ==
  ASSUME Ports, UNCHANGED <<call, mountd, mount_port, nfs_port>>
  PROVE  Ports'
BY DEF Ports

\* The network.
LEMMA EnvironmentClean ==
  ASSUME Held, Progress, Exchange, Ports, Arping, Environment, ~Fault
  PROVE  Exchange' /\ Ports' /\ Arping'
<1>1. ~(Lose \/ Duplicate \/ ServerForgets \/ ServerMoves)
  BY DEF Lose, Duplicate, ServerForgets, ServerMoves
<1>2. Ports'
  BY <1>1, PortsSame DEF Environment, Network, Deliver, ServerArp, ServerAsks, Serve, loader, nfsVars
<1>3. ASSUME at \in {"arp", "arplate"} PROVE arptable.ip \in Servers /\ arptable.ip # "loader" /\ call.kind = "call" /\ Quiet
  <2>1. Pending
    BY <1>3 DEF Held, Places, Pending
  <2> QED
    BY <1>3, <2>1, PendingIs DEF Held, AtServer, Exchange, Pending
<1>4. CASE Deliver /\ UNCHANGED <<bootpVars, nfsVars>>
  <2>1. PICK m \in net : m.to = "loader" /\ rx' = Append(rx, m) /\ net' = net \ {m}
    BY <1>4 DEF Deliver
  <2>2. Items(rx') = Items(rx) \cup {m}
    BY <2>1, ItemsAppended DEF Held, Queued
  <2>3. at \in {"arp", "arplate"} => m # ArpRequest("loader", arptable.ip)
    BY <1>3, <2>1 DEF ArpRequest
  <2>4. Arping'
    BY <1>4, <2>1, <2>2, <2>3 DEF Deliver, loader, Arping, Flying
  <2> QED
    BY <1>2, <1>4, <2>4, DeliverSame
<1>5. CASE ServerArp /\ UNCHANGED <<bootpVars, nfsVars>>
  <2>1. PICK m \in net : /\ m.to \in Servers
                         /\ \/ m.kind = "arpreq" /\ net' = (net \ {m}) \cup {ArpReply(m.to, "loader")}
                            \/ m.kind = "arpreply" /\ net' = net \ {m}
    BY <1>5 DEF ServerArp
  <2>2. UNCHANGED <<rx, at, call, arptable, mounted, fs_mounted>>
    BY <1>5 DEF ServerArp, loader, nfsVars
  <2>3. PICK A : /\ net' = (net \ {m}) \cup A /\ AllPlain(A) /\ AllPlain({m})
                 /\ m.kind = "arpreq" => ArpReply(m.to, "loader") \in A
    <3>1. CASE m.kind = "arpreq" /\ net' = (net \ {m}) \cup {ArpReply(m.to, "loader")}
      <4>1. AllPlain({ArpReply(m.to, "loader")}) /\ AllPlain({m})
        BY <3>1 DEF AllPlain, Plain, ArpReply
      <4> QED
        BY <3>1, <4>1
    <3>2. CASE m.kind = "arpreply" /\ net' = net \ {m}
      <4>1. net' = (net \ {m}) \cup {} /\ AllPlain({}) /\ AllPlain({m})
        BY <3>2 DEF AllPlain, Plain
      <4> QED
        BY <3>2, <4>1
    <3> QED
      BY <2>1, <3>1, <3>2
  <2>4. Exchange'
    BY <2>2, <2>3, NetSame DEF SameCall
  <2>5. m # ArpReply(arptable.ip, "loader")
    BY <2>1, Constants DEF ArpReply
  <2>6. m = ArpRequest("loader", arptable.ip) => ArpReply(arptable.ip, "loader") \in A
    BY <2>3 DEF ArpRequest
  <2>7. Arping'
    BY <2>2, <2>3, <2>5, <2>6, ArpingNet
  <2> QED
    BY <1>2, <2>4, <2>7
<1>6. CASE ServerAsks /\ UNCHANGED <<bootpVars, nfsVars>>
  <2>1. PICK m \in net : net' = net \cup {ArpRequest(m.to, "loader")}
    BY <1>6 DEF ServerAsks
  <2>2. UNCHANGED <<rx, at, call, arptable, mounted, fs_mounted>>
    BY <1>6 DEF ServerAsks, loader, nfsVars
  <2>3. net' = (net \ {}) \cup {ArpRequest(m.to, "loader")} /\ AllPlain({}) /\ AllPlain({ArpRequest(m.to, "loader")})
    BY <2>1 DEF AllPlain, Plain, ArpRequest
  <2> QED
    BY <1>2, <2>2, <2>3, NetSame, ArpingNet DEF SameCall
<1>7. CASE Serve
  <2>1. Exchange'
    BY <1>7, ServeClean
  <2>2. PICK m \in net : m.kind = "call"
    BY <1>7 DEF Serve
  <2>3. at \notin {"arp", "arplate"}
    BY <1>3, <2>2 DEF Quiet, AllPlain, Plain, Flying
  <2> QED
    BY <1>2, <1>7, <2>1, <2>3 DEF Serve, loader, Arping
<1> QED
  BY <1>1, <1>4, <1>5, <1>6, <1>7 DEF Environment, Network

\* udp_transmit and await_reply.
LEMMA LoaderClean ==
  ASSUME Held, Progress, Exchange, Ports, Arping, Loader \/ Discard(Accepts), UNCHANGED <<bootpVars, nfsVars>>, ~Fault
  PROVE  Exchange' /\ Ports' /\ Arping'
<1>1. UNCHANGED <<call, mounted, fs_mounted, mountd, mount_port, nfs_port>> /\ arptable'.ip = arptable.ip
  <2>1. arptable'.ip = arptable.ip
    BY DEF Loader, Discard, Transmit, AnswerArp, ArpAnswered, ArpTimeout, loader, Held, Table
  <2> QED
    BY <2>1 DEF Loader, Discard, Transmit, AnswerArp, ArpAnswered, ArpTimeout, loader, nfsVars
<1>2. Ports'
  BY <1>1, PortsSame
<1>3. ASSUME at \in {"send", "arp", "arplate"}, call.kind = "call" PROVE Pending /\ Quiet /\ mounted = Before
  BY <1>3 DEF Exchange, Pending
<1>4. at \in {"arp", "arplate"} => call.kind = "call"
  BY DEF Held, Places
\* The call is sent.
<1>5. ASSUME Quiet, mounted = Before, call.kind = "call", at \in {"send", "arp", "arplate"}, at' = "await",
             net' = net \cup {call}, Items(rx') \subseteq Items(rx)
      PROVE  Exchange' /\ Arping'
  <2>1. Asked'
    BY <1>1, <1>5 DEF Asked, Quiet, AllPlain, Flying
  <2>2. fs_mounted <=> call.proc \in {"lookup", "read", "umount"}
    BY <1>5 DEF Exchange, Pending
  <2> QED
    BY <1>1, <1>5, <2>1, <2>2 DEF Exchange, Pending, Before, Arping
<1>6. CASE Transmit
  <2>1. at = "send" /\ call.kind = "call" /\ rx' = rx /\ Pending /\ Quiet /\ mounted = Before
    BY <1>3, <1>6 DEF Transmit
  <2>2. CASE arptable.node
    BY <1>2, <1>5, <1>6, <2>1, <2>2 DEF Transmit
  <2>3. CASE ~arptable.node
    <3>1. at' = "arp" /\ net' = net \cup {ArpRequest("loader", arptable.ip)}
      BY <1>6, <2>3 DEF Transmit
    <3>2. Quiet'
      BY <2>1, <3>1 DEF Quiet, AllPlain, Flying, Plain, ArpRequest
    <3>3. fs_mounted <=> call.proc \in {"lookup", "read", "umount"}
      BY <2>1 DEF Exchange
    <3>4. Exchange'
      BY <1>1, <2>1, <3>1, <3>2, <3>3 DEF Exchange, Pending, Before
    <3>5. Arping'
      BY <1>1, <3>1 DEF Arping
    <3> QED
      BY <1>2, <3>4, <3>5
  <2> QED
    BY <2>2, <2>3
<1>7. CASE AnswerArp
  <2>1. /\ rx # <<>> /\ rx' = Tail(rx) /\ Head(rx).kind = "arpreq" /\ UNCHANGED <<at, arptable>>
        /\ net' = net \cup {ArpReply("loader", Head(rx).from)}
    BY <1>7 DEF AnswerArp, Polling, loader
  <2>2. Plain(Head(rx)) /\ AllPlain({ArpReply("loader", Head(rx).from)}) /\ Head(rx) # ArpReply(arptable.ip, "loader")
    BY <2>1 DEF Plain, AllPlain, ArpReply
  <2>3. Exchange'
    BY <1>1, <2>1, <2>2, QueueSame DEF SameCall, Held
  <2>4. Arping'
    BY <2>1, <2>2, ArpingQueue
  <2> QED
    BY <1>2, <2>3, <2>4
<1>8. CASE ArpAnswered
  <2>1. Items(rx') \subseteq Items(rx)
    BY <1>8, QueueShrinks DEF ArpAnswered, Held
  <2> QED
    BY <1>2, <1>3, <1>4, <1>5, <1>8, <2>1 DEF ArpAnswered
<1>9. ~ArpTimeout
  <2>1. ASSUME at = "arp", rx = <<>>, net = {} PROVE FALSE
    BY <2>1, EmptySeq DEF Arping, Flying, Items
  <2> QED
    BY <2>1 DEF ArpTimeout, Silence, Arping
<1>10. CASE Discard(Accepts)
  <2>1. /\ rx # <<>> /\ rx' = Tail(rx) /\ net' = net \cup {} /\ UNCHANGED <<at, arptable>>
        /\ ~(at \in {"arp", "arplate"} /\ Head(rx).kind = "arpreply" /\ Head(rx).from = arptable.ip)
        /\ ~(at = "await" /\ Accepts)
    BY <1>10 DEF Discard, Polling, loader
  <2>2. Plain(Head(rx))
    <3>1. Head(rx) \in Items(rx)
      BY <2>1, ItemsTaken DEF Held, Queued
    <3>2. CASE Quiet \/ Asked \/ Coming
      BY <3>1, <3>2 DEF Quiet, Asked, Coming, AllPlain, Flying
    <3>3. CASE at = "await" /\ Come
      <4>1. PICK i \in 1 .. Len(rx) : Right(call, rx[i]) /\ \A j \in 1 .. Len(rx) : j # i => Plain(rx[j])
        BY <3>3 DEF Come
      <4>2. Head(rx) = rx[1] /\ 1 \in 1 .. Len(rx)
        BY <2>1, HeadTailProperties, LenProperties, EmptySeq DEF Held, Queued
      <4>3. ~Right(call, Head(rx))
        BY <2>1, <3>3 DEF Accepts, AcceptsRpc, Right
      <4> QED
        BY <4>1, <4>2, <4>3
    <3> QED
      BY <3>2, <3>3 DEF Exchange
  <2>3. AllPlain({})
    BY DEF AllPlain
  <2>4. Exchange'
    BY <1>1, <2>1, <2>2, <2>3, QueueSame DEF SameCall, Held
  <2>5. at \in {"arp", "arplate"} => Head(rx) # ArpReply(arptable.ip, "loader")
    BY <2>1 DEF ArpReply
  <2>6. Arping'
    BY <2>1, <2>5, ArpingQueue
  <2> QED
    BY <1>2, <2>4, <2>6
<1> QED
  BY <1>6, <1>7, <1>8, <1>9, <1>10 DEF Loader

\* bootp: no call is made.
LEMMA BootpClean ==
  ASSUME Held, Exchange, Ports, BootpLoader, UNCHANGED nfsVars
  PROVE  Exchange' /\ Ports' /\ Arping'
<1>1. call.kind = "boot" /\ Quiet /\ mounted = {} /\ ~fs_mounted
  <2>1. call.kind = "boot"
    BY DEF BootpLoader, BootpDrained, Broadcast, BootpReply, BootpTimeout, AcceptsBootp
  <2> QED
    BY <2>1 DEF Exchange, Pending
<1>2. call'.kind # "call" /\ at' \notin {"arp", "arplate"}
  <2>1. CASE BootpDrained \/ Broadcast
    BY <1>1, <2>1 DEF BootpDrained, Broadcast
  <2>2. CASE BootpTimeout
    BY <1>1, <2>2 DEF BootpTimeout, InnerAgain, OuterAgain
  <2>3. CASE BootpReply
    <3>1. ASSUME NEW server, NEW file, Booted(server, file) PROVE call'.kind # "call" /\ at' \notin {"arp", "arplate"}
      BY <3>1 DEF Booted, Idle
    <3>2. ASSUME NEW type, InnerAgain(type) PROVE call'.kind # "call" /\ at' \notin {"arp", "arplate"}
      BY <1>1, <3>2 DEF InnerAgain, OuterAgain
    <3>3. ASSUME NEW server, NEW addr, Request(server, addr) PROVE call'.kind # "call" /\ at' \notin {"arp", "arplate"}
      BY <3>3 DEF Request, BootRequest
    <3> QED
      BY <2>3, <3>1, <3>2, <3>3, Zenon DEF BootpReply
  <2> QED
    BY <2>1, <2>2, <2>3 DEF BootpLoader
<1>3. Quiet'
  <2>1. \A x \in Flying' : x \in Flying \/ IsNew(x)
    <3>1. Next
      BY DEF Next, LoaderStep
    <3> QED
      BY <3>1, FlyingGrows DEF Held
  <2>2. ASSUME NEW x, IsNew(x) PROVE Plain(x)
    <3>1. CASE x.kind \in {"arpreq", "arpreply"}
      BY <3>1 DEF Plain
    <3>2. CASE IsBootReply(x)
      BY <3>2 DEF IsBootReply, BootReply, Plain
    <3>3. ~\E m \in net : m.kind = "call" /\ IsReply(x, m)
      BY <1>1 DEF Quiet, AllPlain, Plain, Flying
    <3> QED
      BY <1>1, <2>2, <3>1, <3>2, <3>3 DEF IsNew
  <2> QED
    BY <1>1, <2>1, <2>2 DEF Quiet, AllPlain
<1> QED
  BY <1>1, <1>2, <1>3 DEF Exchange, Pending, Ports, Arping, nfsVars

\* nfs and load_file.
LEMMA NfsClean ==
  ASSUME Held, Exchange, Ports, Arping, NfsLoader, ~Fault
  PROVE  Exchange' /\ Ports' /\ Arping'
<1>1. CASE Begin
  <2>1. /\ Quiet /\ mounted = {} /\ ~fs_mounted /\ UNCHANGED <<net, rx, mounted, mountd, fs_mounted, mount_port, nfs_port>>
        /\ \/ mount_port = None /\ Call("mountport", oport, 0)
           \/ nfs_port = None /\ Call("nfsport", oport, 0)
           \/ mount_port # None /\ nfs_port # None /\ Call("mount", oport, mount_port)
    BY <1>1 DEF Begin, Exchange, Pending, steady
  <2>2. Quiet' /\ mounted' = {} /\ ~fs_mounted'
    BY <2>1 DEF Quiet, Flying, AllPlain
  <2>3. (\A s \in Servers : mountd'[s] = 1) /\ mount_port' \in {None, 1} /\ nfs_port' \in {None, NFSD}
    BY <2>1 DEF Ports
  <2>4. ASSUME NEW proc \in {"mountport", "nfsport", "mount"}, NEW port, Call(proc, oport, port),
               proc = "mount" => port = 1 /\ mount_port' = 1 /\ nfs_port' = NFSD
        PROVE  Exchange' /\ Ports' /\ Arping'
    <3>1. CallFor(proc, oport, port, 0, 0)
      BY <2>4 DEF Call
    <3>2. Exchange' /\ Ports'
      BY <2>2, <2>3, <2>4, <3>1, CallClean, CallPorts
    <3> QED
      BY <3>1, <3>2 DEF CallFor, Arping
  <2> QED
    BY <2>1, <2>3, <2>4
<1>2. CASE RpcReply
  BY <1>2, AnswerClean
<1>3. ~RpcTimeout
  <2> SUFFICES ASSUME RpcTimeout PROVE FALSE
    OBVIOUS
  <2>1. at = "await" /\ call.kind = "call" /\ rx = <<>> /\ net = {}
    BY DEF RpcTimeout, Silence
  <2>2. Pending /\ ~Asked /\ ~Coming /\ ~Come
    BY <2>1, EmptySeq DEF Pending, Asked, Coming, Come
  <2> QED
    BY <2>1, <2>2 DEF Exchange
<1>4. CASE LoadAgain
  <2>1. /\ Quiet /\ mounted = {} /\ ~fs_mounted /\ at' = "drain" /\ call'.kind = "idle"
        /\ UNCHANGED <<net, rx, mounted, mountd, fs_mounted, mount_port, nfs_port>>
    BY <1>4 DEF LoadAgain, Exchange, Pending, Idle
  <2>2. Quiet'
    BY <2>1 DEF Quiet, Flying, AllPlain
  <2> QED
    BY <2>1, <2>2 DEF Exchange, Pending, Ports, Arping
<1> QED
  BY <1>1, <1>2, <1>3, <1>4 DEF NfsLoader

LEMMA CleanKept ==
  ASSUME Held, Progress, Clean, Next
  PROVE  Clean'
<1>1. faults' \in Nat /\ (faults' = 0 => faults = 0 /\ ~Fault)
  BY FaultsGrow DEF Clean
<1> SUFFICES ASSUME faults' = 0 PROVE Exchange' /\ Ports' /\ Arping'
  BY <1>1 DEF Clean
<1>2. Exchange /\ Ports /\ Arping /\ ~Fault
  BY <1>1 DEF Clean
<1>3. CASE Environment
  BY <1>2, <1>3, EnvironmentClean
<1>4. CASE (Loader \/ Discard(Accepts)) /\ UNCHANGED <<bootpVars, nfsVars>>
  BY <1>2, <1>4, LoaderClean
<1>5. CASE BootpLoader /\ UNCHANGED nfsVars
  BY <1>2, <1>5, BootpClean
<1>6. CASE NfsLoader
  BY <1>2, <1>6, NfsClean
<1> QED
  BY <1>3, <1>4, <1>5, <1>6 DEF Next, LoaderStep

LEMMA CleanFirst ==
  ASSUME Init
  PROVE  Clean
<1>1. Items(rx) = {} /\ call.kind = "boot" /\ at = "drain" /\ faults = 0
  BY DEF Init, NetInit, BootpInit, Items, BootRequest
<1>2. \A x \in Flying : x.kind = "bootreply"
  BY <1>1 DEF Init, BootpInit, Flying, BootReply
<1>3. Quiet
  BY <1>2 DEF Quiet, AllPlain, Plain
<1> QED
  BY <1>1, <1>3 DEF Clean, Exchange, Pending, Ports, Arping, Init, NfsInit

\* As long as nothing is lost, doubled, late or refused, an attempt that ends, loaded or
\* not, has the client taken from mountd's list again.
THEOREM MountIsReleased == Spec => []MountReleased
<1> DEFINE Inv == Held /\ Numbers /\ Current /\ Progress /\ Clean
<1>1. Init => Inv
  BY HeldFirst, LoadingFirst, CleanFirst
<1>2. Inv /\ [Next]_vars => Inv'
  <2> SUFFICES ASSUME Inv, [Next]_vars PROVE Inv'
    OBVIOUS
  <2>1. CASE Next
    <3>1. Queued /\ Places
      BY DEF Held
    <3> QED
      BY <2>1, <3>1, HeldKept, NumbersKept, ProgressKept, CleanKept
  <2>2. CASE UNCHANGED vars
    <3>1. Held'
      BY <2>2 DEF vars, netVars, bootpVars, Held, Queued, Places, Replies, Flying, BootGood, Forgotten, Table, AtServer,
         Loading
    <3>2. Numbers' /\ Current'
      BY <2>2 DEF vars, netVars, nfsVars, Numbers, Current, Flying
    <3>3. Progress'
      BY <2>2 DEF vars, netVars, nfsVars, Progress, Early, Reading, Asks, HasRead, Content, Loading
    <3>4. Clean'
      BY <2>2 DEF vars, netVars, nfsVars, Clean, Exchange, Ports, Arping, Pending, Quiet, Asked, Coming, Come, AllPlain,
         Flying, Before, After, Right
    <3> QED
      BY <3>1, <3>2, <3>3, <3>4
  <2> QED
    BY <2>1, <2>2
<1>3. Inv => MountReleased
  BY DEF MountReleased, Clean, Exchange, Pending
<1> QED
  BY <1>1, <1>2, <1>3, PTL DEF Spec
=============================================================================
