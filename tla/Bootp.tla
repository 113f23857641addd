------------------------------- MODULE Bootp -------------------------------
(***************************************************************************)
(* bootp of ethboot/bootp.c, the AWAIT_BOOTP branch of await_reply and     *)
(* decode_rfc1533 of ethboot/net.c: how the loader gets its address, its   *)
(* server and the name of the file.  DHCP and plain BOOTP servers answer   *)
(* the same broadcasts.  The address a server hands out, its own address   *)
(* and the file it names are all called by the server's name.              *)
(***************************************************************************)
EXTENDS Net

CONSTANTS
  Dhcp,        \* servers that speak DHCP; the others answer with plain BOOTP
  Naming,      \* who puts a file name into which of its answers: <<server, type>>
  MAX_BOOTP_RETRIES

ASSUME BootpConstantsOK ==
  /\ Dhcp \subseteq Servers
  /\ Naming \subseteq Servers \X {"OFFER", "ACK", "none"}
  /\ MAX_BOOTP_RETRIES \in Nat \ {0}

VARIABLES
  ip,          \* arptable[ARP_CLIENT], and dhcp_addr
  filename,
  dhcp_reply, dhcp_server,
  inner,       \* in the loop that asks for an offer to be confirmed
  retry, retry1,
  leases       \* external: servers that hold an address for the loader

bootpVars == <<ip, filename, dhcp_reply, dhcp_server, inner, retry, retry1, leases>>

Type == {"DISCOVER", "REQUEST", "OFFER", "ACK", "NAK", "none"}

BootpTypeOK ==
  /\ ip \in Servers \cup {None, "other"}
  /\ filename \in Servers \cup {None}
  /\ dhcp_reply \in Type
  /\ dhcp_server \in Servers \cup {None}
  /\ inner \in BOOLEAN
  /\ retry \in 0 .. MAX_BOOTP_RETRIES /\ retry1 \in 0 .. MAX_BOOTP_RETRIES
  /\ leases \subseteq Servers

----------------------------------------------------------------------------
(* Packets *)

BootRequest(type, server, addr) ==
  [kind |-> "boot", type |-> type, server |-> server, addr |-> addr]

\* xid tells the loader's exchange from those of other hosts.
BootReply(type, from, xid) ==
  [kind |-> "bootreply", to |-> "loader", type |-> type, from |-> from, xid |-> xid,
   addr |-> IF type = "NAK" THEN None ELSE IF xid = "own" THEN from ELSE "other"]

Idle == [kind |-> "idle"]    \* no request is being made

AcceptsBootp(m) == call.kind = "boot" /\ m.kind = "bootreply" /\ m.xid = "own"

----------------------------------------------------------------------------
(* The servers *)

\* What server s makes of a request, one that refuses what it might confirm if
\* refuses; it confirms only its own offer.
Answers(s, m, refuses) ==
  IF s \notin Dhcp THEN {"none"}
  ELSE IF m.type = "DISCOVER" THEN {"OFFER"}
  ELSE IF m.server # s THEN {}
  ELSE IF m.addr = s /\ ~refuses THEN {"ACK"}
  ELSE {"NAK"}

----------------------------------------------------------------------------
(* bootp *)

\* The packet goes to all servers, and their answers on their way.  (That a
\* server does not get it comes to the same as that its answer is lost.)
Broadcast ==
  /\ at = "send" /\ call.kind = "boot" /\ at' = "await"
  /\ \E refuses \in BOOLEAN :
       LET types(s) == Answers(s, call, refuses)
       IN /\ IF refuses THEN Fault ELSE UNCHANGED faults
          /\ net' = net \cup UNION {{BootReply(t, s, "own") : t \in types(s)} : s \in Servers}
          /\ leases' = leases \cup {s \in Servers : types(s) \cap {"ACK", "none"} # {}}
  /\ UNCHANGED <<rx, call, arpTry, arptable, knows, ip, filename, dhcp_reply, dhcp_server,
                 inner, retry, retry1>>

\* The queue is drained: bootp sends its packet.
BootpDrained ==
  /\ at = "drain" /\ call.kind = "boot" /\ rx = <<>>
  /\ at' = "send"
  /\ UNCHANGED <<net, rx, call, arpTry, arptable, knows, faults, bootpVars>>

\* etherboot goes on to load the file, or gives up for want of a server or a
\* file name.
Booted(server, file) ==
  /\ at' = IF server = None \/ file = None THEN "halt" ELSE "drain"
  /\ call' = Idle
  /\ UNCHANGED <<retry, retry1, inner>>

OuterAgain ==
  /\ inner' = FALSE
  /\ IF retry + 1 < MAX_BOOTP_RETRIES THEN at' = "drain" ELSE at' = "halt"
  /\ retry' = retry + 1
  /\ UNCHANGED call

\* Once more round the inner loop, where dhcp_reply starts from 0 each time.
InnerAgain(type) ==
  /\ retry1' = retry1 + 1
  /\ IF retry1 + 1 < MAX_BOOTP_RETRIES
       THEN at' = "send" /\ dhcp_reply' = "none" /\ UNCHANGED <<inner, retry, call>>
       ELSE OuterAgain /\ dhcp_reply' = type

Request(server, addr) ==
  /\ at' = "send" /\ call' = BootRequest("REQUEST", server, addr)
  /\ inner' = TRUE /\ retry1' = 0 /\ dhcp_reply' = "none"
  /\ UNCHANGED retry

\* Mutants: any answer confirms an offer; the file name of the first answer stays.
ConfirmedByAny(type) == type # "NAK"
KeepFilename(m) ==
  IF <<m.from, m.type>> \in Naming /\ filename = None THEN m.from ELSE filename

Confirmed(type) == type = "ACK"

\* An answer without a file name leaves that of an earlier one.
NewFilename(m) == IF <<m.from, m.type>> \in Naming THEN m.from ELSE filename

\* An answer sets the addresses, kills the server's ARP entry and is decoded; a
\* plain one leaves dhcp_reply as it was.
BootpReply ==
  /\ at = "await" /\ rx # <<>> /\ AcceptsBootp(Head(rx))
  /\ LET m == Head(rx)
         type == IF m.type = "none" THEN dhcp_reply ELSE m.type
         server == IF m.type = "none" THEN dhcp_server ELSE m.from
         siaddr == IF m.addr = None THEN None ELSE m.from
     IN /\ rx' = Tail(rx)
        /\ ip' = m.addr /\ arptable' = [ip |-> siaddr, node |-> FALSE]
        /\ filename' = NewFilename(m)
        /\ dhcp_server' = server
        /\ IF inner
             THEN IF Confirmed(type)
                    THEN Booted(siaddr, filename') /\ dhcp_reply' = type
                    ELSE InnerAgain(type)
             ELSE IF type = "OFFER"
                    THEN Request(server, m.addr)
                    ELSE Booted(siaddr, filename') /\ dhcp_reply' = type
  /\ UNCHANGED <<net, arpTry, knows, faults, leases>>

BootpTimeout ==
  /\ at = "await" /\ call.kind = "boot" /\ Silence
  /\ IF inner THEN InnerAgain(dhcp_reply) ELSE OuterAgain /\ UNCHANGED <<retry1, dhcp_reply>>
  /\ UNCHANGED <<net, rx, arpTry, arptable, knows, ip, filename, dhcp_server, leases>>

BootpLoader == BootpDrained \/ Broadcast \/ BootpReply \/ BootpTimeout

\* The adapter may hold, or be about to get, what a server told another host.
BootpInit ==
  /\ net \in {{}} \cup {{BootReply("ACK", s, "others")} : s \in Dhcp}
  /\ call = BootRequest("DISCOVER", None, None)
  /\ ip = None /\ filename = None
  /\ dhcp_reply = "none" /\ dhcp_server = None
  /\ inner = FALSE /\ retry = 0 /\ retry1 = 0
  /\ leases = {}
=============================================================================
