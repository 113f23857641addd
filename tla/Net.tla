-------------------------------- MODULE Net --------------------------------
(***************************************************************************)
(* udp_transmit and await_reply of ethboot/net.c, by which the network     *)
(* boot loader talks to its servers, and the network between them.  The    *)
(* loader polls: a packet stays in the adapter's queue until await_reply   *)
(* looks, and a timeout is only noticed when the queue is empty.  What is  *)
(* awaited and what follows is the matter of Bootp and Nfs.                *)
(***************************************************************************)
EXTENDS Naturals, Sequences

CONSTANTS
  Servers,     \* hosts that answer BOOTP and serve the file
  MAX_ARP_RETRIES,
  RxMax,       \* packets the adapter's queue holds
  MaxFaults,   \* bound: packets lost or doubled, answers too late or refused
  None

ASSUME NetConstantsOK ==
  /\ Servers # {} /\ None \notin Servers /\ "loader" \notin Servers
  /\ MAX_ARP_RETRIES \in Nat \ {0}
  /\ RxMax \in Nat \ {0}
  /\ MaxFaults \in Nat

VARIABLES
  net,         \* packets on their way
  rx,          \* packets in the adapter's queue
  at,          \* what the loader does
  call,        \* the request being made, a packet to its server
  arpTry,      \* retry of udp_transmit
  arptable,    \* arptable[ARP_SERVER]: address, and whether its node is known
  knows,       \* external: servers that know the loader's hardware address
  faults

netVars == <<net, rx, at, call, arpTry, arptable, knows, faults>>

\* The loader's place: in await_reply with AWAIT_QDRAIN, before udp_transmit,
\* in its two await_reply with AWAIT_ARP, in the await_reply for the answer,
\* asleep in load_file, halted, or starting the kernel.
Place == {"drain", "send", "arp", "arplate", "await", "failed", "halt", "done"}

NetTypeOK ==
  /\ Len(rx) <= RxMax
  /\ at \in Place
  /\ arpTry \in 0 .. MAX_ARP_RETRIES
  /\ arptable \in [ip : Servers \cup {None}, node : BOOLEAN]
  /\ knows \subseteq Servers
  /\ faults \in 0 .. MaxFaults

----------------------------------------------------------------------------
(* The network *)

ArpRequest(from, to) == [kind |-> "arpreq", from |-> from, to |-> to]
ArpReply(from, to) == [kind |-> "arpreply", from |-> from, to |-> to]

Fault == faults < MaxFaults /\ faults' = faults + 1

loader == <<at, call, arpTry, arptable>>

Deliver ==
  /\ Len(rx) < RxMax
  /\ \E m \in net : /\ m.to = "loader"
                    /\ rx' = Append(rx, m) /\ net' = net \ {m}
  /\ UNCHANGED <<loader, knows, faults>>

Lose ==
  /\ Fault /\ \E m \in net : net' = net \ {m}
  /\ UNCHANGED <<loader, rx, knows>>

Duplicate ==
  /\ Fault /\ Len(rx) < RxMax
  /\ \E m \in net : m.to = "loader" /\ rx' = Append(rx, m)
  /\ UNCHANGED <<loader, net, knows>>

\* A server answers ARP requests and learns from ARP packets, and may forget.
ServerArp ==
  \E m \in net :
    /\ m.to \in Servers
    /\ \/ m.kind = "arpreq" /\ net' = (net \ {m}) \cup {ArpReply(m.to, "loader")}
       \/ m.kind = "arpreply" /\ net' = net \ {m}
    /\ knows' = knows \cup {m.to}
    /\ UNCHANGED <<loader, rx, faults>>

ServerForgets ==
  /\ Fault /\ \E s \in knows : knows' = knows \ {s}
  /\ UNCHANGED <<loader, net, rx>>

\* It asks for the loader's hardware address when it has a datagram to answer,
\* not again while that is on its way.
ServerAsks ==
  \E m \in net :
    /\ m.kind = "call" /\ m.to \notin knows
    /\ ArpReply("loader", m.to) \notin net
    /\ ArpRequest(m.to, "loader") \notin net \cup {rx[i] : i \in 1 .. Len(rx)}
    /\ net' = net \cup {ArpRequest(m.to, "loader")}
    /\ UNCHANGED <<loader, rx, knows, faults>>

Network == Deliver \/ Lose \/ Duplicate \/ ServerArp \/ ServerForgets \/ ServerAsks

----------------------------------------------------------------------------
(* udp_transmit *)

\* To the server's node if that is known; if not, ask for it.
Transmit ==
  /\ at = "send" /\ call.kind = "call"
  /\ IF arptable.node
       THEN at' = "await" /\ net' = net \cup {call} /\ UNCHANGED arpTry
       ELSE /\ at' = "arp" /\ arpTry' = 1
            /\ net' = net \cup {ArpRequest("loader", arptable.ip)}
  /\ UNCHANGED <<rx, call, arptable, knows, faults>>

----------------------------------------------------------------------------
(* await_reply *)

Polling == at \in {"drain", "arp", "arplate", "await"} /\ rx # <<>>

\* ARP requests for the loader's address are answered, whatever is awaited; a
\* mutant answers them only while it waits for ARP.
AnswerArpSeldom ==
  /\ Polling /\ Head(rx).kind = "arpreq" /\ rx' = Tail(rx)
  /\ IF at \in {"arp", "arplate"}
       THEN net' = net \cup {ArpReply("loader", Head(rx).from)}
       ELSE UNCHANGED net
  /\ UNCHANGED <<loader, knows, faults>>

AnswerArp ==
  /\ Polling /\ Head(rx).kind = "arpreq" /\ rx' = Tail(rx)
  /\ net' = net \cup {ArpReply("loader", Head(rx).from)}
  /\ UNCHANGED <<loader, knows, faults>>

\* The ARP reply udp_transmit waits for, and the datagram.
ArpAnswered ==
  /\ at \in {"arp", "arplate"} /\ rx # <<>>
  /\ Head(rx).kind = "arpreply" /\ Head(rx).from = arptable.ip
  /\ rx' = Tail(rx) /\ arptable' = [arptable EXCEPT !.node = TRUE]
  /\ at' = "await" /\ net' = net \cup {call}
  /\ UNCHANGED <<call, arpTry, knows, faults>>

\* A packet that matches nothing awaited: wanted is whether AWAIT_BOOTP or
\* AWAIT_RPC accepts the first of the queue.
Discard(wanted) ==
  /\ Polling /\ Head(rx).kind # "arpreq"
  /\ ~(at \in {"arp", "arplate"} /\ Head(rx).kind = "arpreply" /\ Head(rx).from = arptable.ip)
  /\ ~(at = "await" /\ wanted)
  /\ rx' = Tail(rx)
  /\ UNCHANGED <<loader, net, knows, faults>>

\* Time is up: nothing is on its way any more, or what is comes too late.
Silence ==
  /\ rx = <<>>
  /\ \/ net = {} /\ UNCHANGED faults
     \/ net # {} /\ Fault

\* After a sleep udp_transmit looks again without waiting, then asks again.
\* When it gives up, its callers wait for the answer all the same.
ArpTimeout ==
  /\ \/ at = "arp" /\ Silence /\ at' = "arplate" /\ UNCHANGED <<net, arpTry>>
     \/ /\ at = "arplate" /\ rx = <<>> /\ UNCHANGED faults
        /\ IF arpTry < MAX_ARP_RETRIES
             THEN /\ at' = "arp" /\ arpTry' = arpTry + 1
                  /\ net' = net \cup {ArpRequest("loader", arptable.ip)}
             ELSE at' = "await" /\ UNCHANGED <<net, arpTry>>
  /\ UNCHANGED <<rx, call, arptable, knows>>

Loader == Transmit \/ AnswerArp \/ ArpAnswered \/ ArpTimeout

NetInit ==
  /\ rx = <<>> /\ at = "drain" /\ arpTry = 0
  /\ arptable = [ip |-> None, node |-> FALSE]
  /\ knows = {} /\ faults = 0
=============================================================================
