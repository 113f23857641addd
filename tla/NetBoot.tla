------------------------------ MODULE NetBoot ------------------------------
(***************************************************************************)
(* The network boot loader: etherboot of ethboot/ethboot.c, composed of    *)
(* bootp, nfs and what both use of net.c, with a network that loses,       *)
(* doubles and delays packets, and servers that fail.                      *)
(***************************************************************************)
EXTENDS Nfs

TypeOK == NetTypeOK /\ BootpTypeOK /\ NfsTypeOK

Accepts == rx # <<>> /\ (AcceptsBootp(Head(rx)) \/ AcceptsRpc(Head(rx)))

Environment ==
  \/ (Network /\ UNCHANGED <<bootpVars, nfsVars>>)
  \/ Serve
  \/ ServerMoves

LoaderStep ==
  \/ ((Loader \/ Discard(Accepts)) /\ UNCHANGED <<bootpVars, nfsVars>>)
  \/ (BootpLoader /\ UNCHANGED nfsVars)
  \/ NfsLoader

Next == Environment \/ LoaderStep

Init == NetInit /\ BootpInit /\ NfsInit

Spec == Init /\ [][Next]_vars

\* The loader runs; packets that are not lost arrive, and servers answer.
FairSpec ==
  /\ Spec
  /\ WF_vars(LoaderStep)
  /\ WF_vars(Deliver /\ UNCHANGED <<bootpVars, nfsVars>>)
  /\ WF_vars(ServerArp /\ UNCHANGED <<bootpVars, nfsVars>>)
  /\ WF_vars(ServerAsks /\ UNCHANGED <<bootpVars, nfsVars>>)
  /\ WF_vars(Serve)

----------------------------------------------------------------------------
(* Properties *)

Loading == at # "halt" /\ (call.kind # "boot")

\* The kernel is the server's file, whatever was lost, repeated, short or late:
\* every block goes where it belongs (nfs, binaryload).
ImageExact ==
  Loading =>
    /\ Len(image) <= Len(File[arptable.ip])
    /\ image = SubSeq(File[arptable.ip], 1, Len(image))
    /\ at = "done" => image = File[arptable.ip]

\* The loader only goes on to load with an address that a server holds for it:
\* it does not go on with what was only offered, refused, or said to another host.
AddressHeld == Loading => ip \in leases

\* The answer that makes server s the loader's has a file name.
Names(s) == <<s, IF s \in Dhcp THEN "ACK" ELSE "none">> \in Naming

\* Address and server are from one answer, however many servers answer and in whatever
\* order, and so is the file name if that answer has one.  If it has none, the name is
\* that of an earlier answer, which may be another server's (await_reply).
OneServer ==
  Loading => /\ ip = arptable.ip
             /\ IF Names(ip) THEN filename = ip ELSE \E n \in Naming : filename = n[1]

\* Over a faultless network no failed attempt and no loaded kernel leaves the
\* loader among the server's clients.
MountReleased == at \in {"failed", "done"} /\ faults = 0 => mounted = {}

\* A cached port that is not mountd's (any more) is never looked up again.
Stuck == mount_port # None /\ mount_port # mountd[arptable.ip]

\* While an offer is to be confirmed another answer, a plain one or a refusal, has
\* replaced the address.  It takes one of bootp's tries; and if the tries end with
\* it, what is in dhcp_reply makes the next plain answer an offer, or a refusal an
\* answer.
Muddled == call.kind = "boot" /\ call.type = "REQUEST" /\ ip # call.addr

\* The kernel is loaded in spite of any single fault, unless bootp was muddled or
\* mountd has moved.
KernelLoads == <>(at = "done" \/ faults > 1 \/ Muddled \/ (Loading /\ Stuck))
=============================================================================
