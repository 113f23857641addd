-------------------------------- MODULE Nfs --------------------------------
(***************************************************************************)
(* ethboot/nfs.c and load_file of ethboot/ethboot.c: the file is read from *)
(* the server bootp found, by remote calls that are repeated until they    *)
(* are answered.  The servers are what portmap, mountd and nfsd do.        *)
(***************************************************************************)
EXTENDS Integers, Bootp

CONSTANTS
  MAX_RPC_RETRIES,
  OPORT_SWEEP,
  READ,          \* NFS_READ_SIZE, in the units of the file
  File,          \* the file of each server
  MaxAttempts    \* bound: calls of nfs

ASSUME NfsConstantsOK ==
  /\ MAX_RPC_RETRIES \in Nat \ {0} /\ OPORT_SWEEP \in Nat
  /\ READ \in Nat \ {0}
  /\ DOMAIN File = Servers /\ \A s \in Servers : File[s] \in Seq(Int)
  /\ MaxAttempts \in Nat

VARIABLES
  oport, sport, mount_port, nfs_port, fs_mounted, rpc_id,
  retries,          \* of the call being made
  offs, size, len,
  image,            \* what has been written at the load address
  loaded,           \* nfs returned 1
  attempts,
  mountd, mounted   \* external: mountd's port, and its list of clients

nfsVars == <<oport, sport, mount_port, nfs_port, fs_mounted, rpc_id, retries, offs, size,
             len, image, loaded, attempts, mountd, mounted>>
vars == <<netVars, bootpVars, nfsVars>>

NFSD == 0    \* nfsd's port
Port == 0 .. 2

NfsTypeOK ==
  /\ oport \in 0 .. OPORT_SWEEP /\ sport \in 0 .. OPORT_SWEEP
  /\ mount_port \in Port \cup {None} /\ nfs_port \in {NFSD, None}
  /\ fs_mounted \in BOOLEAN
  /\ rpc_id \in Nat /\ retries \in 0 .. MAX_RPC_RETRIES
  /\ offs \in Nat /\ size \in Nat \cup {-1} /\ len \in 0 .. READ
  /\ loaded \in BOOLEAN
  /\ attempts \in 0 .. MaxAttempts
  /\ mountd \in [Servers -> Port] /\ mounted \subseteq Servers

----------------------------------------------------------------------------
(* Remote calls *)

\* What a reply's body means to each procedure: a port, or a piece of the file.
Reply(m, ok, port, data) ==
  [kind |-> "reply", to |-> "loader", id |-> m.id, port |-> m.sport, ok |-> ok,
   body |-> [port |-> port, data |-> data, size |-> Len(File[m.to])]]

\* A mutant that takes any reply to its port.
AcceptsAnyId(m) == call.kind = "call" /\ m.kind = "reply" /\ m.port = call.sport

AcceptsRpc(m) ==
  call.kind = "call" /\ m.kind = "reply" /\ m.port = call.sport /\ m.id = call.id

\* A new call takes the next id; repeating it keeps the id.
CallFor(proc, from, port, o, n) ==
  /\ at' = "send" /\ retries' = 0
  /\ call' = [kind |-> "call", to |-> arptable.ip, proc |-> proc, id |-> rpc_id,
              sport |-> from, port |-> port, name |-> filename, off |-> o, len |-> n]
  /\ rpc_id' = rpc_id + 1

Call(proc, from, port) == CallFor(proc, from, port, 0, 0)

----------------------------------------------------------------------------
(* The servers *)

Listening(m) ==
  \/ m.proc \in {"mountport", "nfsport"}
  \/ m.proc \in {"mount", "umount"} /\ m.port = mountd[m.to]
  \/ m.proc \in {"lookup", "read"} /\ m.port = NFSD

Piece(m, n) == SubSeq(File[m.to], m.off + 1, m.off + n)
Left(m) == Len(File[m.to]) - m.off

\* mountd enters and removes the client; the rest have no effect here.
Effect(m) ==
  mounted' = CASE m.proc = "mount" -> mounted \cup {m.to}
               [] m.proc = "umount" -> mounted \ {m.to}
               [] OTHER -> mounted

Serve ==
  \E m \in net :
    /\ m.kind = "call" /\ m.to \in knows
    /\ LET n == IF m.len <= Left(m) THEN m.len ELSE Left(m)
           port == IF m.proc = "mountport" THEN mountd[m.to] ELSE NFSD
       IN IF ~Listening(m)
            THEN net' = net \ {m} /\ UNCHANGED <<faults, mounted>>
          ELSE IF m.proc = "lookup" /\ m.name # m.to
            THEN net' = (net \ {m}) \cup {Reply(m, FALSE, port, <<>>)}
                 /\ UNCHANGED <<faults, mounted>>
          ELSE \/ /\ net' = (net \ {m}) \cup {Reply(m, TRUE, port, Piece(m, n))}
                  /\ Effect(m) /\ UNCHANGED faults
               \/ /\ Fault /\ UNCHANGED mounted
                  /\ net' = (net \ {m}) \cup {Reply(m, FALSE, port, <<>>)}
               \/ /\ Fault /\ UNCHANGED mounted /\ m.proc = "read" /\ n > 1
                  /\ net' = (net \ {m}) \cup {Reply(m, TRUE, port, Piece(m, 1))}
    /\ UNCHANGED <<loader, rx, knows, bootpVars, oport, sport, mount_port, nfs_port, fs_mounted,
                   rpc_id, retries, offs, size, len, image, loaded, attempts, mountd>>

\* mountd restarts on another port.
ServerMoves ==
  /\ Fault
  /\ \E s \in Servers, p \in Port \ {NFSD} : mountd[s] # p /\ mountd' = [mountd EXCEPT ![s] = p]
  /\ UNCHANGED <<loader, net, rx, knows, bootpVars, oport, sport, mount_port, nfs_port, fs_mounted,
                 rpc_id, retries, offs, size, len, image, loaded, attempts, mounted>>

----------------------------------------------------------------------------
(* nfs *)

steady == <<net, arpTry, arptable, knows, bootpVars, attempts, mountd, mounted>>
reading == <<offs, size, len, image, loaded>>

\* The source ports sweep a range.
NextPort(p) == IF p + 1 > OPORT_SWEEP THEN 0 ELSE p + 1

\* Ask for the ports not yet known, then mount.
Begin ==
  /\ at = "drain" /\ call.kind = "idle" /\ rx = <<>>
  /\ sport' = oport /\ oport' = NextPort(oport)
  /\ IF mount_port = None THEN Call("mountport", oport, 0)
     ELSE IF nfs_port = None THEN Call("nfsport", oport, 0)
     ELSE Call("mount", oport, mount_port)
  /\ UNCHANGED <<steady, rx, faults, mount_port, nfs_port, fs_mounted, reading>>

\* nfs returned 0, or after cleanup_net the kernel starts.
Leave == at' = IF loaded THEN "done" ELSE "failed"

\* nfs_umountall, from a port that is the next attempt's.
Umount ==
  IF fs_mounted THEN Call("umount", oport, mount_port)
  ELSE Leave /\ UNCHANGED <<call, retries, rpc_id>>

\* What a call came to: rep is the reply, or silence.
Silent == [ok |-> FALSE]

PortsKnown(rep) ==
  LET p == IF rep.ok THEN rep.body.port ELSE None
      mp == IF call.proc = "mountport" THEN p ELSE mount_port
      np == IF call.proc = "nfsport" THEN p ELSE nfs_port
  IN /\ call.proc \in {"mountport", "nfsport"}
     /\ mount_port' = mp /\ nfs_port' = np
     /\ IF call.proc = "mountport" /\ np = None THEN Call("nfsport", sport, 0)
        ELSE IF mp = None \/ np = None
          THEN at' = "failed" /\ UNCHANGED <<call, retries, rpc_id>>
        ELSE Call("mount", sport, mp)
     /\ UNCHANGED <<fs_mounted, reading>>

\* A mutant does not note that there is something to unmount.
MountForgotten(rep) ==
  /\ call.proc = "mount"
  /\ UNCHANGED fs_mounted
  /\ IF rep.ok THEN Call("lookup", sport, nfs_port) ELSE Umount
  /\ UNCHANGED <<mount_port, nfs_port, reading>>

Mounted(rep) ==
  /\ call.proc = "mount"
  /\ fs_mounted' = (fs_mounted \/ rep.ok)
  /\ IF rep.ok THEN Call("lookup", sport, nfs_port) ELSE Umount
  /\ UNCHANGED <<mount_port, nfs_port, reading>>

LookedUp(rep) ==
  /\ call.proc = "lookup"
  /\ IF rep.ok
       THEN /\ offs' = 0 /\ size' = -1 /\ len' = READ
            /\ CallFor("read", sport, nfs_port, 0, READ)
       ELSE Umount /\ UNCHANGED <<offs, size, len>>
  /\ UNCHANGED <<mount_port, nfs_port, fs_mounted, image, loaded>>

\* binaryload: a block goes behind the last.
Binaryload(data) == image' = image \o data

\* A block, at most what was asked for; the last request asks for what is left.
BlockRead(rep) ==
  LET data == rep.body.data
      rlen == IF Len(data) > len THEN len ELSE Len(data)
  IN /\ call.proc = "read" /\ rep.ok
     /\ size' = IF size = -1 THEN rep.body.size ELSE size
     /\ Binaryload(SubSeq(data, 1, rlen))
     /\ offs' = offs + rlen
     /\ len' = IF size' - offs' < READ THEN size' - offs' ELSE len
     /\ loaded' = (len' = 0)
     /\ IF len' # 0 THEN CallFor("read", sport, nfs_port, offs', len')
        ELSE IF fs_mounted THEN Call("umount", oport, mount_port)
        ELSE at' = "done" /\ UNCHANGED <<call, retries, rpc_id>>
     /\ UNCHANGED <<mount_port, nfs_port, fs_mounted>>

ReadFailed(rep) ==
  /\ call.proc = "read" /\ ~rep.ok
  /\ Umount
  /\ UNCHANGED <<mount_port, nfs_port, fs_mounted, reading>>

Unmounted(answered) ==
  /\ call.proc = "umount"
  /\ fs_mounted' = (fs_mounted /\ ~answered)
  /\ Leave
  /\ UNCHANGED <<call, retries, rpc_id, mount_port, nfs_port, reading>>

Continue(rep, answered) ==
  /\ \/ PortsKnown(rep) \/ Mounted(rep) \/ LookedUp(rep) \/ BlockRead(rep) \/ ReadFailed(rep)
     \/ Unmounted(answered)
  /\ UNCHANGED <<steady, oport, sport>>

RpcReply ==
  /\ at = "await" /\ rx # <<>> /\ AcceptsRpc(Head(rx))
  /\ rx' = Tail(rx)
  /\ Continue(Head(rx), TRUE)
  /\ UNCHANGED faults

\* Repeat the call, or give it up.
RpcTimeout ==
  /\ at = "await" /\ call.kind = "call" /\ Silence
  /\ UNCHANGED rx
  /\ IF retries + 1 < MAX_RPC_RETRIES
       THEN /\ at' = "send" /\ retries' = retries + 1
            /\ UNCHANGED <<call, steady, oport, sport, mount_port, nfs_port, fs_mounted, rpc_id,
                           reading>>
       ELSE Continue(Silent, FALSE)

\* load_file: from the start, after a while.
LoadAgain ==
  /\ at = "failed" /\ attempts < MaxAttempts /\ attempts' = attempts + 1
  /\ at' = "drain" /\ call' = Idle /\ image' = <<>>
  /\ UNCHANGED <<net, rx, arpTry, arptable, knows, faults, bootpVars, oport, sport, mount_port,
                 nfs_port, fs_mounted, rpc_id, retries, offs, size, len, loaded, mountd, mounted>>

NfsLoader == Begin \/ RpcReply \/ RpcTimeout \/ LoadAgain

NfsInit ==
  /\ oport = 0 /\ sport = 0 /\ mount_port = None /\ nfs_port = None
  /\ fs_mounted = FALSE /\ rpc_id = 0 /\ retries = 0
  /\ offs = 0 /\ size = -1 /\ len = READ
  /\ image = <<>> /\ loaded = FALSE /\ attempts = 0
  /\ mountd \in [Servers -> {1}] /\ mounted = {}
=============================================================================
