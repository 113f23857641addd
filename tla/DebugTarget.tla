---------------------------- MODULE DebugTarget ----------------------------
(***************************************************************************)
(* What a debugger's host is promised of the target it talks to: a memory  *)
(* that only the running program and the host's own writes change, however *)
(* the stub uses that memory to stop the program.  GdbStub implements it.  *)
(***************************************************************************)
CONSTANTS
  Addr,      \* addresses
  Word       \* what an address may hold

VARIABLES
  memory,    \* the memory as the host and the program are to see it
  mode       \* "off", "running", "stopped", "writing": the host writes memory,
             \* or "lost": the stub was re-entered

tvars == <<memory, mode>>

TargetInit == memory \in [Addr -> Word] /\ mode = "off"

WriteOne == \E a \in Addr, w \in Word : memory' = [memory EXCEPT ![a] = w]

\* The program writes while it runs, the host while its command is served.
Write == mode \in {"running", "writing"} /\ WriteOne /\ UNCHANGED mode

\* Stopping, starting or ending a command, and resuming leave the memory alone.
Stop == mode \in {"off", "running"} /\ mode' = "stopped" /\ UNCHANGED memory

Command == mode = "stopped" /\ mode' = "writing" /\ UNCHANGED memory

Answer == mode = "writing" /\ mode' = "stopped" /\ UNCHANGED memory

Resume == mode = "stopped" /\ mode' \in {"running", "off"} /\ UNCHANGED memory

\* A reset may leave the trap of a step behind, at the one address it was at.
Reset == mode # "lost" /\ mode' = "off" /\ (UNCHANGED memory \/ WriteOne)

\* Once the stub has been re-entered nothing is promised until a reset.
Lose == mode' = "lost" /\ memory' \in [Addr -> Word]

Recover == mode = "lost" /\ mode' = "off" /\ memory' \in [Addr -> Word]

TargetNext ==
  Write \/ Stop \/ Command \/ Answer \/ Resume \/ Reset \/ Lose \/ Recover

TargetSpec == TargetInit /\ [][TargetNext]_tvars
=============================================================================
