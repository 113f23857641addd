------------------------------ MODULE GdbStub ------------------------------
(***************************************************************************)
(* The GDB stub of the boot loader and the program it debugs, on one CPU:  *)
(* handle_exception and gdb_handle_exception of sh-stub.c, the state the   *)
(* exception entry code of exceptions-sh3.S passes to them, and the host's *)
(* commands.  The program's memory is an array of instruction slots; an    *)
(* instruction is what single-stepping tells apart.  The bytes of packets  *)
(* are the subject of GdbPacket, the entry code's instructions that of     *)
(* ExcEntry, the opcode masks of doSStep that of SStep.                    *)
(***************************************************************************)
EXTENDS Integers

CONSTANTS
  N,           \* instruction slots of the address space (2^31 on the machine)
  Rom,         \* slots where a write has no effect
  Unmapped,    \* slots where an access is an address error
  Disp,        \* displacement of the conditional branches, in slots
  Files,       \* contents the program's data registers may take
  Programs,    \* memories at power-on
  StoreWords,  \* what the program's stores write
  HostWords,   \* what the host's M commands write
  Accesses,    \* what m and M commands access: records of addr and len
  MaxRead,     \* slots an m command reads at most: OUTBUFMAX digits
  Entries      \* the PCs the host sets

Addr == 0 .. N - 1
Mon == -1      \* a PC inside the monitor's command loop
StubPc == -2   \* a PC inside the stub itself
NoAddr == -1   \* an instrBuffer.memAddr that points into the stub's ROM

Traps == {"bios", "self", "brk", "sstep"}    \* trapa #3f, #ff, the host's, #20
Word == {"op", "st", "bt", "bts", "jmp", "rte", "ill"} \cup Traps
Regs == [t : BOOLEAN, rn : Addr, sp : Addr]  \* T bit, jump register, R15

ASSUME ConstantsOK ==
  /\ N \in Nat \ {0}
  /\ Rom \subseteq Addr
  /\ Unmapped \subseteq Addr
  /\ Disp \in Int
  /\ Files \subseteq Regs /\ Files # {}
  /\ Programs \subseteq [Addr -> Word] /\ Programs # {}
  /\ StoreWords \subseteq Word
  /\ HostWords \subseteq Word
  /\ Accesses \subseteq [addr : Addr, len : Nat]
  /\ MaxRead \in Nat
  /\ Entries \subseteq Addr

VARIABLES
  mem,          \* the program's memory
  pc,           \* the program's PC; registers[PC] while the stub has control
  rf,           \* its data registers
  tra,          \* TRA: the last TRAPA executed since power-on
  bl,           \* SR.BL: exceptions blocked
  in_nmi, dofault, stepped, instrBuffer, ingdbmode,
  at,           \* where the CPU is
  frame,        \* the exception being served: its vector, TRA, and where it hit
  cmd,          \* the host command being served
  target,       \* instrMem of doSStep
  since,        \* history: instructions run since the host's c or s, up to 2
  stepOp,       \* history: the instruction the host's s stepped over, or "none"
  nested,       \* history: an exception hit the stub since the last reset
  left          \* history: slots whose trap of a step the last reset left there

stub == <<in_nmi, dofault, stepped, instrBuffer, ingdbmode>>
history == <<since, stepOp, nested, left>>
vars == <<mem, pc, rf, tra, bl, stub, at, frame, cmd, target, history>>

Vectors == {"trap", "ill", "slot", "addr", "break", "nmi"}
Session == {"report", "wait", "access", "reply", "plant", "detach"}
Places == Session \cup {"user", "bios", "monitor", "halted", "wild"}

NoFrame == [vec |-> "none", trap |-> "none", stop |-> Mon]
NoCmd == [op |-> "none", addr |-> 0, len |-> 0, done |-> 0, word |-> "op",
          answer |-> "none"]

TraValues == {"none", "bios", "self", "other"}
Frame == [vec : Vectors \cup {"none"}, trap : TraValues,
          stop : Addr \cup {Mon, StubPc}]
Cmd == [op : {"none", "info", "m", "M"}, addr : Addr, len : Nat, done : Nat,
        word : Word,
        answer : {"none", "info", "E03", "OK"}]

\* Each variable holds a value its C object or CPU register can hold, and an
\* m or M command has accessed no more than the host asked for: the loops of
\* mem2hex, hex2mem and ebin2mem end there (sh-stub.c:295, 311, 324).
TypeOK ==
  /\ mem \in [Addr -> Word]
  /\ pc \in Addr \cup {Mon, StubPc}
  /\ rf \in Regs
  /\ tra \in TraValues
  /\ bl \in BOOLEAN
  /\ in_nmi \in BOOLEAN
  /\ dofault \in BOOLEAN
  /\ stepped \in BOOLEAN
  /\ instrBuffer \in [memAddr : Addr \cup {NoAddr}, oldInstr : Word]
  /\ ingdbmode \in BOOLEAN
  /\ at \in Places
  /\ frame \in Frame
  /\ cmd \in Cmd /\ cmd.done <= cmd.len
  /\ target \in Addr \cup {NoAddr}
  /\ since \in 0 .. 2
  /\ stepOp \in Word \cup {"none"}
  /\ nested \in BOOLEAN
  /\ left \subseteq Addr

----------------------------------------------------------------------------
(* Addresses and memory *)

Plus(a, k) == (a + k) % N

\* A write reaches RAM only: ROM, and the stub behind NoAddr, ignore it.
Store(m, a, w) == IF a \in Addr \ Rom THEN [m EXCEPT ![a] = w] ELSE m

\* The slots that hold the trap of a step.
Trapped(m) == {a \in Addr : m[a] = "sstep"}

\* entry.S and start_main: the stub's variables start afresh, memory stays.
\* BL stays set until the monitor's sti().
CpuReset ==
  /\ at' = "monitor" /\ pc' = Mon /\ bl' = TRUE
  /\ in_nmi' = FALSE /\ dofault' = TRUE /\ stepped' = FALSE
  /\ instrBuffer' = [memAddr |-> NoAddr, oldInstr |-> "op"]
  /\ ingdbmode' = FALSE
  /\ frame' = NoFrame /\ cmd' = NoCmd /\ target' = NoAddr
  /\ since' = 0 /\ stepOp' = "none" /\ nested' = FALSE /\ left' = Trapped(mem)
  /\ UNCHANGED <<mem, rf, tra>>

----------------------------------------------------------------------------
(* Entry into the stub *)

\* handle_exception: TRA says whether this is a BIOS call, whatever the vector.
Dispatch(vec, t, stop) ==
  IF vec # "nmi" /\ t = "bios"
    THEN at' = "bios" /\ UNCHANGED <<frame, ingdbmode>>
    ELSE /\ at' = "report" /\ ingdbmode' = TRUE
         /\ frame' = [vec |-> vec, trap |-> t, stop |-> stop]

\* An exception of the program (or of the monitor): the entry code saves its
\* context with PC p.  An address error with dofault clear jumps into the
\* frame of a command that was given up, and nothing is known after that.
EnterFromProgram(vec, p, t) ==
  /\ pc' = p /\ tra' = t
  /\ in_nmi' = (in_nmi \/ vec = "nmi")
  /\ IF vec = "addr" /\ ~dofault
       THEN at' = "wild" /\ UNCHANGED <<frame, ingdbmode>>
       ELSE Dispatch(vec, t, pc)
  /\ UNCHANGED <<mem, rf, bl, dofault, stepped, instrBuffer, cmd, target,
                 stepOp, nested, left>>

\* An exception of the stub itself: registers[] and the stub's stack are
\* overwritten, so the program's context and the outer frame are gone.
EnterFromStub(vec) ==
  /\ pc' = StubPc
  /\ in_nmi' = (in_nmi \/ vec = "nmi")
  /\ nested' = TRUE
  /\ Dispatch(vec, tra, StubPc)
  /\ UNCHANGED <<mem, rf, tra, bl, dofault, stepped, cmd, target, since, stepOp,
                 left>>

\* An access of the stub outside an m or M command faults, with instrBuffer
\* at ib: if BL is set the CPU resets, otherwise the stub enters itself.
StubFaults(ib) ==
  \/ bl /\ CpuReset
  \/ ~bl /\ dofault /\ EnterFromStub("addr") /\ instrBuffer' = ib
  \/ /\ ~bl /\ ~dofault
     /\ at' = "wild" /\ instrBuffer' = ib
     /\ UNCHANGED <<mem, pc, rf, tra, bl, in_nmi, dofault, stepped, ingdbmode,
                    frame, cmd, target, history>>

\* restoreRegisters: return to p with the program's SR, in which BL is clear.
\* A p inside a frame of the stub that was overwritten leads nowhere known.
ReturnTo(p) ==
  /\ at' = IF p \in Addr THEN "user" ELSE IF p = Mon THEN "monitor" ELSE "wild"
  /\ pc' = p
  /\ bl' = FALSE /\ in_nmi' = FALSE
  /\ frame' = NoFrame /\ cmd' = NoCmd /\ target' = NoAddr
  /\ UNCHANGED <<rf, tra, nested, left>>

----------------------------------------------------------------------------
(* The program, one instruction at a time *)

Ran == since' = IF since = 2 THEN 2 ELSE since + 1

\* The effect of an instruction w other than on PC.
Effect(w) ==
  \/ w = "op" /\ rf' \in Files /\ UNCHANGED mem
  \/ /\ w = "st" /\ rf.rn \notin Unmapped
     /\ \E v \in StoreWords : mem' = Store(mem, rf.rn, v)
     /\ UNCHANGED rf

RunTo(p) ==
  /\ pc' = p /\ Ran
  /\ UNCHANGED <<tra, bl, stub, at, frame, cmd, target, stepOp, nested, left>>

Fetched(w) == at = "user" /\ pc \notin Unmapped /\ mem[pc] = w

UserPlain ==
  \E w \in {"op", "st"} : Fetched(w) /\ Effect(w) /\ RunTo(Plus(pc, 1))

UserBranch ==
  /\ Fetched("bt")
  /\ RunTo(IF rf.t THEN Plus(pc, 2 + Disp) ELSE Plus(pc, 1))
  /\ UNCHANGED <<mem, rf>>

\* A delayed branch runs the instruction in its slot too.  RTE goes to the
\* address in SPC, which the program has loaded with what it likes.
UserDelayed ==
  \E w \in {"bts", "jmp", "rte"} :
    /\ Fetched(w) /\ Plus(pc, 1) \notin Unmapped
    /\ Effect(mem[Plus(pc, 1)])
    /\ \/ w = "bts" /\ RunTo(IF rf.t THEN Plus(pc, 2 + Disp) ELSE Plus(pc, 2))
       \/ w = "jmp" /\ RunTo(rf.rn)
       \/ w = "rte" /\ \E p \in Addr : RunTo(p)

\* TRAPA sets TRA and saves the address after it.
UserTrap ==
  \E t \in Traps :
    /\ Fetched(t)
    /\ EnterFromProgram("trap", Plus(pc, 1), IF t \in {"bios", "self"} THEN t ELSE "other")
    /\ IF t = "bios" THEN Ran ELSE UNCHANGED since

\* The other exceptions save the address of the instruction, and leave TRA.
UserFault ==
  LET slot == Plus(pc, 1)
      stores(w) == w = "st" /\ rf.rn \in Unmapped
      delayed == mem[pc] \in {"bts", "jmp", "rte"}
      vec ==
        IF \/ pc \in Unmapped
           \/ stores(mem[pc])
           \/ delayed /\ (slot \in Unmapped \/ stores(mem[slot])) THEN "addr"
        ELSE IF mem[pc] = "ill" THEN "ill"
        ELSE IF delayed /\ mem[slot] \notin {"op", "st"} THEN "slot"
        ELSE "none"
  IN /\ at = "user" /\ vec # "none"
     /\ EnterFromProgram(vec, pc, tra)
     /\ UNCHANGED since

\* The break button (NMI) and a serial break reach a program that runs.
UserInterrupted ==
  /\ \/ at = "user" /\ EnterFromProgram("break", pc, tra)
     \/ at \in {"user", "monitor"} /\ ~bl /\ EnterFromProgram("nmi", pc, tra)
  /\ UNCHANGED since

Program == UserPlain \/ UserBranch \/ UserDelayed \/ UserTrap \/ UserFault

----------------------------------------------------------------------------
(* A session with the host: gdb_handle_exception *)

\* The PC the host sees, and a mutant that goes by a TRA left from an earlier
\* trap.
BackedUpByTra == IF frame.trap # "self" THEN Plus(pc, N - 1) ELSE pc

BackedUp == IF frame.vec = "trap" /\ frame.trap # "self" THEN Plus(pc, N - 1) ELSE pc

\* undoSStep, and two ways to get it wrong: only when the program stopped at the
\* trap, and without writing the old instruction back.
UndoAtTrap ==
  /\ mem' = IF stepped /\ BackedUp = instrBuffer.memAddr
              THEN Store(mem, instrBuffer.memAddr, instrBuffer.oldInstr) ELSE mem
  /\ stepped' = FALSE

UndoForgets == stepped' = FALSE /\ UNCHANGED mem

UndoSStep ==
  /\ mem' = IF stepped THEN Store(mem, instrBuffer.memAddr, instrBuffer.oldInstr) ELSE mem
  /\ stepped' = FALSE

\* The host acknowledged the S packet.  A trap put in place of code is backed
\* over (the compiled-in trapa #ff stays executed) and undoSStep takes out
\* the trap of a step.
ReportAcked ==
  /\ at = "report"
  /\ \/ stepped /\ instrBuffer.memAddr \in Unmapped /\ StubFaults(instrBuffer)
     \/ /\ ~(stepped /\ instrBuffer.memAddr \in Unmapped)
        /\ at' = "wait" /\ pc' = BackedUp /\ UndoSStep
        /\ frame' = NoFrame
        /\ UNCHANGED <<rf, tra, bl, in_nmi, dofault, instrBuffer, ingdbmode, cmd,
                       target, history>>

Answer(a) ==
  /\ at' = "reply" /\ cmd' = [cmd EXCEPT !.answer = a]

\* ?, d, g, k, an unknown command, and an m or M with bad syntax.
CmdInfo ==
  /\ at = "wait"
  /\ Answer("info")
  /\ UNCHANGED <<mem, pc, rf, tra, bl, stub, frame, target, history>>

CmdSetRegisters ==
  /\ at = "wait" /\ Answer("info")
  /\ pc' \in Entries /\ rf' \in Files
  /\ UNCHANGED <<mem, tra, bl, stub, frame, target, history>>

\* How much m reads is cut to what the reply has room for; M writes it all.
Length(op, len) == IF op = "m" /\ len > MaxRead THEN MaxRead ELSE len

\* m and M: while the words are accessed an address error longjmps back.
CmdAccess ==
  /\ at = "wait" /\ at' = "access"
  /\ \E op \in {"m", "M"}, x \in Accesses, w \in HostWords :
       cmd' = [op |-> op, addr |-> x.addr, len |-> Length(op, x.len), done |-> 0,
               word |-> w, answer |-> "none"]
  /\ dofault' = FALSE
  /\ UNCHANGED <<mem, pc, rf, tra, bl, in_nmi, stepped, instrBuffer, ingdbmode,
                 frame, target, history>>

\* handle_buserror, setjmp returning again, and the E03 branch; mutants that
\* miss the second return, and that restore dofault in the other branch only.
BusErrorUnseen == bl' = TRUE /\ dofault' = TRUE /\ Answer("OK")

BusErrorDisarms == bl' = TRUE /\ UNCHANGED dofault /\ Answer("E03")

BusError == bl' = TRUE /\ dofault' = TRUE /\ Answer("E03")

\* Whether the loop goes on, and a mutant that counts one too many.
MoreByOne == cmd.done <= cmd.len

More == cmd.done < cmd.len

\* One more word, or handle_buserror.  The entry code jumps there before it
\* clears BL and longjmp leaves SR alone, so BL stays set until the stub
\* returns to the program: the next fault resets the CPU.
AccessWord ==
  LET a == Plus(cmd.addr, cmd.done)
  IN /\ at = "access" /\ More
     /\ \/ a \in Unmapped /\ bl /\ CpuReset
        \/ /\ a \in Unmapped /\ ~bl /\ BusError
           /\ UNCHANGED <<mem, pc, rf, tra, in_nmi, stepped, instrBuffer, ingdbmode,
                          frame, target, history>>
        \/ /\ a \notin Unmapped
           /\ mem' = IF cmd.op = "M" THEN Store(mem, a, cmd.word) ELSE mem
           /\ cmd' = [cmd EXCEPT !.done = @ + 1]
           /\ UNCHANGED <<pc, rf, tra, bl, stub, at, frame, target, history>>

AccessDone ==
  /\ at = "access" /\ ~More
  /\ Answer("OK") /\ dofault' = TRUE
  /\ UNCHANGED <<mem, pc, rf, tra, bl, in_nmi, stepped, instrBuffer, ingdbmode,
                 frame, target, history>>

ReplyAcked ==
  /\ at = "reply" /\ at' = "wait" /\ cmd' = NoCmd
  /\ UNCHANGED <<mem, pc, rf, tra, bl, stub, frame, target, history>>

\* c and s, with or without an address.
CmdContinue ==
  /\ at = "wait"
  /\ \E p \in Entries \cup {pc} : ReturnTo(p)
  /\ since' = 0 /\ stepOp' = "none"
  /\ UNCHANGED <<mem, dofault, stepped, instrBuffer, ingdbmode>>

\* A mutant with the sense of BT swapped.
StepTargetSwapped(w, p) ==
  IF w = "bt" THEN IF rf.t THEN Plus(p, 1) ELSE Plus(p, 2 + Disp)
  ELSE IF w = "jmp" THEN rf.rn ELSE Plus(p, 1)

\* Where doSStep expects the program to go from instruction w at p.  For an
\* RTE it takes R15, which it labels SPC.
StepTarget(w, p) ==
  CASE w = "bt"  -> IF rf.t THEN Plus(p, 2 + Disp) ELSE Plus(p, 1)
    [] w = "bts" -> IF rf.t THEN Plus(p, 2 + Disp) ELSE Plus(p, 2)
    [] w = "jmp" -> rf.rn
    [] w = "rte" -> rf.sp
    [] OTHER     -> Plus(p, 1)

\* s, with or without an address p: doSStep up to the target.  stepped is set
\* before instrBuffer is.
CmdStep ==
  /\ at = "wait"
  /\ \E p \in Entries \cup {pc} :
       \/ p \in Unmapped /\ StubFaults(instrBuffer)
       \/ /\ p \notin Unmapped
          /\ at' = "plant" /\ pc' = p /\ stepped' = TRUE
          /\ target' = IF p \in Addr THEN StepTarget(mem[p], p) ELSE NoAddr
          /\ UNCHANGED <<mem, rf, tra, bl, in_nmi, dofault, instrBuffer, ingdbmode, frame,
                         cmd, history>>

\* The rest of doSStep, and the return to the program.
StepPlant ==
  LET word == IF target \in Addr THEN mem[target] ELSE "op"
      ib == [memAddr |-> target, oldInstr |-> word]
  IN /\ at = "plant"
     /\ \/ /\ target \in Unmapped
           /\ StubFaults([instrBuffer EXCEPT !.memAddr = target])
        \/ /\ target \notin Unmapped
           /\ instrBuffer' = ib
           /\ mem' = Store(mem, target, "sstep")
           /\ since' = 0
           /\ stepOp' = IF pc \in Addr THEN mem[pc] ELSE "none"
           /\ ReturnTo(pc)
           /\ UNCHANGED <<dofault, stepped, ingdbmode>>

\* D: the OK packet and the key the user types, then the program goes on.
CmdDetach ==
  /\ at = "wait" /\ at' = "detach" /\ ingdbmode' = FALSE
  /\ UNCHANGED <<mem, pc, rf, tra, bl, in_nmi, dofault, stepped, instrBuffer,
                 frame, cmd, target, history>>

DetachDone ==
  /\ at = "detach" /\ ReturnTo(pc)
  /\ since' = 0 /\ stepOp' = "none"
  /\ UNCHANGED <<mem, dofault, stepped, instrBuffer, ingdbmode>>

Host == CmdInfo \/ CmdSetRegisters \/ CmdAccess \/ CmdContinue \/ CmdStep \/ CmdDetach
Stub == ReportAcked \/ AccessWord \/ AccessDone \/ ReplyAcked \/ StepPlant
        \/ DetachDone

----------------------------------------------------------------------------
(* BIOS calls, the monitor, and what comes from outside *)

BiosReturn ==
  /\ at = "bios" /\ ReturnTo(pc)
  /\ UNCHANGED <<mem, dofault, stepped, instrBuffer, ingdbmode, since, stepOp>>

\* The functions that read or fill a buffer of the program's, at the address it
\* passes: serial output and input, disk reads, frames, the node address.
BiosBuffer ==
  /\ at = "bios"
  /\ \/ rf.rn \in Unmapped /\ StubFaults(instrBuffer)
     \/ /\ rf.rn \notin Unmapped
        /\ \E v \in StoreWords : mem' = Store(mem, rf.rn, v)
        /\ UNCHANGED <<pc, rf, tra, bl, stub, at, frame, cmd, target, history>>

\* Function 255: tell gdb the program exited, and leave gdb mode.
BiosDetach ==
  /\ at = "bios" /\ ingdbmode /\ ingdbmode' = FALSE
  /\ UNCHANGED <<mem, pc, rf, tra, bl, in_nmi, dofault, stepped, instrBuffer,
                 at, frame, cmd, target, history>>

\* Function 11: halt, or reboot by an address error with BL set.
BiosShutdown ==
  /\ at = "bios"
  /\ \/ CpuReset
     \/ /\ at' = "halted" /\ bl' = TRUE
        /\ UNCHANGED <<mem, pc, rf, tra, stub, frame, cmd, target, history>>

Bios == BiosReturn \/ BiosBuffer \/ BiosDetach \/ BiosShutdown

\* The monitor's g command: sti() and trapa #ff.
MonitorGdb ==
  /\ at = "monitor" /\ at' = "report"
  /\ bl' = FALSE /\ tra' = "self" /\ ingdbmode' = TRUE
  /\ frame' = [vec |-> "trap", trap |-> "self", stop |-> Mon]
  /\ UNCHANGED <<mem, pc, rf, in_nmi, dofault, stepped, instrBuffer, cmd, target,
                 history>>

\* An interrupt while the stub serves the host or a BIOS call, BL being
\* clear; in_nmi fends off a second NMI only.  Bound: one before each reset.
StubInterrupted ==
  /\ at \in Session \cup {"bios"} /\ ~bl /\ ~nested
  /\ \/ EnterFromStub("nmi") /\ ~in_nmi
     \/ EnterFromStub("break")
  /\ UNCHANGED instrBuffer

ResetButton == CpuReset

Next ==
  \/ Program \/ UserInterrupted
  \/ Host \/ Stub \/ Bios
  \/ MonitorGdb \/ StubInterrupted \/ ResetButton

Init ==
  /\ mem \in Programs /\ rf \in Files /\ tra = "none"
  /\ at = "monitor" /\ pc = Mon /\ bl = TRUE
  /\ in_nmi = FALSE /\ dofault = TRUE /\ stepped = FALSE
  /\ instrBuffer = [memAddr |-> NoAddr, oldInstr |-> "op"]
  /\ ingdbmode = FALSE
  /\ frame = NoFrame /\ cmd = NoCmd /\ target = NoAddr
  /\ since = 0 /\ stepOp = "none" /\ nested = FALSE /\ left = Trapped(mem)

Spec == Init /\ [][Next]_vars

----------------------------------------------------------------------------
(* Properties.  Those that speak of ~nested say nothing of a stub that an    *)
(* exception has re-entered: its session was overwritten.                    *)

\* While the host's commands are served no trap of a step is in memory, but for
\* those a reset left there: however the program came to stop, whatever it and
\* the host stored over the trap, and also when an exception re-entered the stub
\* between setting stepped and filling instrBuffer (sh-stub.c:704, 802-805).
\* It holds of hosts and programs that write no trapa #20 of their own.
TrapsTakenOut ==
  "sstep" \notin StoreWords \cup HostWords
  /\ at \in {"wait", "access", "reply", "detach"} => Trapped(mem) \subseteq left

\* Address errors are caught by the stub only inside an m or M command; the
\* program always runs, and every command starts, with dofault set, on each
\* way out of the setjmp (sh-stub.c:922, 967).
FaultsArmed == ~nested /\ at # "access" => dofault

\* An OK to m or M means that every word was accessed and, in RAM, holds what
\* was written; E03 means that one of them is unmapped (sh-stub.c:898-968).
AnswersTrue ==
  LET slots == {Plus(cmd.addr, i) : i \in 0 .. cmd.len - 1}
  IN ~nested /\ at = "reply" =>
       /\ cmd.answer = "E03" => \E a \in slots : a \in Unmapped
       /\ cmd.answer = "OK" =>
            \A a \in slots : /\ a \notin Unmapped
                             /\ cmd.op = "M" /\ a \notin Rom => mem[a] = cmd.word

\* The trap of a step is in place: in RAM, and not stored over by the program.
Planted ==
  /\ stepped /\ instrBuffer.memAddr \in Addr \ Rom
  /\ mem[instrBuffer.memAddr] = "sstep"

\* doSStep finds where the program goes next, whatever the instruction and the
\* T bit, except for RTE (sh-stub.c:694-808): the first instruction the program
\* runs, a branch with its slot, takes it to the trap, and no second one runs
\* there.  An instruction stored over since s, or the trap, is not doSStep's.
StepExact ==
  [][~nested /\ at = "user" /\ Planted /\ stepOp \notin {"none", "rte"} =>
       /\ since = 0 /\ mem[pc] = stepOp /\ since' # 0 => pc' = instrBuffer.memAddr
       /\ since = 1 /\ pc = instrBuffer.memAddr => since' # 2]_vars

\* The program the host stepped has run at most one instruction, and having run
\* one it stands at the trap.
Single == since > 0 => since = 1 /\ pc = instrBuffer.memAddr

\* "returning will cause only a single instruction to be executed"
\* (sh-stub.c:684-692), RTE included.
StepIsSingle == ~nested /\ at = "user" /\ Planted /\ stepOp # "none" => Single

\* The host is shown the PC of the instruction that stopped the program, and
\* only a compiled-in trapa #ff counts as executed (sh-stub.c:849-860).
StopPcExact ==
  [][at = "report" /\ at' = "wait" /\ ~nested =>
       pc' = IF frame.vec = "trap" /\ frame.trap = "self" /\ frame.stop # Mon
               THEN Plus(frame.stop, 1) ELSE frame.stop]_vars

\* Bus errors are "disableable - so that you can probe memory" without a
\* fault (exceptions-sh3.S:247-251): no access of a command resets the CPU.
ProbeNeverResets == [][AccessWord => at' # "monitor"]_vars

\* The memory as the host and the program see it: the trap of a step hidden.
Shown ==
  IF stepped /\ at # "plant" /\ instrBuffer.memAddr \in Addr
    THEN [mem EXCEPT ![instrBuffer.memAddr] = instrBuffer.oldInstr]
    ELSE mem

Mode ==
  IF nested \/ at = "wild" THEN "lost"
  ELSE IF at \in {"monitor", "halted"} THEN "off"
  ELSE IF at \in {"user", "bios"} THEN "running"
  ELSE IF at = "access" /\ cmd.op = "M" THEN "writing"
  ELSE "stopped"

Target == INSTANCE DebugTarget WITH memory <- Shown, mode <- Mode

\* Breakpoints of the host, stores of the program and traps of the stub
\* share the memory, and only the first two are seen in it.
ImplementsDebugTarget == Target!TargetSpec

=============================================================================
