--------------------------- MODULE GdbStubProofs ---------------------------
(***************************************************************************)
(* Proofs about GdbStub, for any address space, program and host.          *)
(***************************************************************************)
EXTENDS GdbStub, TLAPS

\* Address arithmetic stays in the address space.
LEMMA PlusInAddr ==
  ASSUME NEW a \in Int, NEW k \in Int
  PROVE  Plus(a, k) \in Addr
BY ConstantsOK DEF Plus, Addr

\* A write leaves a memory.
LEMMA StoreIsMemory ==
  ASSUME NEW m \in [Addr -> Word], NEW a, NEW w \in Word
  PROVE  Store(m, a, w) \in [Addr -> Word]
BY DEF Store

\* The places, words and records the definitions name are of their types.
LEMMA Literals ==
  /\ 0 \in Addr /\ Addr \subseteq Int
  /\ Mon \in Int /\ StubPc \in Int /\ NoAddr \in Int /\ Mon \notin Addr /\ StubPc \notin Addr
  /\ NoAddr \notin Addr
  /\ "op" \in Word /\ "sstep" \in Word
  /\ NoFrame \in Frame
  /\ NoCmd \in Cmd
<1>1. 0 \in Addr /\ Addr \subseteq Int
  BY ConstantsOK DEF Addr
<1>2. /\ Mon \in Int /\ StubPc \in Int /\ NoAddr \in Int
      /\ Mon \notin Addr /\ StubPc \notin Addr /\ NoAddr \notin Addr
  BY ConstantsOK DEF Addr, Mon, StubPc, NoAddr
<1>3. "op" \in Word /\ "sstep" \in Word
  BY DEF Word, Traps
<1>4. NoFrame \in Frame
  BY DEF NoFrame, Frame, TraValues
<1>5. NoCmd \in Cmd
  BY <1>1, <1>3 DEF NoCmd, Cmd
<1> QED
  BY <1>1, <1>2, <1>3, <1>4, <1>5

LEMMA ResetTypeOK ==
  ASSUME TypeOK, CpuReset
  PROVE  TypeOK'
<1>1. /\ mem' \in [Addr -> Word] /\ rf' \in Regs /\ tra' \in TraValues
      /\ frame' \in Frame /\ cmd' \in Cmd
  BY Literals DEF TypeOK, CpuReset
<1>2. /\ bl' \in BOOLEAN /\ in_nmi' \in BOOLEAN /\ dofault' \in BOOLEAN
      /\ stepped' \in BOOLEAN /\ ingdbmode' \in BOOLEAN /\ nested' \in BOOLEAN
  BY Zenon DEF CpuReset
<1>3. /\ pc' \in Addr \cup {Mon, StubPc} /\ target' \in Addr \cup {NoAddr}
      /\ stepOp' \in Word \cup {"none"}
  BY DEF CpuReset
<1>4. since' \in 0 .. 2
  BY DEF CpuReset
<1>5. instrBuffer' \in [memAddr : Addr \cup {NoAddr}, oldInstr : Word]
  BY Literals DEF CpuReset
<1>6. at' \in Places
  BY DEF CpuReset, Places
<1>7. (cmd').done <= (cmd').len /\ left' \subseteq Addr
  BY DEF CpuReset, NoCmd, Trapped
<1> QED
  BY <1>1, <1>2, <1>3, <1>4, <1>5, <1>6, <1>7 DEF TypeOK

\* What dispatching an exception leaves of the types of the three variables.
LEMMA DispatchTypeOK ==
  ASSUME TypeOK, NEW vec \in Vectors, NEW t \in TraValues,
         NEW stop \in Addr \cup {Mon, StubPc}, Dispatch(vec, t, stop)
  PROVE  at' \in Places /\ frame' \in Frame /\ ingdbmode' \in BOOLEAN
<1>1. CASE vec # "nmi" /\ t = "bios"
  BY <1>1 DEF Dispatch, TypeOK, Places
<1>2. CASE ~(vec # "nmi" /\ t = "bios")
  <2>1. /\ at' = "report" /\ ingdbmode' = TRUE
        /\ frame' = [vec |-> vec, trap |-> t, stop |-> stop]
    BY <1>2, Zenon DEF Dispatch
  <2>2. frame' \in Frame
    BY <2>1 DEF Frame
  <2> QED
    BY <2>1, <2>2 DEF Places, Session
<1> QED
  BY <1>1, <1>2, Zenon

LEMMA EnterFromProgramTypeOK ==
  ASSUME TypeOK, NEW vec \in Vectors, NEW p \in Addr \cup {Mon, StubPc},
         NEW t \in TraValues, EnterFromProgram(vec, p, t), since' \in 0 .. 2
  PROVE  TypeOK'
<1>1. /\ mem' \in [Addr -> Word] /\ rf' \in Regs /\ tra' \in TraValues
      /\ cmd' \in Cmd /\ pc' \in Addr \cup {Mon, StubPc} /\ target' \in Addr \cup {NoAddr}
      /\ stepOp' \in Word \cup {"none"}
      /\ instrBuffer' \in [memAddr : Addr \cup {NoAddr}, oldInstr : Word]
      /\ (cmd').done <= (cmd').len /\ left' \subseteq Addr
  BY DEF TypeOK, EnterFromProgram
<1>2. /\ bl' \in BOOLEAN /\ in_nmi' \in BOOLEAN /\ dofault' \in BOOLEAN
      /\ stepped' \in BOOLEAN /\ nested' \in BOOLEAN
  BY Zenon DEF TypeOK, EnterFromProgram
<1>3. at' \in Places /\ frame' \in Frame /\ ingdbmode' \in BOOLEAN
  <2>1. CASE vec = "addr" /\ ~dofault
    BY <2>1 DEF TypeOK, EnterFromProgram, Places
  <2>2. CASE ~(vec = "addr" /\ ~dofault)
    <3>1. Dispatch(vec, t, pc)
      BY <2>2, Zenon DEF EnterFromProgram
    <3> QED
      BY <3>1, DispatchTypeOK DEF TypeOK
  <2> QED
    BY <2>1, <2>2, Zenon
<1> QED
  BY <1>1, <1>2, <1>3 DEF TypeOK

LEMMA EnterFromStubTypeOK ==
  ASSUME TypeOK, NEW vec \in Vectors, EnterFromStub(vec),
         instrBuffer' \in [memAddr : Addr \cup {NoAddr}, oldInstr : Word]
  PROVE  TypeOK'
<1>1. /\ mem' \in [Addr -> Word] /\ rf' \in Regs /\ tra' \in TraValues
      /\ cmd' \in Cmd /\ pc' \in Addr \cup {Mon, StubPc} /\ target' \in Addr \cup {NoAddr}
      /\ stepOp' \in Word \cup {"none"} /\ since' \in 0 .. 2
      /\ (cmd').done <= (cmd').len /\ left' \subseteq Addr
  BY DEF TypeOK, EnterFromStub
<1>2. /\ bl' \in BOOLEAN /\ in_nmi' \in BOOLEAN /\ dofault' \in BOOLEAN
      /\ stepped' \in BOOLEAN /\ nested' \in BOOLEAN
  BY Zenon DEF TypeOK, EnterFromStub
<1>3. at' \in Places /\ frame' \in Frame /\ ingdbmode' \in BOOLEAN
  BY DispatchTypeOK DEF TypeOK, EnterFromStub
<1> QED
  BY <1>1, <1>2, <1>3 DEF TypeOK

LEMMA StubFaultsTypeOK ==
  ASSUME TypeOK, NEW ib \in [memAddr : Addr \cup {NoAddr}, oldInstr : Word],
         StubFaults(ib)
  PROVE  TypeOK'
<1>1. CASE CpuReset
  BY <1>1, ResetTypeOK
<1>2. CASE EnterFromStub("addr") /\ instrBuffer' = ib
  BY <1>2, EnterFromStubTypeOK DEF Vectors
<1>3. CASE /\ at' = "wild" /\ instrBuffer' = ib
           /\ UNCHANGED <<mem, pc, rf, tra, bl, in_nmi, dofault, stepped, ingdbmode,
                          frame, cmd, target, history>>
  <2>1. at' \in Places
    BY <1>3 DEF Places
  <2>2. since' \in 0 .. 2
    BY <1>3 DEF TypeOK, history
  <2> QED
    BY <1>3, <2>1, <2>2 DEF TypeOK, history
<1> QED
  BY <1>1, <1>2, <1>3, Zenon DEF StubFaults

\* ReturnTo leaves the CPU in the program, in the monitor or lost.
LEMMA ReturnToTypeOK ==
  ASSUME TypeOK, NEW p \in Addr \cup {Mon, StubPc}, ReturnTo(p),
         mem' \in [Addr -> Word], dofault' \in BOOLEAN, stepped' \in BOOLEAN,
         instrBuffer' \in [memAddr : Addr \cup {NoAddr}, oldInstr : Word],
         ingdbmode' \in BOOLEAN, since' \in 0 .. 2, stepOp' \in Word \cup {"none"}
  PROVE  TypeOK'
<1>1. /\ rf' \in Regs /\ tra' \in TraValues /\ frame' \in Frame /\ cmd' \in Cmd
      /\ pc' \in Addr \cup {Mon, StubPc} /\ target' \in Addr \cup {NoAddr}
  BY Literals DEF TypeOK, ReturnTo
<1>4. (cmd').done <= (cmd').len /\ left' \subseteq Addr
  BY DEF TypeOK, ReturnTo, NoCmd
<1>2. bl' \in BOOLEAN /\ in_nmi' \in BOOLEAN /\ nested' \in BOOLEAN
  BY Zenon DEF TypeOK, ReturnTo
<1>3. at' \in Places
  BY DEF ReturnTo, Places
<1> QED
  BY <1>1, <1>2, <1>3, <1>4 DEF TypeOK

\* A program's instruction leaves everything but mem, pc, rf and since alone.
LEMMA RunToTypeOK ==
  ASSUME TypeOK, NEW p \in Addr, RunTo(p), mem' \in [Addr -> Word], rf' \in Regs
  PROVE  TypeOK'
<1>1. since' \in 0 .. 2
  BY DEF RunTo, Ran, TypeOK
<1> QED
  BY <1>1 DEF RunTo, stub, TypeOK

LEMMA EffectTypeOK ==
  ASSUME TypeOK, NEW w, Effect(w)
  PROVE  mem' \in [Addr -> Word] /\ rf' \in Regs
<1>1. CASE w = "op" /\ rf' \in Files /\ UNCHANGED mem
  BY <1>1, ConstantsOK DEF TypeOK
<1>2. CASE /\ w = "st" /\ rf.rn \notin Unmapped
           /\ \E v \in StoreWords : mem' = Store(mem, rf.rn, v)
           /\ UNCHANGED rf
  BY <1>2, StoreIsMemory, ConstantsOK DEF TypeOK
<1> QED
  BY <1>1, <1>2 DEF Effect

LEMMA ProgramTypeOK ==
  ASSUME TypeOK, Program \/ UserInterrupted
  PROVE  TypeOK'
<1> USE Literals
<1>0. pc \in Int /\ (pc \in Addr => pc \in Addr \cup {Mon, StubPc}) /\ rf.rn \in Addr
  BY DEF TypeOK, Regs
<1>1. CASE UserPlain
  <2>1. PICK w \in {"op", "st"} : Effect(w) /\ RunTo(Plus(pc, 1))
    BY <1>1 DEF UserPlain
  <2>2. Plus(pc, 1) \in Addr
    BY <1>0, PlusInAddr
  <2>3. mem' \in [Addr -> Word] /\ rf' \in Regs
    BY <2>1, EffectTypeOK
  <2> QED
    BY <2>1, <2>2, <2>3, RunToTypeOK
<1>2. CASE UserBranch
  <2>1. /\ RunTo(IF rf.t THEN Plus(pc, 2 + Disp) ELSE Plus(pc, 1))
        /\ mem' \in [Addr -> Word] /\ rf' \in Regs
    BY <1>2 DEF UserBranch, TypeOK
  <2>2. Plus(pc, 2 + Disp) \in Addr /\ Plus(pc, 1) \in Addr
    BY <1>0, PlusInAddr, ConstantsOK
  <2> QED
    BY <2>1, <2>2, RunToTypeOK
<1>3. CASE UserDelayed
  <2>1. PICK p \in Addr : Effect(mem[Plus(pc, 1)]) /\ RunTo(p)
    <3>1. Plus(pc, 2 + Disp) \in Addr /\ Plus(pc, 2) \in Addr
      BY <1>0, PlusInAddr, ConstantsOK
    <3> QED
      BY <1>0, <1>3, <3>1 DEF UserDelayed
  <2> QED
    BY <2>1, EffectTypeOK, RunToTypeOK
<1>4. CASE UserTrap
  <2>1. PICK t \in Traps :
          /\ EnterFromProgram("trap", Plus(pc, 1),
                              IF t \in {"bios", "self"} THEN t ELSE "other")
          /\ IF t = "bios" THEN Ran ELSE UNCHANGED since
    BY <1>4 DEF UserTrap
  <2>2. since' \in 0 .. 2
    BY <2>1 DEF TypeOK, Ran
  <2>3. (IF t \in {"bios", "self"} THEN t ELSE "other") \in TraValues
    BY DEF TraValues
  <2>4. Plus(pc, 1) \in Addr \cup {Mon, StubPc} /\ "trap" \in Vectors
    BY <1>0, PlusInAddr DEF Vectors
  <2> QED
    BY <2>1, <2>2, <2>3, <2>4, EnterFromProgramTypeOK
<1>5. CASE UserFault \/ UserInterrupted
  <2>1. PICK vec \in Vectors : EnterFromProgram(vec, pc, tra)
    BY <1>5, Zenon DEF UserFault, UserInterrupted, Vectors
  <2>2. since' \in 0 .. 2
    BY <1>5 DEF UserFault, UserInterrupted, TypeOK
  <2> QED
    BY <2>1, <2>2, EnterFromProgramTypeOK DEF TypeOK
<1> QED
  BY <1>1, <1>2, <1>3, <1>4, <1>5 DEF Program

\* doSStep looks for the program inside the address space.
LEMMA StepTargetInAddr ==
  ASSUME TypeOK, NEW p \in Addr, NEW w
  PROVE  StepTarget(w, p) \in Addr
<1>1. p \in Int /\ 2 + Disp \in Int
  BY Literals, ConstantsOK
<1>2. Plus(p, 1) \in Addr /\ Plus(p, 2) \in Addr /\ Plus(p, 2 + Disp) \in Addr
  BY <1>1, PlusInAddr
<1>3. rf.rn \in Addr /\ rf.sp \in Addr
  BY DEF TypeOK, Regs
<1> QED
  BY <1>2, <1>3 DEF StepTarget

LEMMA HostTypeOK ==
  ASSUME TypeOK, Host
  PROVE  TypeOK'
<1> USE Literals
<1>1. CASE CmdInfo
  <2>1. cmd' \in Cmd /\ (cmd').done <= (cmd').len /\ at' \in Places
    BY <1>1 DEF CmdInfo, Answer, TypeOK, Cmd, Places, Session
  <2> QED
    BY <1>1, <2>1 DEF CmdInfo, TypeOK, stub, history
<1>2. CASE CmdSetRegisters
  <2>1. cmd' \in Cmd /\ (cmd').done <= (cmd').len /\ at' \in Places
    BY <1>2 DEF CmdSetRegisters, Answer, TypeOK, Cmd, Places, Session
  <2>2. pc' \in Addr /\ rf' \in Regs
    BY <1>2, ConstantsOK DEF CmdSetRegisters
  <2> QED
    BY <1>2, <2>1, <2>2 DEF CmdSetRegisters, TypeOK, stub, history
<1>3. CASE CmdAccess
  <2>1. PICK op \in {"m", "M"}, x \in Accesses, w \in HostWords :
          cmd' = [op |-> op, addr |-> x.addr, len |-> Length(op, x.len), done |-> 0,
                  word |-> w, answer |-> "none"]
    BY <1>3 DEF CmdAccess
  <2>2. x.addr \in Addr /\ Length(op, x.len) \in Nat /\ w \in Word
    BY ConstantsOK DEF Length
  <2>3. cmd' \in Cmd /\ (cmd').done <= (cmd').len
    BY <2>1, <2>2 DEF Cmd
  <2>4. at' \in Places /\ dofault' = FALSE
    BY <1>3 DEF CmdAccess, Places, Session
  <2> QED
    BY <1>3, <2>3, <2>4 DEF CmdAccess, TypeOK, history
<1>4. CASE CmdContinue
  <2>1. PICK p \in Addr \cup {Mon, StubPc} : ReturnTo(p)
    BY <1>4, ConstantsOK DEF CmdContinue, TypeOK
  <2>2. since' \in 0 .. 2 /\ stepOp' \in Word \cup {"none"}
    BY <1>4 DEF CmdContinue
  <2> QED
    BY <1>4, <2>1, <2>2, ReturnToTypeOK DEF CmdContinue, TypeOK
<1>5. CASE CmdStep
  <2>1. PICK p \in Entries \cup {pc} :
          \/ p \in Unmapped /\ StubFaults(instrBuffer)
          \/ /\ p \notin Unmapped
             /\ at' = "plant" /\ pc' = p /\ stepped' = TRUE
             /\ target' = IF p \in Addr THEN StepTarget(mem[p], p) ELSE NoAddr
             /\ UNCHANGED <<mem, rf, tra, bl, in_nmi, dofault, instrBuffer, ingdbmode,
                            frame, cmd, history>>
    BY <1>5 DEF CmdStep
  <2>2. CASE StubFaults(instrBuffer)
    BY <2>2, StubFaultsTypeOK DEF TypeOK
  <2>3. CASE ~StubFaults(instrBuffer)
    <3>1. p \in Addr \cup {Mon, StubPc}
      BY ConstantsOK DEF TypeOK
    <3>2. target' \in Addr \cup {NoAddr}
      <4>1. p \in Addr => StepTarget(mem[p], p) \in Addr
        BY StepTargetInAddr
      <4> QED
        BY <4>1, <2>1, <2>3
    <3>3. at' \in Places
      BY <2>1, <2>3 DEF Places, Session
    <3> QED
      BY <2>1, <2>3, <3>1, <3>2, <3>3 DEF TypeOK, history
  <2> QED
    BY <2>2, <2>3
<1>6. CASE CmdDetach
  BY <1>6 DEF CmdDetach, TypeOK, history, Places, Session
<1> QED
  BY <1>1, <1>2, <1>3, <1>4, <1>5, <1>6, Zenon DEF Host

LEMMA StubTypeOK ==
  ASSUME TypeOK, Stub
  PROVE  TypeOK'
<1> USE Literals
<1>1. CASE ReportAcked
  <2>1. CASE StubFaults(instrBuffer)
    BY <2>1, StubFaultsTypeOK DEF TypeOK
  <2>2. CASE ~StubFaults(instrBuffer)
    <3>1. pc' \in Addr \cup {Mon, StubPc}
      BY <1>1, <2>2, PlusInAddr, ConstantsOK DEF ReportAcked, BackedUp, TypeOK
    <3>2. mem' \in [Addr -> Word]
      BY <1>1, <2>2, StoreIsMemory DEF ReportAcked, UndoSStep, TypeOK
    <3>3. at' \in Places /\ frame' \in Frame /\ stepped' = FALSE
      BY <1>1, <2>2 DEF ReportAcked, UndoSStep, Places, Session
    <3> QED
      BY <1>1, <2>2, <3>1, <3>2, <3>3 DEF ReportAcked, TypeOK, history
  <2> QED
    BY <2>1, <2>2
<1>2. CASE AccessWord
  <2> DEFINE a == Plus(cmd.addr, cmd.done)
  <2>1. CASE a \in Unmapped /\ bl /\ CpuReset
    BY <2>1, ResetTypeOK
  <2>2. CASE /\ a \in Unmapped /\ ~bl /\ BusError
             /\ UNCHANGED <<mem, pc, rf, tra, in_nmi, stepped, instrBuffer, ingdbmode,
                            frame, target, history>>
    <3>1. cmd' \in Cmd /\ (cmd').done <= (cmd').len
          /\ at' \in Places /\ bl' = TRUE /\ dofault' = TRUE
      BY <2>2 DEF BusError, Answer, TypeOK, Cmd, Places, Session
    <3> QED
      BY <2>2, <3>1 DEF TypeOK, history
  <2>3. CASE /\ a \notin Unmapped
             /\ mem' = IF cmd.op = "M" THEN Store(mem, a, cmd.word) ELSE mem
             /\ cmd' = [cmd EXCEPT !.done = @ + 1]
             /\ UNCHANGED <<pc, rf, tra, bl, stub, at, frame, target, history>>
    <3>1. mem' \in [Addr -> Word] /\ cmd' \in Cmd
      BY <2>3, StoreIsMemory DEF TypeOK, Cmd
    <3>2. (cmd').done <= (cmd').len
      BY <1>2, <2>3 DEF AccessWord, More, TypeOK, Cmd
    <3> QED
      BY <2>3, <3>1, <3>2 DEF TypeOK, stub, history
  <2> QED
    BY <1>2, <2>1, <2>2, <2>3, Zenon DEF AccessWord
<1>3. CASE AccessDone
  <2>1. /\ cmd' \in Cmd /\ (cmd').done <= (cmd').len
        /\ at' \in Places /\ dofault' = TRUE
    BY <1>3 DEF AccessDone, Answer, TypeOK, Cmd, Places, Session
  <2> QED
    BY <1>3, <2>1 DEF AccessDone, TypeOK, history
<1>4. CASE ReplyAcked
  BY <1>4 DEF ReplyAcked, NoCmd, TypeOK, stub, history, Places, Session
<1>5. CASE StepPlant
  <2> DEFINE word == IF target \in Addr THEN mem[target] ELSE "op"
             ib == [memAddr |-> target, oldInstr |-> word]
  <2>1. word \in Word /\ target \in Addr \cup {NoAddr}
    BY DEF TypeOK
  <2>2. CASE StubFaults([instrBuffer EXCEPT !.memAddr = target])
    <3>1. [instrBuffer EXCEPT !.memAddr = target]
            \in [memAddr : Addr \cup {NoAddr}, oldInstr : Word]
      BY <2>1 DEF TypeOK
    <3> QED
      BY <2>2, <3>1, StubFaultsTypeOK
  <2>3. CASE /\ target \notin Unmapped
             /\ instrBuffer' = ib
             /\ mem' = Store(mem, target, "sstep")
             /\ since' = 0
             /\ stepOp' = IF pc \in Addr THEN mem[pc] ELSE "none"
             /\ ReturnTo(pc)
             /\ UNCHANGED <<dofault, stepped, ingdbmode>>
    <3>1. instrBuffer' \in [memAddr : Addr \cup {NoAddr}, oldInstr : Word]
      BY <2>1, <2>3
    <3>2. mem' \in [Addr -> Word] /\ since' \in 0 .. 2 /\ stepOp' \in Word \cup {"none"}
      BY <2>3, StoreIsMemory DEF TypeOK
    <3> QED
      BY <2>3, <3>1, <3>2, ReturnToTypeOK DEF TypeOK
  <2> QED
    BY <1>5, <2>2, <2>3, Zenon DEF StepPlant
<1>6. CASE DetachDone
  <2>1. since' \in 0 .. 2 /\ stepOp' \in Word \cup {"none"} /\ ReturnTo(pc)
    BY <1>6 DEF DetachDone
  <2> QED
    BY <1>6, <2>1, ReturnToTypeOK DEF DetachDone, TypeOK
<1> QED
  BY <1>1, <1>2, <1>3, <1>4, <1>5, <1>6 DEF Stub

LEMMA OutsideTypeOK ==
  ASSUME TypeOK, Bios \/ MonitorGdb \/ StubInterrupted \/ ResetButton
  PROVE  TypeOK'
<1> USE Literals
<1>1. CASE BiosReturn
  <2>1. ReturnTo(pc)
    BY <1>1 DEF BiosReturn
  <2> QED
    BY <1>1, <2>1, ReturnToTypeOK DEF BiosReturn, TypeOK
<1>2. CASE BiosDetach
  BY <1>2 DEF BiosDetach, TypeOK, history
<1>3. CASE BiosShutdown
  <2>1. CASE CpuReset
    BY <2>1, ResetTypeOK
  <2>2. CASE ~CpuReset
    <3>1. at' \in Places /\ bl' = TRUE
      BY <1>3, <2>2 DEF BiosShutdown, Places
    <3> QED
      BY <1>3, <2>2, <3>1 DEF BiosShutdown, TypeOK, stub, history
  <2> QED
    BY <2>1, <2>2
<1>4. CASE MonitorGdb
  <2>1. frame' \in Frame /\ at' \in Places /\ tra' \in TraValues
        /\ bl' = FALSE /\ ingdbmode' = TRUE
    BY <1>4 DEF MonitorGdb, Frame, Vectors, TraValues, Places, Session
  <2> QED
    BY <1>4, <2>1 DEF MonitorGdb, TypeOK, history
<1>5. CASE StubInterrupted
  <2>1. PICK vec \in Vectors : EnterFromStub(vec)
    BY <1>5 DEF StubInterrupted, Vectors
  <2>2. instrBuffer' \in [memAddr : Addr \cup {NoAddr}, oldInstr : Word]
    BY <1>5 DEF StubInterrupted, TypeOK
  <2> QED
    BY <2>1, <2>2, EnterFromStubTypeOK
<1>6. CASE ResetButton
  BY <1>6, ResetTypeOK DEF ResetButton
<1>7. CASE BiosBuffer
  <2>1. CASE StubFaults(instrBuffer)
    BY <2>1, StubFaultsTypeOK DEF TypeOK
  <2>2. CASE ~StubFaults(instrBuffer)
    <3>1. mem' \in [Addr -> Word]
      BY <1>7, <2>2, StoreIsMemory, ConstantsOK DEF BiosBuffer, TypeOK
    <3> QED
      BY <1>7, <2>2, <3>1 DEF BiosBuffer, TypeOK, stub, history
  <2> QED
    BY <2>1, <2>2
<1> QED
  BY <1>1, <1>2, <1>3, <1>4, <1>5, <1>6, <1>7 DEF Bios

LEMMA InitTypeOK == Init => TypeOK
<1> SUFFICES ASSUME Init PROVE TypeOK
  OBVIOUS
<1>1. mem \in [Addr -> Word] /\ rf \in Regs
  BY ConstantsOK DEF Init
<1>2. /\ pc \in Addr \cup {Mon, StubPc} /\ target \in Addr \cup {NoAddr}
      /\ stepOp \in Word \cup {"none"} /\ tra \in TraValues /\ at \in Places
      /\ frame \in Frame /\ cmd \in Cmd
  BY Literals DEF Init, TraValues, Places
<1>3. /\ instrBuffer \in [memAddr : Addr \cup {NoAddr}, oldInstr : Word]
      /\ since \in 0 .. 2
  BY Literals DEF Init
<1>4. /\ bl \in BOOLEAN /\ in_nmi \in BOOLEAN /\ dofault \in BOOLEAN
      /\ stepped \in BOOLEAN /\ ingdbmode \in BOOLEAN /\ nested \in BOOLEAN
  BY Zenon DEF Init
<1>5. cmd.done <= cmd.len /\ left \subseteq Addr
  BY DEF Init, NoCmd, Trapped
<1> QED
  BY <1>1, <1>2, <1>3, <1>4, <1>5 DEF TypeOK

LEMMA NextTypeOK == TypeOK /\ [Next]_vars => TypeOK'
<1> SUFFICES ASSUME TypeOK, [Next]_vars PROVE TypeOK'
  OBVIOUS
<1>1. CASE UNCHANGED vars
  BY <1>1 DEF vars, stub, history, TypeOK
<1> QED
  BY <1>1, ProgramTypeOK, HostTypeOK, StubTypeOK, OutsideTypeOK DEF Next

\* Every variable of the stub keeps to the values its C object can hold,
\* whatever the program, the host and the interrupts do.
THEOREM TypeCorrect == Spec => []TypeOK
<1>1. Init => TypeOK
  BY InitTypeOK
<1>2. TypeOK /\ [Next]_vars => TypeOK'
  BY NextTypeOK
<1> QED
  BY <1>1, <1>2, PTL DEF Spec

----------------------------------------------------------------------------
(* The control flow of a session *)

\* The program runs at an address, the monitor outside of them.
UserPc == (at = "user" => pc \in Addr) /\ (at = "monitor" => pc = Mon)

\* While the host is being told of a stop, registers[PC] and the frame agree on
\* where it was.
Reported ==
  ~nested /\ at = "report" =>
    /\ frame.stop \in Addr \cup {Mon}
    /\ frame.vec = "trap" /\ frame.stop = Mon => frame.trap = "self"
    /\ pc = IF frame.vec = "trap" /\ frame.stop # Mon THEN Plus(frame.stop, 1)
              ELSE frame.stop

\* While commands are served no step is pending.
FlagDown == ~nested /\ at \in {"wait", "access", "reply", "detach"} => ~stepped

Control == UserPc /\ Reported /\ FlagDown /\ FaultsArmed

\* Backing over a trap undoes the step past it.
LEMMA BackOverTrap ==
  ASSUME NEW a \in Addr
  PROVE  Plus(Plus(a, 1), N - 1) = a
<1>1. N \in Nat \ {0} /\ a \in 0 .. N - 1
  BY ConstantsOK DEF Addr
<1>2. CASE a = N - 1
  <2>1. (a + 1) % N = 0
    BY <1>1, <1>2
  <2>2. (0 + (N - 1)) % N = N - 1
    BY <1>1
  <2> QED
    BY <1>2, <2>1, <2>2 DEF Plus
<1>3. CASE a # N - 1
  <2>1. (a + 1) % N = a + 1
    BY <1>1, <1>3
  <2>2. (a + 1 + (N - 1)) % N = a
    <3>1. a + 1 + (N - 1) = a + N
      BY <1>1
    <3>2. (a + N) % N = a
      BY <1>1
    <3> QED
      BY <3>1, <3>2
  <2> QED
    BY <2>1, <2>2 DEF Plus
<1> QED
  BY <1>2, <1>3

LEMMA ResetControl ==
  ASSUME CpuReset
  PROVE  Control'
BY DEF CpuReset, Control, UserPc, Reported, FlagDown, FaultsArmed

LEMMA EnterFromStubControl ==
  ASSUME NEW vec, EnterFromStub(vec)
  PROVE  Control'
BY DEF EnterFromStub, Dispatch, Control, UserPc, Reported, FlagDown, FaultsArmed

LEMMA StubFaultsControl ==
  ASSUME NEW ib, StubFaults(ib), FaultsArmed, at # "access"
  PROVE  Control'
<1>1. CASE CpuReset
  BY <1>1, ResetControl
<1>2. CASE EnterFromStub("addr")
  BY <1>2, EnterFromStubControl
<1>3. CASE at' = "wild" /\ UNCHANGED <<dofault, history>>
  BY <1>3 DEF history, Control, UserPc, Reported, FlagDown, FaultsArmed
<1> QED
  BY <1>1, <1>2, <1>3 DEF StubFaults

\* An exception of the program reaches the host with the PC the entry code saved.
LEMMA EnterFromProgramControl ==
  ASSUME TypeOK, Control, NEW vec \in Vectors, NEW p, NEW t \in TraValues,
         EnterFromProgram(vec, p, t),
         at \in {"user", "monitor"}, at = "monitor" => vec = "nmi",
         p = IF vec = "trap" THEN Plus(pc, 1) ELSE pc
  PROVE  Control'
<1>1. pc \in Addr \cup {Mon}
  BY DEF Control, UserPc
<1>2. CASE vec = "addr" /\ ~dofault
  BY <1>2 DEF EnterFromProgram, history, Control, UserPc, Reported, FlagDown,
              FaultsArmed
<1>3. CASE ~(vec = "addr" /\ ~dofault)
  <2>1. Dispatch(vec, t, pc) /\ pc' = p /\ UNCHANGED <<dofault, stepped, nested>>
    BY <1>3, Zenon DEF EnterFromProgram
  <2>2. CASE at' = "bios"
    BY <2>1, <2>2 DEF Control, UserPc, Reported, FlagDown, FaultsArmed
  <2>3. CASE at' = "report" /\ frame' = [vec |-> vec, trap |-> t, stop |-> pc]
    <3>1. Reported'
      BY <1>1, <2>1, <2>3, Literals DEF Reported, Control, UserPc
    <3> QED
      BY <2>1, <2>3, <3>1 DEF Control, UserPc, FlagDown, FaultsArmed
  <2> QED
    BY <2>1, <2>2, <2>3 DEF Dispatch
<1> QED
  BY <1>2, <1>3, Zenon

LEMMA ReturnToControl ==
  ASSUME NEW p, ReturnTo(p), UNCHANGED dofault, FaultsArmed, at # "access"
  PROVE  Control'
BY DEF ReturnTo, Control, UserPc, Reported, FlagDown, FaultsArmed

LEMMA ProgramControl ==
  ASSUME TypeOK, Control, Program \/ UserInterrupted
  PROVE  Control'
<1>0. pc \in Int /\ rf.rn \in Addr
  BY Literals DEF TypeOK, Regs
<1>1. ASSUME NEW p \in Addr, RunTo(p), at = "user" PROVE Control'
  BY <1>1 DEF RunTo, stub, Control, UserPc, Reported, FlagDown, FaultsArmed
<1>2. CASE UserPlain
  BY <1>0, <1>1, <1>2, PlusInAddr DEF UserPlain, Fetched
<1>3. CASE UserBranch
  <2>1. Plus(pc, 2 + Disp) \in Addr /\ Plus(pc, 1) \in Addr
    BY <1>0, PlusInAddr, ConstantsOK
  <2> QED
    BY <1>1, <1>3, <2>1 DEF UserBranch, Fetched
<1>4. CASE UserDelayed
  <2>1. Plus(pc, 2 + Disp) \in Addr /\ Plus(pc, 2) \in Addr
    BY <1>0, PlusInAddr, ConstantsOK
  <2> QED
    BY <1>0, <1>1, <1>4, <2>1 DEF UserDelayed, Fetched
<1>5. CASE UserTrap
  <2>1. PICK t \in Traps :
          /\ at = "user"
          /\ EnterFromProgram("trap", Plus(pc, 1),
                              IF t \in {"bios", "self"} THEN t ELSE "other")
    BY <1>5 DEF UserTrap, Fetched
  <2>2. (IF t \in {"bios", "self"} THEN t ELSE "other") \in TraValues /\ "trap" \in Vectors
    BY DEF TraValues, Vectors
  <2> QED
    BY <2>1, <2>2, EnterFromProgramControl
<1>6. CASE UserFault \/ UserInterrupted
  <2>1. PICK vec \in Vectors \ {"trap"} :
          /\ EnterFromProgram(vec, pc, tra)
          /\ at \in {"user", "monitor"} /\ (at = "monitor" => vec = "nmi")
    BY <1>6, Zenon DEF UserFault, UserInterrupted, Vectors
  <2> QED
    BY <2>1, EnterFromProgramControl DEF TypeOK
<1> QED
  BY <1>2, <1>3, <1>4, <1>5, <1>6 DEF Program

LEMMA HostControl ==
  ASSUME TypeOK, Control, Host
  PROVE  Control'
<1> USE DEF Control, UserPc, Reported, FlagDown, FaultsArmed
<1>1. CASE CmdInfo
  BY <1>1 DEF CmdInfo, Answer, stub, history
<1>2. CASE CmdSetRegisters
  BY <1>2 DEF CmdSetRegisters, Answer, stub, history
<1>3. CASE CmdAccess
  BY <1>3 DEF CmdAccess, history
<1>4. CASE CmdContinue
  BY <1>4, ReturnToControl DEF CmdContinue
<1>5. CASE CmdStep
  <2>1. CASE StubFaults(instrBuffer)
    BY <1>5, <2>1, StubFaultsControl DEF CmdStep
  <2>2. CASE ~StubFaults(instrBuffer)
    BY <1>5, <2>2 DEF CmdStep, history
  <2> QED
    BY <2>1, <2>2
<1>6. CASE CmdDetach
  BY <1>6 DEF CmdDetach, history
<1> QED
  BY <1>1, <1>2, <1>3, <1>4, <1>5, <1>6, Zenon DEF Host

LEMMA StubControl ==
  ASSUME TypeOK, Control, Stub
  PROVE  Control'
<1> USE DEF Control, UserPc, Reported, FlagDown, FaultsArmed
<1>1. CASE ReportAcked
  <2>1. CASE StubFaults(instrBuffer)
    BY <1>1, <2>1, StubFaultsControl DEF ReportAcked
  <2>2. CASE ~StubFaults(instrBuffer)
    BY <1>1, <2>2 DEF ReportAcked, UndoSStep, history
  <2> QED
    BY <2>1, <2>2
<1>2. CASE AccessWord
  <2>1. CASE CpuReset
    BY <2>1, ResetControl
  <2>2. CASE BusError /\ UNCHANGED <<stepped, history>>
    BY <1>2, <2>2 DEF AccessWord, BusError, Answer, history
  <2>3. CASE UNCHANGED <<stub, at, history>>
    BY <1>2, <2>3 DEF AccessWord, stub, history
  <2> QED
    BY <1>2, <2>1, <2>2, <2>3 DEF AccessWord, stub, history
<1>3. CASE AccessDone
  BY <1>3 DEF AccessDone, Answer, history
<1>4. CASE ReplyAcked
  BY <1>4 DEF ReplyAcked, stub, history
<1>5. CASE StepPlant
  <2>1. CASE StubFaults([instrBuffer EXCEPT !.memAddr = target])
    BY <1>5, <2>1, StubFaultsControl DEF StepPlant
  <2>2. CASE ReturnTo(pc) /\ UNCHANGED dofault
    BY <1>5, <2>2, ReturnToControl DEF StepPlant
  <2> QED
    BY <1>5, <2>1, <2>2 DEF StepPlant
<1>6. CASE DetachDone
  BY <1>6, ReturnToControl DEF DetachDone
<1> QED
  BY <1>1, <1>2, <1>3, <1>4, <1>5, <1>6 DEF Stub

LEMMA OutsideControl ==
  ASSUME TypeOK, Control, Bios \/ MonitorGdb \/ StubInterrupted \/ ResetButton
  PROVE  Control'
<1> USE DEF Control, UserPc, Reported, FlagDown, FaultsArmed
<1>1. CASE BiosReturn
  BY <1>1, ReturnToControl DEF BiosReturn
<1>2. CASE BiosDetach
  BY <1>2 DEF BiosDetach, history
<1>3. CASE BiosShutdown
  BY <1>3, ResetControl DEF BiosShutdown, stub, history
<1>4. CASE MonitorGdb
  BY <1>4 DEF MonitorGdb, history
<1>5. CASE StubInterrupted
  BY <1>5, EnterFromStubControl DEF StubInterrupted
<1>6. CASE ResetButton
  BY <1>6, ResetControl DEF ResetButton
<1>7. CASE BiosBuffer
  <2>1. CASE StubFaults(instrBuffer)
    BY <1>7, <2>1, StubFaultsControl DEF BiosBuffer
  <2>2. CASE ~StubFaults(instrBuffer)
    BY <1>7, <2>2 DEF BiosBuffer, stub, history
  <2> QED
    BY <2>1, <2>2
<1> QED
  BY <1>1, <1>2, <1>3, <1>4, <1>5, <1>6, <1>7 DEF Bios

LEMMA InvControl == Spec => [](TypeOK /\ Control)
<1>1. Init => TypeOK /\ Control
  <2>1. Init => Control
    BY DEF Init, Control, UserPc, Reported, FlagDown, FaultsArmed
  <2> QED
    BY <2>1, InitTypeOK
<1>2. TypeOK /\ Control /\ [Next]_vars => (TypeOK /\ Control)'
  <2> SUFFICES ASSUME TypeOK, Control, [Next]_vars PROVE Control'
    BY NextTypeOK
  <2>1. CASE UNCHANGED vars
    BY <2>1 DEF vars, stub, history, Control, UserPc, Reported, FlagDown,
                FaultsArmed
  <2> QED
    BY <2>1, ProgramControl, HostControl, StubControl, OutsideControl DEF Next
<1> QED
  BY <1>1, <1>2, PTL DEF Spec

\* The program never runs, and no command starts, with address errors diverted
\* to a command that is over.
THEOREM AddressErrorsArmed == Spec => []FaultsArmed
<1>1. Control => FaultsArmed
  BY DEF Control
<1> QED
  BY <1>1, InvControl, PTL

\* The only step from a report to waiting for commands is its acknowledgement.
LEMMA OnlyReportAcked ==
  ASSUME Next, at = "report", at' = "wait"
  PROVE  ReportAcked
<1>1. ~CpuReset /\ \A vec : ~EnterFromStub(vec)
  BY DEF CpuReset, EnterFromStub, Dispatch
<1>2. ~(Program \/ UserInterrupted)
  BY DEF Program, UserPlain, UserBranch, UserDelayed, UserTrap, UserFault, UserInterrupted,
         Fetched
<1>3. ~Host
  BY DEF Host, CmdInfo, CmdSetRegisters, CmdAccess, CmdContinue, CmdStep, CmdDetach
<1>4. Stub => ReportAcked
  BY DEF Stub, AccessWord, AccessDone, ReplyAcked, StepPlant, DetachDone
<1>5. ~(Bios \/ MonitorGdb \/ StubInterrupted \/ ResetButton)
  BY <1>1 DEF Bios, BiosReturn, BiosBuffer, StubFaults, BiosDetach, BiosShutdown, MonitorGdb, StubInterrupted,
              ResetButton
<1> QED
  BY <1>2, <1>3, <1>4, <1>5 DEF Next

\* The host is shown the PC of the instruction that stopped the program; only a
\* compiled-in trapa #ff counts as executed.
THEOREM StopPcShown == Spec => StopPcExact
<1> DEFINE Shows == pc' = IF frame.vec = "trap" /\ frame.trap = "self" /\ frame.stop # Mon
                            THEN Plus(frame.stop, 1) ELSE frame.stop
<1>1. ASSUME TypeOK, Control, Next, at = "report", at' = "wait", ~nested
      PROVE  Shows
  <2>1. pc' = BackedUp
    <3>1. ReportAcked
      BY <1>1, OnlyReportAcked
    <3>2. ~StubFaults(instrBuffer)
      BY <1>1 DEF StubFaults, CpuReset, EnterFromStub, Dispatch
    <3> QED
      BY <3>1, <3>2 DEF ReportAcked
  <2>2. Reported
    BY <1>1 DEF Control
  <2>3. CASE frame.vec = "trap" /\ frame.trap # "self"
    <3>1. frame.stop \in Addr /\ pc = Plus(frame.stop, 1)
      BY <1>1, <2>2, <2>3, Literals DEF Reported
    <3> QED
      BY <2>1, <2>3, <3>1, BackOverTrap DEF BackedUp
  <2>4. CASE ~(frame.vec = "trap" /\ frame.trap # "self")
    BY <1>1, <2>1, <2>2, <2>4 DEF BackedUp, Reported
  <2> QED
    BY <2>3, <2>4
<1>2. TypeOK /\ Control /\ [Next]_vars => [at = "report" /\ at' = "wait" /\ ~nested => Shows]_vars
  BY <1>1
<1> QED
  BY <1>2, InvControl, PTL DEF Spec, StopPcExact

----------------------------------------------------------------------------
(* The trap of a step in memory *)

\* Nobody but the stub writes trapa #20.
Clean == "sstep" \notin StoreWords \cup HostWords

\* The places where no trap of the stub is in memory: undoSStep ran, doSStep has
\* not planted yet.
Quiet == {"wait", "access", "reply", "detach", "plant"}

\* A trap that no reset left is the one instrBuffer knows, and its step is on.
Known ==
  \A a \in Trapped(mem) \ left :
    a \notin Rom /\ stepped /\ instrBuffer.memAddr = a /\ at \notin Quiet

\* What undoSStep would write back is a trap only where a reset left one.
Undone == instrBuffer.oldInstr = "sstep" => instrBuffer.memAddr \in left \cup Unmapped

TrapInv ==
  /\ cmd.op = "M" => cmd.word \in HostWords
  /\ at = "plant" => stepped
  /\ Clean => Known /\ Undone

\* A write of another instruction plants no trap.
LEMMA StoreTraps ==
  ASSUME NEW m \in [Addr -> Word], NEW a, NEW w, w # "sstep"
  PROVE  Trapped(Store(m, a, w)) \subseteq Trapped(m)
BY DEF Trapped, Store

\* A step that plants no trap, leaves instrBuffer and either stays away from the
\* quiet places or comes from one.
LEMMA KnownKept ==
  ASSUME TrapInv, UNCHANGED <<instrBuffer, left>>,
         Clean => Trapped(mem') \subseteq Trapped(mem),
         at \in Quiet \/ (at' \notin Quiet /\ UNCHANGED stepped)
  PROVE  Clean => Known' /\ Undone'
BY DEF TrapInv, Known, Undone

LEMMA ResetTraps ==
  ASSUME CpuReset
  PROVE  TrapInv'
<1>1. mem' = mem /\ left' = Trapped(mem) /\ at' = "monitor"
  BY DEF CpuReset
<1>2. (cmd').op = "none" /\ (instrBuffer').oldInstr = "op"
  BY DEF CpuReset, NoCmd
<1> QED
  BY <1>1, <1>2 DEF TrapInv, Known, Undone

LEMMA EnterFromStubTraps ==
  ASSUME TrapInv, NEW vec, EnterFromStub(vec),
         instrBuffer' = instrBuffer \/ (at \in Quiet /\ Undone')
  PROVE  TrapInv'
<1>1. UNCHANGED <<mem, stepped, cmd, left>> /\ at' \in {"bios", "report"}
  BY DEF EnterFromStub, Dispatch
<1>2. CASE instrBuffer' = instrBuffer
  BY <1>1, <1>2, KnownKept DEF TrapInv, Quiet
<1>3. CASE at \in Quiet /\ Undone'
  <2>1. Clean => Known'
    BY <1>1, <1>3 DEF TrapInv, Known
  <2> QED
    BY <1>1, <1>3, <2>1 DEF TrapInv
<1> QED
  BY <1>2, <1>3

LEMMA StubFaultsTraps ==
  ASSUME TrapInv, NEW ib, StubFaults(ib),
         ib = instrBuffer \/ (at \in Quiet /\ (instrBuffer' = ib => Undone'))
  PROVE  TrapInv'
<1>1. CASE CpuReset
  BY <1>1, ResetTraps
<1>2. CASE EnterFromStub("addr") /\ instrBuffer' = ib
  BY <1>2, EnterFromStubTraps
<1>3. CASE /\ at' = "wild" /\ instrBuffer' = ib
           /\ UNCHANGED <<mem, stepped, cmd, history>>
  <2>1. UNCHANGED <<mem, stepped, cmd, left>> /\ at' \notin Quiet /\ at' # "plant"
    BY <1>3 DEF history, Quiet
  <2>2. CASE ib = instrBuffer
    BY <1>3, <2>1, <2>2, KnownKept DEF TrapInv
  <2>3. CASE at \in Quiet /\ Undone'
    <3>1. Clean => Known'
      BY <2>1, <2>3 DEF TrapInv, Known
    <3> QED
      BY <2>1, <2>3, <3>1 DEF TrapInv
  <2> QED
    BY <1>3, <2>2, <2>3
<1> QED
  BY <1>1, <1>2, <1>3 DEF StubFaults

LEMMA ReturnToTraps ==
  ASSUME TrapInv, NEW p, ReturnTo(p), UNCHANGED <<mem, stepped, instrBuffer>>
  PROVE  TrapInv'
<1>1. at' \notin Quiet /\ (cmd').op = "none" /\ UNCHANGED left
  BY DEF ReturnTo, NoCmd, Quiet
<1>2. Clean => Known' /\ Undone'
  BY <1>1, KnownKept
<1> QED
  BY <1>1, <1>2 DEF TrapInv, Quiet

LEMMA ProgramTraps ==
  ASSUME TypeOK, TrapInv, Program \/ UserInterrupted
  PROVE  TrapInv'
<1>1. ASSUME NEW p, RunTo(p), at = "user",
             mem' = mem \/ \E a : \E w \in StoreWords : mem' = Store(mem, a, w)
      PROVE  TrapInv'
  <2>1. UNCHANGED <<stepped, instrBuffer, left, cmd>> /\ at' = "user" /\ at' \notin Quiet
    BY <1>1 DEF RunTo, stub, Quiet
  <2>2. Clean => Trapped(mem') \subseteq Trapped(mem)
    BY <1>1, StoreTraps DEF Clean, TypeOK
  <2>3. Clean => Known' /\ Undone'
    BY <2>1, <2>2, KnownKept
  <2> QED
    BY <2>1, <2>3 DEF TrapInv
<1>2. \A w : Effect(w) => mem' = mem \/ \E a : \E v \in StoreWords : mem' = Store(mem, a, v)
  BY DEF Effect
<1>3. ASSUME NEW vec, NEW p, NEW t, EnterFromProgram(vec, p, t)
      PROVE  TrapInv'
  <2>1. UNCHANGED <<mem, stepped, instrBuffer, cmd, left>>
    BY <1>3 DEF EnterFromProgram
  <2>2. at' \in {"bios", "report", "wild"}
    BY <1>3, Zenon DEF EnterFromProgram, Dispatch
  <2>3. Clean => Known' /\ Undone'
    BY <2>1, <2>2, KnownKept DEF Quiet
  <2> QED
    BY <2>1, <2>2, <2>3 DEF TrapInv
<1>4. CASE UserPlain
  BY <1>1, <1>2, <1>4 DEF UserPlain, Fetched
<1>5. CASE UserBranch
  BY <1>1, <1>5 DEF UserBranch, Fetched
<1>6. CASE UserDelayed
  BY <1>1, <1>2, <1>6 DEF UserDelayed, Fetched
<1>7. CASE UserTrap
  BY <1>3, <1>7 DEF UserTrap
<1>8. CASE UserFault \/ UserInterrupted
  BY <1>3, <1>8, Zenon DEF UserFault, UserInterrupted
<1> QED
  BY <1>4, <1>5, <1>6, <1>7, <1>8 DEF Program

LEMMA HostTraps ==
  ASSUME TypeOK, TrapInv, Host
  PROVE  TrapInv'
<1>0. at = "wait" /\ at \in Quiet
  BY DEF Host, CmdInfo, CmdSetRegisters, CmdAccess, CmdContinue, CmdStep, CmdDetach, Quiet
<1>1. CASE CmdInfo \/ CmdSetRegisters \/ CmdDetach
  <2>1. UNCHANGED <<mem, instrBuffer, left>> /\ at' # "plant"
    BY <1>1 DEF CmdInfo, CmdSetRegisters, CmdDetach, Answer, stub, history
  <2>2. (cmd').op = cmd.op /\ (cmd').word = cmd.word
    BY <1>1 DEF CmdInfo, CmdSetRegisters, CmdDetach, Answer, TypeOK, Cmd
  <2>3. Clean => Known' /\ Undone'
    BY <1>0, <2>1, KnownKept
  <2> QED
    BY <2>1, <2>2, <2>3 DEF TrapInv
<1>2. CASE CmdAccess
  <2>1. UNCHANGED <<mem, instrBuffer, left>> /\ at' # "plant" /\ (cmd').word \in HostWords
    BY <1>2 DEF CmdAccess, history
  <2>2. Clean => Known' /\ Undone'
    BY <1>0, <2>1, KnownKept
  <2> QED
    BY <2>1, <2>2 DEF TrapInv
<1>3. CASE CmdContinue
  BY <1>3, ReturnToTraps DEF CmdContinue
<1>4. CASE CmdStep
  <2>1. CASE StubFaults(instrBuffer)
    BY <2>1, StubFaultsTraps
  <2>2. CASE ~StubFaults(instrBuffer)
    <3>1. UNCHANGED <<mem, instrBuffer, left, cmd>> /\ stepped' = TRUE
      BY <1>4, <2>2 DEF CmdStep, history
    <3>2. Clean => Known' /\ Undone'
      BY <1>0, <3>1, KnownKept
    <3> QED
      BY <3>1, <3>2 DEF TrapInv
  <2> QED
    BY <2>1, <2>2
<1> QED
  BY <1>1, <1>2, <1>3, <1>4 DEF Host

\* undoSStep takes out the trap it knows.
LEMMA UndoTraps ==
  ASSUME TypeOK, TrapInv, Clean, UndoSStep, UNCHANGED left,
         ~(stepped /\ instrBuffer.memAddr \in Unmapped)
  PROVE  Trapped(mem') \subseteq left'
<1> SUFFICES ASSUME NEW a \in Trapped(mem'), a \notin left
             PROVE  FALSE
  OBVIOUS
<1>1. a \in Addr /\ mem \in [Addr -> Word] /\ mem'[a] = "sstep"
  BY DEF Trapped, TypeOK
<1>2. a \notin Trapped(mem) \/ (a \notin Rom /\ stepped /\ instrBuffer.memAddr = a)
  BY DEF TrapInv, Known
<1>3. stepped /\ instrBuffer.memAddr = a /\ a \notin Rom
  BY <1>1, <1>2 DEF UndoSStep, Store, Trapped, TrapInv, Undone
<1>4. mem'[a] = instrBuffer.oldInstr
  BY <1>1, <1>3 DEF UndoSStep, Store
<1> QED
  BY <1>1, <1>3, <1>4 DEF TrapInv, Undone

LEMMA StubTraps ==
  ASSUME TypeOK, TrapInv, Stub
  PROVE  TrapInv'
<1>1. CASE ReportAcked
  <2>1. CASE StubFaults(instrBuffer)
    BY <2>1, StubFaultsTraps
  <2>2. CASE ~StubFaults(instrBuffer)
    <3>1. /\ UndoSStep /\ UNCHANGED <<instrBuffer, cmd, left>> /\ at' = "wait"
          /\ ~(stepped /\ instrBuffer.memAddr \in Unmapped)
      BY <1>1, <2>2 DEF ReportAcked, history
    <3>2. Clean => Trapped(mem') \subseteq left'
      BY <3>1, UndoTraps
    <3>3. Clean => Known' /\ Undone'
      BY <3>1, <3>2 DEF Known, Undone, TrapInv
    <3> QED
      BY <3>1, <3>3 DEF TrapInv
  <2> QED
    BY <2>1, <2>2
<1>2. CASE AccessWord
  <2> DEFINE a == Plus(cmd.addr, cmd.done)
  <2>0. at = "access" /\ at \in Quiet
    BY <1>2 DEF AccessWord, Quiet
  <2>1. CASE CpuReset
    BY <2>1, ResetTraps
  <2>2. CASE /\ BusError /\ UNCHANGED <<mem, stepped, instrBuffer, history>>
    <3>1. UNCHANGED <<mem, instrBuffer, left>> /\ at' = "reply"
      BY <2>2 DEF BusError, Answer, history
    <3>2. (cmd').op = cmd.op /\ (cmd').word = cmd.word
      BY <2>2 DEF BusError, Answer, TypeOK, Cmd
    <3>3. Clean => Known' /\ Undone'
      BY <2>0, <3>1, KnownKept
    <3> QED
      BY <3>1, <3>2, <3>3 DEF TrapInv
  <2>3. CASE /\ mem' = IF cmd.op = "M" THEN Store(mem, a, cmd.word) ELSE mem
             /\ cmd' = [cmd EXCEPT !.done = @ + 1]
             /\ UNCHANGED <<stub, at, history>>
    <3>1. UNCHANGED <<instrBuffer, left>> /\ at' = "access"
      BY <2>0, <2>3 DEF stub, history
    <3>2. (cmd').op = cmd.op /\ (cmd').word = cmd.word
      BY <2>3 DEF TypeOK, Cmd
    <3>3. Clean => Trapped(mem') \subseteq Trapped(mem)
      <4>1. CASE cmd.op = "M"
        BY <2>3, <4>1, StoreTraps DEF Clean, TypeOK, TrapInv
      <4>2. CASE cmd.op # "M"
        BY <2>3, <4>2
      <4> QED
        BY <4>1, <4>2
    <3>4. Clean => Known' /\ Undone'
      BY <2>0, <3>1, <3>3, KnownKept
    <3> QED
      BY <3>1, <3>2, <3>4 DEF TrapInv
  <2> QED
    BY <1>2, <2>1, <2>2, <2>3 DEF AccessWord
<1>3. CASE AccessDone \/ ReplyAcked
  <2>1. /\ UNCHANGED <<mem, instrBuffer, left>>
        /\ at \in {"access", "reply"} /\ at' \in {"reply", "wait"}
    BY <1>3 DEF AccessDone, ReplyAcked, Answer, stub, history
  <2>2. (cmd').op = "M" => (cmd').word \in HostWords
    BY <1>3 DEF AccessDone, ReplyAcked, Answer, NoCmd, TypeOK, Cmd, TrapInv
  <2>3. Clean => Known' /\ Undone'
    BY <2>1, KnownKept DEF Quiet
  <2> QED
    BY <2>1, <2>2, <2>3 DEF TrapInv
<1>4. CASE StepPlant
  <2>0. at = "plant" /\ at \in Quiet /\ stepped
    BY <1>4 DEF StepPlant, Quiet, TrapInv
  <2>1. CASE StubFaults([instrBuffer EXCEPT !.memAddr = target]) /\ target \in Unmapped
    <3> DEFINE ib == [instrBuffer EXCEPT !.memAddr = target]
    <3>1. ib.memAddr = target
      BY DEF TypeOK
    <3>2. instrBuffer' = ib => Undone'
      BY <2>1, <3>1 DEF Undone
    <3> HIDE DEF ib
    <3>3. StubFaults(ib)
      BY <2>1 DEF ib
    <3> QED
      BY <2>0, <3>2, <3>3, StubFaultsTraps
  <2>2. CASE /\ instrBuffer' = [memAddr |-> target,
                                oldInstr |-> IF target \in Addr THEN mem[target] ELSE "op"]
             /\ mem' = Store(mem, target, "sstep")
             /\ ReturnTo(pc) /\ UNCHANGED stepped
    <3>1. at' \notin Quiet /\ (cmd').op = "none" /\ UNCHANGED left
      BY <2>2 DEF ReturnTo, NoCmd, Quiet
    <3>2. mem \in [Addr -> Word]
      BY DEF TypeOK
    <3>3. Clean => Trapped(mem) \subseteq left
      BY <2>0 DEF TrapInv, Known
    <3>4. Clean => Known'
      BY <2>0, <2>2, <3>1, <3>2, <3>3 DEF Known, Store, Trapped
    <3>5. Clean => Undone'
      BY <2>2, <3>1, <3>3 DEF Undone, Trapped
    <3> QED
      BY <3>1, <3>4, <3>5 DEF TrapInv, Quiet
  <2> QED
    BY <1>4, <2>1, <2>2 DEF StepPlant
<1>5. CASE DetachDone
  BY <1>5, ReturnToTraps DEF DetachDone
<1> QED
  BY <1>1, <1>2, <1>3, <1>4, <1>5 DEF Stub

LEMMA OutsideTraps ==
  ASSUME TypeOK, TrapInv, Bios \/ MonitorGdb \/ StubInterrupted \/ ResetButton
  PROVE  TrapInv'
<1>1. CASE BiosReturn
  BY <1>1, ReturnToTraps DEF BiosReturn
<1>2. CASE BiosDetach \/ MonitorGdb
  <2>1. UNCHANGED <<mem, stepped, instrBuffer, cmd, left>> /\ at' \in {"bios", "report"}
    BY <1>2 DEF BiosDetach, MonitorGdb, history
  <2>2. Clean => Known' /\ Undone'
    BY <2>1, KnownKept DEF Quiet
  <2> QED
    BY <2>1, <2>2 DEF TrapInv
<1>3. CASE BiosShutdown
  <2>1. CASE CpuReset
    BY <2>1, ResetTraps
  <2>2. CASE ~CpuReset
    <3>1. UNCHANGED <<mem, stepped, instrBuffer, cmd, left>> /\ at' = "halted"
      BY <1>3, <2>2 DEF BiosShutdown, stub, history
    <3>2. Clean => Known' /\ Undone'
      BY <3>1, KnownKept DEF Quiet
    <3> QED
      BY <3>1, <3>2 DEF TrapInv
  <2> QED
    BY <2>1, <2>2
<1>4. CASE StubInterrupted
  BY <1>4, EnterFromStubTraps DEF StubInterrupted
<1>5. CASE ResetButton
  BY <1>5, ResetTraps DEF ResetButton
<1>6. CASE BiosBuffer
  <2>1. CASE StubFaults(instrBuffer)
    BY <2>1, StubFaultsTraps
  <2>2. CASE ~StubFaults(instrBuffer)
    <3>1. /\ UNCHANGED <<stepped, instrBuffer, cmd, left>> /\ at' = "bios"
          /\ \E v \in StoreWords : mem' = Store(mem, rf.rn, v)
      BY <1>6, <2>2 DEF BiosBuffer, stub, history
    <3>2. Clean => Trapped(mem') \subseteq Trapped(mem)
      BY <3>1, StoreTraps DEF Clean, TypeOK
    <3>3. Clean => Known' /\ Undone'
      BY <3>1, <3>2, KnownKept DEF Quiet
    <3> QED
      BY <3>1, <3>3 DEF TrapInv
  <2> QED
    BY <2>1, <2>2
<1> QED
  BY <1>1, <1>2, <1>3, <1>4, <1>5, <1>6 DEF Bios

\* While the host's commands are served no trap of the stub is in memory but for
\* those a reset left there: however the program stopped, and also after an
\* exception that re-entered the stub in the middle of a step.
THEOREM TrapOut == Spec => []TrapsTakenOut
<1>1. Init => TypeOK /\ TrapInv
  BY InitTypeOK DEF Init, TrapInv, Known, Undone, NoCmd
<1>2. TypeOK /\ TrapInv /\ [Next]_vars => (TypeOK /\ TrapInv)'
  <2> SUFFICES ASSUME TypeOK, TrapInv, [Next]_vars PROVE TrapInv'
    BY NextTypeOK
  <2>1. CASE UNCHANGED vars
    BY <2>1 DEF vars, stub, history, TrapInv, Known, Undone
  <2> QED
    BY <2>1, ProgramTraps, HostTraps, StubTraps, OutsideTraps DEF Next
<1>3. TrapInv => TrapsTakenOut
  BY DEF TrapInv, Known, TrapsTakenOut, Clean, Quiet
<1> QED
  BY <1>1, <1>2, <1>3, PTL DEF Spec

----------------------------------------------------------------------------
(* The answers to m and M *)

\* The slots of a command that were accessed so far: none was unmapped, and
\* those in RAM hold what M writes.
Accessed ==
  ~nested /\ at = "access" =>
    /\ cmd.done <= cmd.len
    /\ \A i \in 0 .. cmd.done - 1 :
         /\ Plus(cmd.addr, i) \notin Unmapped
         /\ cmd.op = "M" /\ Plus(cmd.addr, i) \notin Rom =>
              mem[Plus(cmd.addr, i)] = cmd.word

Answers == Accessed /\ AnswersTrue

\* A session accesses memory, and answers, only by the actions made for it.
LEMMA OnlyAccesses ==
  ASSUME Next, at' \in {"access", "reply"}, ~nested'
  PROVE  CmdInfo \/ CmdSetRegisters \/ CmdAccess \/ AccessWord \/ AccessDone
<1>1. ~CpuReset /\ \A vec : ~EnterFromStub(vec)
  BY DEF CpuReset, EnterFromStub
<1>2. \A ib : ~StubFaults(ib)
  BY <1>1 DEF StubFaults
<1>3. \A p : ~ReturnTo(p)
  BY DEF ReturnTo
<1>4. ~(Program \/ UserInterrupted)
  BY DEF Program, UserPlain, UserBranch, UserDelayed, UserTrap, UserFault, UserInterrupted,
         Fetched, RunTo, EnterFromProgram, Dispatch
<1>5. Host => CmdInfo \/ CmdSetRegisters \/ CmdAccess
  BY <1>2, <1>3 DEF Host, CmdContinue, CmdStep, CmdDetach
<1>6. Stub => AccessWord \/ AccessDone
  BY <1>2, <1>3 DEF Stub, ReportAcked, ReplyAcked, StepPlant, DetachDone
<1>7. ~(Bios \/ MonitorGdb \/ StubInterrupted \/ ResetButton)
  BY <1>1, <1>2, <1>3 DEF Bios, BiosReturn, BiosBuffer, BiosDetach, BiosShutdown,
     MonitorGdb, StubInterrupted, ResetButton
<1> QED
  BY <1>4, <1>5, <1>6, <1>7 DEF Next

LEMMA AccessWordAnswers ==
  ASSUME TypeOK, Answers, AccessWord, ~nested', at' # "monitor"
  PROVE  Answers'
<1> DEFINE a == Plus(cmd.addr, cmd.done)
<1>1. /\ at = "access" /\ ~nested /\ cmd.done < cmd.len
      /\ cmd \in Cmd /\ cmd.addr \in Int /\ cmd.done \in Nat /\ cmd.len \in Nat
  BY Literals DEF AccessWord, More, TypeOK, Cmd, BusError, Answer, CpuReset, history
<1>2. a \in Addr
  BY <1>1, PlusInAddr
<1>3. CASE a \in Unmapped
  <2>1. at' = "reply" /\ cmd' = [cmd EXCEPT !.answer = "E03"]
    BY <1>3 DEF AccessWord, BusError, Answer, CpuReset
  <2>2. /\ cmd'.answer = "E03" /\ cmd'.len = cmd.len /\ cmd'.addr = cmd.addr
    BY <1>1, <2>1 DEF Cmd
  <2>3. AnswersTrue'
    <3>1. cmd.done \in 0 .. cmd.len - 1
      BY <1>1
    <3> QED
      BY <1>3, <2>2, <3>1 DEF AnswersTrue
  <2> QED
    BY <2>1, <2>3 DEF Answers, Accessed
<1>4. CASE a \notin Unmapped
  <2>1. /\ mem' = IF cmd.op = "M" THEN Store(mem, a, cmd.word) ELSE mem
        /\ cmd' = [cmd EXCEPT !.done = @ + 1] /\ at' = at
    BY <1>4 DEF AccessWord
  <2>2. /\ cmd'.done = cmd.done + 1 /\ cmd'.len = cmd.len /\ cmd'.addr = cmd.addr
        /\ cmd'.op = cmd.op /\ cmd'.word = cmd.word
    BY <1>1, <2>1 DEF Cmd
  <2>3. ASSUME NEW i \in 0 .. cmd.done
        PROVE  /\ Plus(cmd.addr, i) \notin Unmapped
               /\ cmd.op = "M" /\ Plus(cmd.addr, i) \notin Rom =>
                    mem'[Plus(cmd.addr, i)] = cmd.word
    <3>1. Plus(cmd.addr, i) \in Addr
      BY <1>1, PlusInAddr
    <3>2. mem \in [Addr -> Word]
      BY DEF TypeOK
    <3>3. CASE i = cmd.done
      BY <1>2, <1>4, <2>1, <3>2, <3>3 DEF Store
    <3>4. CASE i # cmd.done
      <4>1. /\ Plus(cmd.addr, i) \notin Unmapped
            /\ cmd.op = "M" /\ Plus(cmd.addr, i) \notin Rom =>
                 mem[Plus(cmd.addr, i)] = cmd.word
        <5>1. i \in 0 .. cmd.done - 1
          BY <1>1, <3>4
        <5> QED
          BY <1>1, <5>1 DEF Answers, Accessed
      <4> QED
        BY <2>1, <3>1, <3>2, <4>1 DEF Store
    <3> QED
      BY <3>3, <3>4
  <2>4. Accessed'
    <3>1. cmd'.done <= cmd'.len
      BY <1>1, <2>2
    <3>2. \A i : i \in 0 .. cmd'.done - 1 => i \in 0 .. cmd.done
      BY <1>1, <2>2
    <3> QED
      BY <2>2, <2>3, <3>1, <3>2 DEF Accessed, Plus
  <2> QED
    BY <1>1, <2>1, <2>4 DEF Answers, AnswersTrue
<1> QED
  BY <1>3, <1>4

LEMMA AccessDoneAnswers ==
  ASSUME TypeOK, Answers, AccessDone
  PROVE  Answers'
<1>0. cmd.done \in Nat /\ cmd.len \in Nat /\ cmd.done <= cmd.len /\ ~More
  BY DEF AccessDone, TypeOK, Cmd
<1>1. /\ at = "access" /\ at' = "reply" /\ cmd' = [cmd EXCEPT !.answer = "OK"]
      /\ cmd.done = cmd.len /\ nested' = nested /\ mem' = mem
  BY <1>0 DEF AccessDone, More, Answer, history
<1>2. /\ cmd'.answer = "OK" /\ cmd'.len = cmd.len /\ cmd'.addr = cmd.addr
      /\ cmd'.op = cmd.op /\ cmd'.word = cmd.word
  BY <1>1 DEF TypeOK, Cmd
<1>3. ~nested => \A i \in 0 .. cmd.len - 1 :
        /\ Plus(cmd.addr, i) \notin Unmapped
        /\ cmd.op = "M" /\ Plus(cmd.addr, i) \notin Rom =>
             mem[Plus(cmd.addr, i)] = cmd.word
  BY <1>1 DEF Answers, Accessed
<1>4. AnswersTrue'
  BY <1>1, <1>2, <1>3 DEF AnswersTrue, Plus
<1> QED
  BY <1>1, <1>4 DEF Answers, Accessed

LEMMA NextAnswers == TypeOK /\ Answers /\ [Next]_vars => Answers'
<1> SUFFICES ASSUME TypeOK, Answers, [Next]_vars PROVE Answers'
  OBVIOUS
<1>1. CASE UNCHANGED vars
  BY <1>1 DEF vars, stub, history, Answers, Accessed, AnswersTrue, Plus
<1>2. CASE nested' \/ at' \notin {"access", "reply"}
  BY <1>2 DEF Answers, Accessed, AnswersTrue
<1>3. CASE CmdInfo \/ CmdSetRegisters
  <2>1. at' = "reply" /\ cmd' = [cmd EXCEPT !.answer = "info"]
    BY <1>3 DEF CmdInfo, CmdSetRegisters, Answer
  <2>2. cmd'.answer = "info"
    BY <2>1 DEF TypeOK, Cmd
  <2> QED
    BY <2>1, <2>2 DEF Answers, Accessed, AnswersTrue
<1>4. CASE CmdAccess
  <2>1. at' = "access" /\ cmd'.done = 0 /\ cmd'.len \in Nat
    BY <1>4, ConstantsOK DEF CmdAccess, Length
  <2>2. 0 .. cmd'.done - 1 = {}
    BY <2>1
  <2> QED
    BY <2>1, <2>2 DEF Answers, Accessed, AnswersTrue
<1> QED
  BY <1>1, <1>2, <1>3, <1>4, OnlyAccesses, AccessWordAnswers, AccessDoneAnswers

\* An OK to m or M means that every word was accessed and, in RAM, holds what
\* was written; an E03 that one of them is unmapped.
THEOREM AnswersCorrect == Spec => []AnswersTrue
<1>1. Init => TypeOK /\ Answers
  BY InitTypeOK DEF Init, Answers, Accessed, AnswersTrue
<1>2. TypeOK /\ Answers /\ [Next]_vars => (TypeOK /\ Answers)'
  BY NextTypeOK, NextAnswers
<1>3. Answers => AnswersTrue
  BY DEF Answers
<1> QED
  BY <1>1, <1>2, <1>3, PTL DEF Spec

----------------------------------------------------------------------------
(* Stepping *)

\* Between s and the first instruction, instrBuffer is where that instruction
\* leads; a BIOS call made on a TRA left over does not move the program.
Aim ==
  /\ ~nested /\ at = "plant" =>
       stepped /\ target = IF pc \in Addr THEN StepTarget(mem[pc], pc) ELSE NoAddr
  /\ ~nested /\ at \in {"user", "bios"} /\ stepped /\ since = 0 /\ stepOp # "none" =>
       pc \in Addr /\ instrBuffer.memAddr = StepTarget(stepOp, pc)

\* A trap that ROM did not take left the old instruction where it was.
RomKept ==
  ~nested /\ stepped /\ at \notin {"plant", "wild"} /\ instrBuffer.memAddr \in Rom =>
    mem[instrBuffer.memAddr] = instrBuffer.oldInstr

Stepping == Aim /\ RomKept

\* Writes leave ROM alone.
LEMMA StoreKeepsRom ==
  ASSUME NEW m \in [Addr -> Word], NEW a, NEW w, NEW r \in Rom
  PROVE  Store(m, a, w)[r] = m[r]
BY ConstantsOK DEF Store

\* A step that leaves the stub's part alone, and memory but for one write.
LEMMA RomKeptByStore ==
  ASSUME TypeOK, RomKept, UNCHANGED <<stepped, instrBuffer>>, at # "plant",
         at = "wild" => at' = "wild",
         nested => nested',
         mem' = mem \/ \E a, w : mem' = Store(mem, a, w)
  PROVE  RomKept'
<1> SUFFICES ASSUME ~nested', stepped', at' \notin {"plant", "wild"},
                    instrBuffer'.memAddr \in Rom
             PROVE  mem'[instrBuffer'.memAddr] = instrBuffer'.oldInstr
  BY DEF RomKept
<1>1. mem[instrBuffer.memAddr] = instrBuffer.oldInstr
  BY DEF RomKept
<1>2. mem'[instrBuffer.memAddr] = mem[instrBuffer.memAddr]
  BY StoreKeepsRom DEF TypeOK
<1> QED
  BY <1>1, <1>2

\* An instruction that ran is counted.
LEMMA RanCounts ==
  ASSUME TypeOK, Ran
  PROVE  since' # 0
BY DEF TypeOK, Ran

LEMMA FaultsStepping ==
  ASSUME NEW ib, StubFaults(ib)
  PROVE  Stepping'
<1>1. CpuReset => at' = "monitor" /\ ~stepped'
  BY DEF CpuReset
<1>2. EnterFromStub("addr") => nested'
  BY DEF EnterFromStub
<1> QED
  BY <1>1, <1>2 DEF StubFaults, Stepping, Aim, RomKept

LEMMA EnterFromProgramStepping ==
  ASSUME TypeOK, Stepping, NEW vec, NEW p, NEW t, EnterFromProgram(vec, p, t),
         at \in {"user", "monitor"}, at = "monitor" => vec = "nmi",
         since' # 0 \/ (since' = since /\ p = pc) \/ t # "bios"
  PROVE  Stepping'
<1>1. UNCHANGED <<mem, rf, stepped, instrBuffer, stepOp, nested>> /\ pc' = p
  BY DEF EnterFromProgram
<1>2. at' \in {"wild", "bios", "report"} /\ (at' = "bios" => vec # "nmi" /\ t = "bios")
  BY Zenon DEF EnterFromProgram, Dispatch
<1>3. RomKept'
  BY <1>1, <1>2, RomKeptByStore DEF Stepping
<1>4. Aim'
  <2>1. CASE at' = "bios" /\ since' = since /\ p = pc
    <3>1. ~nested' /\ stepped' /\ since' = 0 /\ stepOp' # "none" =>
            pc \in Addr /\ instrBuffer.memAddr = StepTarget(stepOp, pc)
      BY <1>1, <1>2, <2>1 DEF Stepping, Aim
    <3> QED
      BY <1>1, <2>1, <3>1 DEF Aim, StepTarget, Plus
  <2>2. CASE at' = "bios" /\ since' # 0
    BY <2>2 DEF Aim
  <2>3. CASE at' # "bios"
    BY <1>2, <2>3 DEF Aim
  <2> QED
    BY <1>2, <2>1, <2>2, <2>3
<1> QED
  BY <1>3, <1>4 DEF Stepping

LEMMA ProgramStepping ==
  ASSUME TypeOK, Stepping, Program \/ UserInterrupted
  PROVE  Stepping'
<1>1. ASSUME NEW p, RunTo(p), at = "user", mem' = mem \/ \E a, w : mem' = Store(mem, a, w)
      PROVE  Stepping'
  <2>1. Aim'
    BY <1>1, RanCounts DEF RunTo, Aim
  <2>2. RomKept'
    BY <1>1, RomKeptByStore DEF RunTo, stub, Stepping
  <2> QED
    BY <2>1, <2>2 DEF Stepping
<1>2. \A w : Effect(w) => mem' = mem \/ \E a, v : mem' = Store(mem, a, v)
  BY DEF Effect
<1>3. CASE UserPlain
  BY <1>1, <1>2, <1>3 DEF UserPlain, Fetched
<1>4. CASE UserBranch
  BY <1>1, <1>4 DEF UserBranch, Fetched
<1>5. CASE UserDelayed
  BY <1>1, <1>2, <1>5 DEF UserDelayed, Fetched
<1>6. CASE UserTrap
  <2>1. PICK t \in Traps :
          /\ at = "user"
          /\ EnterFromProgram("trap", Plus(pc, 1),
                              IF t \in {"bios", "self"} THEN t ELSE "other")
          /\ IF t = "bios" THEN Ran ELSE UNCHANGED since
    BY <1>6 DEF UserTrap, Fetched
  <2>2. CASE t = "bios"
    BY <2>1, <2>2, RanCounts, EnterFromProgramStepping
  <2>3. CASE t # "bios"
    BY <2>1, <2>3, EnterFromProgramStepping
  <2> QED
    BY <2>2, <2>3
<1>7. CASE UserFault \/ UserInterrupted
  <2>1. PICK vec \in Vectors \ {"trap"} :
          /\ EnterFromProgram(vec, pc, tra) /\ UNCHANGED since
          /\ at \in {"user", "monitor"} /\ (at = "monitor" => vec = "nmi")
    BY <1>7, Zenon DEF UserFault, UserInterrupted, Vectors
  <2> QED
    BY <2>1, EnterFromProgramStepping
<1> QED
  BY <1>3, <1>4, <1>5, <1>6, <1>7 DEF Program

\* In a session the program does not move.
LEMMA SessionStepping ==
  ASSUME TypeOK, Stepping, UNCHANGED <<mem, stepped, instrBuffer, nested>>,
         at \in Places \ {"plant", "wild"},
         at' \in Places \ {"plant", "user", "bios"}
  PROVE  Stepping'
<1>1. RomKept'
  BY RomKeptByStore DEF Stepping
<1> QED
  BY <1>1 DEF Stepping, Aim

LEMMA HostStepping ==
  ASSUME TypeOK, Control, Stepping, Host
  PROVE  Stepping'
<1>0. at = "wait" /\ at \in Places \ {"plant", "wild"}
  BY DEF Host, CmdInfo, CmdSetRegisters, CmdAccess, CmdContinue, CmdStep, CmdDetach,
         Places, Session
<1>1. CASE CmdInfo \/ CmdSetRegisters \/ CmdAccess \/ CmdDetach
  <2>1. at' \in Places \ {"plant", "user", "bios"}
    BY <1>1 DEF CmdInfo, CmdSetRegisters, CmdAccess, CmdDetach, Answer, Places, Session
  <2> QED
    BY <1>0, <1>1, <2>1, SessionStepping
       DEF CmdInfo, CmdSetRegisters, CmdAccess, CmdDetach, stub, history
<1>2. CASE CmdContinue
  <2>1. stepped' = stepped /\ nested' = nested /\ stepOp' = "none" /\ at' # "plant"
    BY <1>2 DEF CmdContinue, ReturnTo
  <2> QED
    BY <1>0, <2>1 DEF Control, FlagDown, Stepping, Aim, RomKept
<1>3. CASE CmdStep
  <2>1. CASE StubFaults(instrBuffer)
    BY <2>1, FaultsStepping
  <2>2. CASE ~StubFaults(instrBuffer)
    <3>1. /\ at' = "plant" /\ stepped' = TRUE /\ UNCHANGED <<mem, rf>>
          /\ target' = IF pc' \in Addr THEN StepTarget(mem[pc'], pc') ELSE NoAddr
      BY <1>3, <2>2 DEF CmdStep
    <3> QED
      BY <3>1 DEF Stepping, Aim, RomKept, StepTarget, Plus
  <2> QED
    BY <2>1, <2>2
<1> QED
  BY <1>1, <1>2, <1>3 DEF Host

LEMMA StubStepping ==
  ASSUME TypeOK, Control, Stepping, Stub
  PROVE  Stepping'
<1>1. CASE ReportAcked
  <2>1. CASE StubFaults(instrBuffer)
    BY <2>1, FaultsStepping
  <2>2. CASE ~StubFaults(instrBuffer)
    BY <1>1, <2>2 DEF ReportAcked, UndoSStep, Stepping, Aim, RomKept
  <2> QED
    BY <2>1, <2>2
<1>2. CASE AccessWord
  <2>1. CASE CpuReset
    BY <2>1 DEF CpuReset, Stepping, Aim, RomKept
  <2>2. CASE ~CpuReset
    <3>1. /\ UNCHANGED <<stepped, instrBuffer, nested>>
          /\ at = "access" /\ at' \in {"access", "reply"}
          /\ mem' = mem \/ \E a, w : mem' = Store(mem, a, w)
      BY <1>2, <2>2 DEF AccessWord, BusError, Answer, stub, history
    <3> QED
      BY <3>1, RomKeptByStore DEF Stepping, Aim
  <2> QED
    BY <2>1, <2>2
<1>3. CASE AccessDone \/ ReplyAcked
  <2>1. /\ at \in Places \ {"plant", "wild"}
        /\ at' \in Places \ {"plant", "user", "bios"}
    BY <1>3 DEF AccessDone, ReplyAcked, Answer, Places, Session
  <2> QED
    BY <1>3, <2>1, SessionStepping DEF AccessDone, ReplyAcked, stub, history
<1>4. CASE StepPlant
  <2>1. CASE StubFaults([instrBuffer EXCEPT !.memAddr = target])
    BY <2>1, FaultsStepping
  <2>2. CASE ~StubFaults([instrBuffer EXCEPT !.memAddr = target])
    <3>1. /\ at = "plant" /\ at' # "plant" /\ UNCHANGED <<pc, rf, stepped, nested>>
          /\ instrBuffer' = [memAddr |-> target,
                             oldInstr |-> IF target \in Addr THEN mem[target] ELSE "op"]
          /\ mem' = Store(mem, target, "sstep")
          /\ stepOp' = IF pc \in Addr THEN mem[pc] ELSE "none"
      BY <1>4, <2>2 DEF StepPlant, ReturnTo
    <3>2. RomKept'
      BY <3>1, ConstantsOK DEF Store, RomKept
    <3>3. ~nested' /\ stepOp' # "none" =>
            pc' \in Addr /\ instrBuffer'.memAddr = StepTarget(stepOp', pc')
      BY <3>1 DEF Stepping, Aim
    <3> QED
      BY <3>1, <3>2, <3>3 DEF Stepping, Aim, StepTarget, Plus
  <2> QED
    BY <2>1, <2>2
<1>5. CASE DetachDone
  <2>1. stepped' = stepped /\ nested' = nested /\ stepOp' = "none" /\ at' # "plant"
        /\ at = "detach"
    BY <1>5 DEF DetachDone, ReturnTo
  <2> QED
    BY <2>1 DEF Control, FlagDown, Stepping, Aim, RomKept
<1> QED
  BY <1>1, <1>2, <1>3, <1>4, <1>5 DEF Stub

LEMMA OutsideStepping ==
  ASSUME TypeOK, Stepping, Bios \/ MonitorGdb \/ StubInterrupted \/ ResetButton
  PROVE  Stepping'
<1>1. ASSUME UNCHANGED <<pc, rf, stepped, instrBuffer, since, stepOp, nested>>,
             at = "bios", at' # "plant",
             mem' = mem \/ \E a, w : mem' = Store(mem, a, w)
      PROVE  Stepping'
  <2>1. RomKept'
    BY <1>1, RomKeptByStore DEF Stepping
  <2>2. ~nested' /\ stepped' /\ since' = 0 /\ stepOp' # "none" =>
          pc' \in Addr /\ instrBuffer'.memAddr = StepTarget(stepOp', pc')
    BY <1>1 DEF Stepping, Aim
  <2> QED
    BY <1>1, <2>1, <2>2 DEF Stepping, Aim, StepTarget, Plus
<1>2. CASE BiosReturn
  BY <1>1, <1>2 DEF BiosReturn, ReturnTo
<1>3. CASE BiosBuffer
  <2>1. CASE StubFaults(instrBuffer)
    BY <2>1, FaultsStepping
  <2>2. CASE ~StubFaults(instrBuffer)
    BY <1>1, <1>3, <2>2 DEF BiosBuffer, stub, history
  <2> QED
    BY <2>1, <2>2
<1>4. CASE BiosDetach
  BY <1>1, <1>4 DEF BiosDetach, history
<1>5. CASE CpuReset
  BY <1>5 DEF CpuReset, Stepping, Aim, RomKept
<1>6. CASE BiosShutdown
  BY <1>1, <1>5, <1>6 DEF BiosShutdown, stub, history
<1>7. CASE MonitorGdb
  <2>1. /\ at \in Places \ {"plant", "wild"}
        /\ at' \in Places \ {"plant", "user", "bios"}
    BY <1>7 DEF MonitorGdb, Places, Session
  <2> QED
    BY <1>7, <2>1, SessionStepping DEF MonitorGdb, history
<1>8. CASE StubInterrupted
  BY <1>8 DEF StubInterrupted, EnterFromStub, Stepping, Aim, RomKept
<1> QED
  BY <1>2, <1>3, <1>4, <1>5, <1>6, <1>7, <1>8 DEF Bios, ResetButton

LEMMA InvStepping == Spec => [](TypeOK /\ Control /\ Stepping)
<1>1. Init => Stepping
  BY DEF Init, Stepping, Aim, RomKept
<1>2. TypeOK /\ Control /\ Stepping /\ [Next]_vars => Stepping'
  <2> SUFFICES ASSUME TypeOK, Control, Stepping, [Next]_vars PROVE Stepping'
    OBVIOUS
  <2>1. CASE UNCHANGED vars
    BY <2>1 DEF vars, stub, history, Stepping, Aim, RomKept, StepTarget, Plus
  <2> QED
    BY <2>1, ProgramStepping, HostStepping, StubStepping, OutsideStepping DEF Next
<1> QED
  BY <1>1, <1>2, InvControl, PTL DEF Spec

\* Only the program's own instructions are counted.
LEMMA OnlyProgramRuns ==
  ASSUME Next, at = "user", since' # since, since' # 0
  PROVE  UserPlain \/ UserBranch \/ UserDelayed \/ (UserTrap /\ Fetched("bios"))
<1>1. ~CpuReset /\ \A vec : ~EnterFromStub(vec)
  BY DEF CpuReset, EnterFromStub
<1>2. UserTrap => Fetched("bios")
  BY DEF UserTrap
<1>3. ~UserFault /\ ~UserInterrupted
  BY DEF UserFault, UserInterrupted
<1>4. ~Host
  BY DEF Host, CmdInfo, CmdSetRegisters, CmdAccess, CmdContinue, CmdStep, CmdDetach
<1>5. ~Stub
  BY DEF Stub, ReportAcked, AccessWord, AccessDone, ReplyAcked, StepPlant, DetachDone
<1>6. ~(Bios \/ MonitorGdb \/ StubInterrupted \/ ResetButton)
  BY <1>1 DEF Bios, BiosReturn, BiosBuffer, BiosDetach, BiosShutdown, MonitorGdb,
     StubInterrupted, ResetButton
<1> QED
  BY <1>2, <1>3, <1>4, <1>5, <1>6 DEF Next, Program

\* The first instruction after s, a branch with its slot or a BIOS call too,
\* takes the program to the trap of the step, for any program and registers;
\* there no second one runs.
THEOREM StepLands == Spec => StepExact
<1> DEFINE First == since = 0 /\ mem[pc] = stepOp /\ since' # 0 => pc' = instrBuffer.memAddr
           Second == since = 1 /\ pc = instrBuffer.memAddr => since' # 2
           Stepped == ~nested /\ at = "user" /\ Planted /\ stepOp \notin {"none", "rte"}
<1>1. ASSUME TypeOK, Control, Stepping, Next, Stepped
      PROVE  First
  <2> SUFFICES ASSUME since = 0, mem[pc] = stepOp, since' # 0
               PROVE  pc' = instrBuffer.memAddr
    OBVIOUS
  <2>1. instrBuffer.memAddr = StepTarget(mem[pc], pc)
    BY <1>1 DEF Stepping, Aim, Planted
  <2>2. CASE UserPlain
    <3>1. mem[pc] \in {"op", "st"} /\ pc' = Plus(pc, 1)
      BY <2>2 DEF UserPlain, Fetched, RunTo
    <3> QED
      BY <2>1, <3>1 DEF StepTarget
  <2>3. CASE UserBranch
    BY <2>1, <2>3 DEF UserBranch, Fetched, RunTo, StepTarget
  <2>4. CASE UserDelayed
    <3>1. \/ mem[pc] = "bts" /\ pc' = IF rf.t THEN Plus(pc, 2 + Disp) ELSE Plus(pc, 2)
          \/ mem[pc] = "jmp" /\ pc' = rf.rn
      BY <1>1, <2>4 DEF UserDelayed, Fetched, RunTo
    <3> QED
      BY <2>1, <3>1 DEF StepTarget
  <2>5. CASE UserTrap /\ Fetched("bios")
    <3>1. mem[pc] = "bios" /\ pc' = Plus(pc, 1)
      BY <2>5 DEF UserTrap, Fetched, EnterFromProgram
    <3> QED
      BY <2>1, <3>1 DEF StepTarget
  <2> QED
    BY <1>1, <2>2, <2>3, <2>4, <2>5, OnlyProgramRuns
<1>2. ASSUME TypeOK, Control, Stepping, Next, Stepped
      PROVE  Second
  <2> SUFFICES ASSUME since = 1, pc = instrBuffer.memAddr, since' = 2
               PROVE  FALSE
    OBVIOUS
  <2>1. mem[pc] = "sstep"
    BY <1>2 DEF Planted
  <2>2. ~UserPlain /\ ~UserBranch /\ ~UserDelayed /\ ~Fetched("bios")
    BY <2>1 DEF UserPlain, UserBranch, UserDelayed, Fetched
  <2> QED
    BY <1>2, <2>2, OnlyProgramRuns
<1>3. TypeOK /\ Control /\ Stepping /\ [Next]_vars => [Stepped => First /\ Second]_vars
  BY <1>1, <1>2
<1> QED
  BY <1>3, InvStepping, PTL DEF Spec, StepExact

----------------------------------------------------------------------------
(* The promise to the host *)

\* The memory the host sees is a memory.
LEMMA ShownIsMemory ==
  ASSUME TypeOK
  PROVE  Shown \in [Addr -> Word]
BY DEF TypeOK, Shown

\* A write of the program's or the host's is seen as that write, or, at the trap
\* of a step, not at all.
LEMMA StoreIsSeen ==
  ASSUME TypeOK, NEW a, NEW w \in Word, mem' = Store(mem, a, w),
         UNCHANGED <<stepped, instrBuffer>>, at # "plant", at' # "plant"
  PROVE  Shown' = Shown \/ Target!WriteOne
<1> DEFINE b == instrBuffer.memAddr
           Hidden == stepped /\ b \in Addr
<1>1. CASE a \notin Addr \ Rom
  BY <1>1 DEF Store, Shown
<1>2. CASE a \in Addr \ Rom
  <2>1. mem' = [mem EXCEPT ![a] = w] /\ mem \in [Addr -> Word]
    BY <1>2 DEF Store, TypeOK
  <2>2. CASE ~Hidden
    BY <1>2, <2>1, <2>2 DEF Shown, Target!WriteOne
  <2>3. CASE Hidden /\ a = b
    <3>1. /\ Shown = [mem EXCEPT ![b] = instrBuffer.oldInstr]
          /\ Shown' = [mem' EXCEPT ![b] = instrBuffer.oldInstr]
      BY <2>3 DEF Shown
    <3> QED
      BY <2>1, <2>3, <3>1
  <2>4. CASE Hidden /\ a # b
    <3>1. /\ Shown = [mem EXCEPT ![b] = instrBuffer.oldInstr]
          /\ Shown' = [mem' EXCEPT ![b] = instrBuffer.oldInstr]
      BY <2>4 DEF Shown
    <3>2. Shown' = [Shown EXCEPT ![a] = w]
      BY <2>1, <2>4, <3>1
    <3> QED
      BY <1>2, <3>2 DEF Target!WriteOne
  <2> QED
    BY <2>2, <2>3, <2>4
<1> QED
  BY <1>1, <1>2

\* Steps that touch neither memory nor what hides the trap.
LEMMA SameIsSeen ==
  ASSUME UNCHANGED <<mem, stepped, instrBuffer>>, at # "plant", at' # "plant"
  PROVE  Shown' = Shown
BY DEF Shown

LEMMA LosesTarget ==
  ASSUME TypeOK', nested' \/ at' = "wild"
  PROVE  Target!TargetNext
<1>1. Shown' \in [Addr -> Word]
  BY DEF TypeOK, Shown
<1>2. Mode' = "lost"
  BY DEF Mode
<1> QED
  BY <1>1, <1>2 DEF Target!TargetNext, Target!Lose

\* A reset forgets the trap of a step.
LEMMA ResetsTarget ==
  ASSUME TypeOK, CpuReset
  PROVE  Target!TargetNext
<1>1. Mode' = "off" /\ Shown' = mem
  BY DEF CpuReset, Mode, Shown
<1>2. mem \in [Addr -> Word] /\ instrBuffer.oldInstr \in Word
  BY DEF TypeOK
<1>3. CASE Mode = "lost"
  BY <1>1, <1>2, <1>3 DEF Target!TargetNext, Target!Recover
<1>4. CASE Mode # "lost"
  <2>1. CASE Shown = mem
    BY <1>1, <1>4, <2>1 DEF Target!TargetNext, Target!Reset
  <2>2. CASE Shown # mem
    <3> DEFINE b == instrBuffer.memAddr
    <3>1. b \in Addr /\ Shown = [mem EXCEPT ![b] = instrBuffer.oldInstr]
      BY <2>2 DEF Shown
    <3>2. mem = [Shown EXCEPT ![b] = mem[b]] /\ mem[b] \in Word
      BY <1>2, <3>1
    <3>3. Target!WriteOne
      BY <1>1, <3>1, <3>2 DEF Target!WriteOne
    <3> QED
      BY <1>1, <1>4, <3>3 DEF Target!TargetNext, Target!Reset
  <2> QED
    BY <2>1, <2>2
<1> QED
  BY <1>3, <1>4

LEMMA FaultsTarget ==
  ASSUME TypeOK, TypeOK', NEW ib, StubFaults(ib)
  PROVE  Target!TargetNext
<1>1. CASE CpuReset
  BY <1>1, ResetsTarget
<1>2. CASE nested' \/ at' = "wild"
  BY <1>2, LosesTarget
<1> QED
  BY <1>1, <1>2 DEF StubFaults, EnterFromStub

\* The program's instructions are writes of the target, its exceptions stops.
LEMMA ProgramTarget ==
  ASSUME TypeOK, TypeOK', Program \/ UserInterrupted
  PROVE  [Target!TargetNext]_(Target!tvars)
<1> USE DEF Target!tvars
<1>0. CASE nested' \/ at' = "wild"
  BY <1>0, LosesTarget
<1>1. ASSUME NEW p, RunTo(p), at = "user", ~nested',
             mem' = mem \/ \E a : \E w \in Word : mem' = Store(mem, a, w)
      PROVE  [Target!TargetNext]_(Target!tvars)
  <2>1. /\ UNCHANGED <<stepped, instrBuffer>> /\ at' = "user"
        /\ Mode = "running" /\ Mode' = "running"
    BY <1>1 DEF RunTo, stub, Mode
  <2>2. Shown' = Shown \/ Target!WriteOne
    BY <1>1, <2>1, StoreIsSeen, SameIsSeen
  <2> QED
    BY <2>1, <2>2 DEF Target!TargetNext, Target!Write
<1>2. \A w : Effect(w) => mem' = mem \/ \E a : \E v \in Word : mem' = Store(mem, a, v)
  BY ConstantsOK DEF Effect
<1>3. ASSUME NEW vec, NEW p, NEW t, EnterFromProgram(vec, p, t), ~nested', at' # "wild",
             at \in {"user", "monitor"}, at = "monitor" => vec = "nmi"
      PROVE  [Target!TargetNext]_(Target!tvars)
  <2>1. UNCHANGED <<mem, stepped, instrBuffer, nested>>
    BY <1>3 DEF EnterFromProgram
  <2>2. at' \in {"bios", "report"} /\ (at' = "bios" => at = "user")
    BY <1>3, Zenon DEF EnterFromProgram, Dispatch
  <2>3. Shown' = Shown
    BY <1>3, <2>1, <2>2, SameIsSeen
  <2>4. CASE at' = "bios"
    BY <1>3, <2>1, <2>2, <2>3, <2>4 DEF Mode
  <2>5. CASE at' = "report"
    <3>1. Mode \in {"off", "running"} /\ Mode' = "stopped"
      BY <1>3, <2>1, <2>5 DEF Mode
    <3> QED
      BY <2>3, <3>1 DEF Target!TargetNext, Target!Stop
  <2> QED
    BY <2>2, <2>4, <2>5
<1>4. CASE ~nested' /\ at' # "wild"
  <2>1. CASE UserPlain
    BY <1>1, <1>2, <1>4, <2>1 DEF UserPlain, Fetched
  <2>2. CASE UserBranch
    BY <1>1, <1>4, <2>2 DEF UserBranch, Fetched
  <2>3. CASE UserDelayed
    BY <1>1, <1>2, <1>4, <2>3 DEF UserDelayed, Fetched
  <2>4. CASE UserTrap
    BY <1>3, <1>4, <2>4 DEF UserTrap, Fetched
  <2>5. CASE UserFault \/ UserInterrupted
    <3>1. PICK vec \in Vectors :
            /\ EnterFromProgram(vec, pc, tra)
            /\ at \in {"user", "monitor"} /\ (at = "monitor" => vec = "nmi")
      BY <2>5, Zenon DEF UserFault, UserInterrupted, Vectors
    <3> QED
      BY <1>3, <1>4, <3>1
  <2> QED
    BY <2>1, <2>2, <2>3, <2>4, <2>5 DEF Program
<1> QED
  BY <1>0, <1>4

\* Resuming the program, or the monitor, from a session.
LEMMA ReturnsTarget ==
  ASSUME TypeOK, TypeOK', NEW p, ReturnTo(p), Shown' = Shown,
         at \in {"wait", "plant", "detach", "bios"}
  PROVE  [Target!TargetNext]_(Target!tvars)
<1>1. CASE nested' \/ at' = "wild"
  BY <1>1, LosesTarget
<1>2. CASE ~nested' /\ at' # "wild"
  <2>1. ~nested /\ at' \in {"user", "monitor"}
    BY <1>2 DEF ReturnTo
  <2>2. Mode' = IF at' = "user" THEN "running" ELSE "off"
    BY <1>2, <2>1 DEF Mode
  <2>3. Mode = IF at = "bios" THEN "running" ELSE "stopped"
    BY <2>1 DEF Mode
  <2> QED
    BY <2>2, <2>3 DEF Target!tvars, Target!TargetNext, Target!Resume, Target!Reset
<1> QED
  BY <1>1, <1>2

LEMMA HostTarget ==
  ASSUME TypeOK, TypeOK', Control, Host
  PROVE  [Target!TargetNext]_(Target!tvars)
<1>0. at = "wait"
  BY DEF Host, CmdInfo, CmdSetRegisters, CmdAccess, CmdContinue, CmdStep, CmdDetach
<1>1. CASE CmdInfo \/ CmdSetRegisters \/ CmdDetach
  <2>1. UNCHANGED <<mem, stepped, instrBuffer, nested>> /\ at' \in {"reply", "detach"}
    BY <1>1 DEF CmdInfo, CmdSetRegisters, CmdDetach, Answer, stub, history
  <2>2. Shown' = Shown
    BY <1>0, <2>1, SameIsSeen
  <2>3. Mode' = Mode
    BY <1>0, <2>1 DEF Mode
  <2> QED
    BY <2>2, <2>3 DEF Target!tvars
<1>2. CASE CmdAccess
  <2>1. UNCHANGED <<mem, stepped, instrBuffer, nested>> /\ at' = "access"
    BY <1>2 DEF CmdAccess, history
  <2>2. Shown' = Shown
    BY <1>0, <2>1, SameIsSeen
  <2>3. Mode' = Mode \/ (Mode = "stopped" /\ Mode' = "writing")
    BY <1>0, <2>1 DEF Mode
  <2> QED
    BY <2>2, <2>3 DEF Target!tvars, Target!TargetNext, Target!Command
<1>3. CASE CmdContinue
  <2>1. PICK p : ReturnTo(p)
    BY <1>3 DEF CmdContinue
  <2>2. UNCHANGED <<mem, stepped, instrBuffer>> /\ at' # "plant"
    BY <1>3 DEF CmdContinue, ReturnTo
  <2> QED
    BY <1>0, <2>1, <2>2, SameIsSeen, ReturnsTarget
<1>4. CASE CmdStep
  <2>1. CASE StubFaults(instrBuffer)
    BY <2>1, FaultsTarget
  <2>2. CASE ~StubFaults(instrBuffer)
    <3>1. at' = "plant" /\ UNCHANGED <<mem, nested>>
      BY <1>4, <2>2 DEF CmdStep, history
    <3>2. Mode' = Mode
      BY <1>0, <3>1 DEF Mode
    <3>3. CASE nested
      BY <3>1, <3>3, LosesTarget
    <3>4. CASE ~nested
      <4>1. Shown = mem /\ Shown' = mem
        BY <1>0, <3>1, <3>4 DEF Shown, Control, FlagDown
      <4> QED
        BY <3>2, <4>1 DEF Target!tvars
    <3> QED
      BY <3>3, <3>4
  <2> QED
    BY <2>1, <2>2
<1> QED
  BY <1>1, <1>2, <1>3, <1>4 DEF Host

\* Taking out the trap of a step, and putting it in, cannot be seen.
LEMMA TrapUnseen ==
  ASSUME TypeOK, Stepping, ~nested
  PROVE  /\ at \notin {"plant", "wild"} /\ UndoSStep /\ at' # "plant" => Shown' = Shown
         /\ at = "plant" /\ at' # "plant" /\ stepped' = stepped
            /\ mem' = Store(mem, target, "sstep")
            /\ instrBuffer' = [memAddr |-> target,
                               oldInstr |-> IF target \in Addr THEN mem[target] ELSE "op"]
              => Shown' = Shown
<1>1. mem \in [Addr -> Word]
  BY DEF TypeOK
<1>2. ASSUME at \notin {"plant", "wild"}, UndoSStep
      PROVE  Shown' = Shown
  <2>1. ~stepped' /\ Shown' = mem'
    BY <1>2 DEF UndoSStep, Shown
  <2>2. CASE ~stepped \/ instrBuffer.memAddr \notin Addr
    BY <1>2, <2>1, <2>2 DEF UndoSStep, Shown, Store
  <2>3. CASE stepped /\ instrBuffer.memAddr \in Addr \ Rom
    BY <1>2, <2>1, <2>3 DEF UndoSStep, Shown, Store
  <2>4. CASE stepped /\ instrBuffer.memAddr \in Addr \cap Rom
    <3>1. mem[instrBuffer.memAddr] = instrBuffer.oldInstr
      BY <1>2, <2>4 DEF Stepping, RomKept
    <3>2. [mem EXCEPT ![instrBuffer.memAddr] = instrBuffer.oldInstr] = mem
      BY <1>1, <2>4, <3>1
    <3> QED
      BY <1>2, <2>1, <2>4, <3>2 DEF UndoSStep, Shown, Store
  <2> QED
    BY <2>2, <2>3, <2>4
<1>3. ASSUME at = "plant", at' # "plant", stepped' = stepped,
             mem' = Store(mem, target, "sstep"),
             instrBuffer' = [memAddr |-> target,
                             oldInstr |-> IF target \in Addr THEN mem[target] ELSE "op"]
      PROVE  Shown' = Shown
  <2>1. Shown = mem /\ stepped'
    BY <1>3 DEF Shown, Stepping, Aim
  <2>2. CASE target \in Addr
    <3>1. Shown' = [mem' EXCEPT ![target] = mem[target]]
      BY <1>3, <2>1, <2>2 DEF Shown
    <3>2. mem' = mem \/ mem' = [mem EXCEPT ![target] = "sstep"]
      BY <1>3 DEF Store
    <3> QED
      BY <1>1, <2>1, <2>2, <3>1, <3>2
  <2>3. CASE target \notin Addr
    BY <1>3, <2>1, <2>3 DEF Shown, Store
  <2> QED
    BY <2>2, <2>3
<1> QED
  BY <1>2, <1>3

LEMMA StubTarget ==
  ASSUME TypeOK, TypeOK', Stepping, Stub
  PROVE  [Target!TargetNext]_(Target!tvars)
<1>0. CASE nested' \/ at' = "wild"
  BY <1>0, LosesTarget
<1>1. ASSUME ReportAcked, ~nested', at' # "wild"
      PROVE  [Target!TargetNext]_(Target!tvars)
  <2>1. CASE StubFaults(instrBuffer)
    BY <2>1, FaultsTarget
  <2>2. CASE ~StubFaults(instrBuffer)
    <3>1. at = "report" /\ at' = "wait" /\ UndoSStep /\ nested' = nested
      BY <1>1, <2>2 DEF ReportAcked, history
    <3>2. Shown' = Shown
      BY <1>1, <3>1, TrapUnseen
    <3>3. Mode' = Mode
      BY <3>1 DEF Mode
    <3> QED
      BY <3>2, <3>3 DEF Target!tvars
  <2> QED
    BY <2>1, <2>2
<1>2. ASSUME AccessWord, ~nested', at' # "wild"
      PROVE  [Target!TargetNext]_(Target!tvars)
  <2> DEFINE a == Plus(cmd.addr, cmd.done)
  <2>1. CASE CpuReset
    BY <2>1, ResetsTarget
  <2>2. CASE BusError /\ UNCHANGED <<mem, stepped, instrBuffer, nested>>
    <3>1. at = "access" /\ at' = "reply" /\ ~nested
      BY <1>2, <2>2 DEF AccessWord, BusError, Answer
    <3>2. Shown' = Shown
      BY <2>2, <3>1, SameIsSeen
    <3>3. Mode' = "stopped" /\ Mode \in {"stopped", "writing"}
      BY <1>2, <3>1 DEF Mode
    <3> QED
      BY <3>2, <3>3 DEF Target!tvars, Target!TargetNext, Target!Answer
  <2>3. CASE /\ UNCHANGED <<stub, at, history>>
             /\ mem' = IF cmd.op = "M" THEN Store(mem, a, cmd.word) ELSE mem
             /\ cmd' = [cmd EXCEPT !.done = @ + 1]
    <3>1. at = "access" /\ at' = "access" /\ UNCHANGED <<stepped, instrBuffer, nested>>
      BY <1>2, <2>3 DEF AccessWord, stub, history
    <3>2. cmd \in Cmd /\ cmd.word \in Word /\ cmd'.op = cmd.op
      BY <2>3 DEF TypeOK, Cmd
    <3>3. Mode' = Mode /\ (cmd.op = "M" => Mode = "writing")
      BY <1>2, <3>1, <3>2 DEF Mode
    <3>4. CASE cmd.op = "M"
      <4>1. Shown' = Shown \/ Target!WriteOne
        BY <2>3, <3>1, <3>2, <3>4, StoreIsSeen
      <4> QED
        BY <3>3, <3>4, <4>1 DEF Target!tvars, Target!TargetNext, Target!Write
    <3>5. CASE cmd.op # "M"
      BY <2>3, <3>1, <3>3, <3>5, SameIsSeen DEF Target!tvars
    <3> QED
      BY <3>4, <3>5
  <2> QED
    BY <1>2, <2>1, <2>2, <2>3 DEF AccessWord, stub, history
<1>3. ASSUME AccessDone \/ ReplyAcked, ~nested', at' # "wild"
      PROVE  [Target!TargetNext]_(Target!tvars)
  <2>1. /\ UNCHANGED <<mem, stepped, instrBuffer, nested>>
        /\ \/ at = "access" /\ at' = "reply"
           \/ at = "reply" /\ at' = "wait"
    BY <1>3 DEF AccessDone, ReplyAcked, Answer, stub, history
  <2>2. Shown' = Shown
    BY <2>1, SameIsSeen
  <2>3. Mode' = "stopped" /\ Mode \in {"stopped", "writing"}
    BY <1>3, <2>1 DEF Mode
  <2> QED
    BY <2>2, <2>3 DEF Target!tvars, Target!TargetNext, Target!Answer
<1>4. ASSUME StepPlant, ~nested', at' # "wild"
      PROVE  [Target!TargetNext]_(Target!tvars)
  <2>1. CASE StubFaults([instrBuffer EXCEPT !.memAddr = target])
    BY <2>1, FaultsTarget
  <2>2. CASE ~StubFaults([instrBuffer EXCEPT !.memAddr = target])
    <3>1. /\ at = "plant" /\ ReturnTo(pc) /\ at' # "plant" /\ UNCHANGED <<stepped, nested>>
          /\ instrBuffer' = [memAddr |-> target,
                             oldInstr |-> IF target \in Addr THEN mem[target] ELSE "op"]
          /\ mem' = Store(mem, target, "sstep")
      BY <1>4, <2>2 DEF StepPlant, ReturnTo
    <3>2. Shown' = Shown
      BY <1>4, <3>1, TrapUnseen
    <3> QED
      BY <3>1, <3>2, ReturnsTarget
  <2> QED
    BY <2>1, <2>2
<1>5. ASSUME DetachDone, ~nested', at' # "wild"
      PROVE  [Target!TargetNext]_(Target!tvars)
  <2>1. /\ at = "detach" /\ ReturnTo(pc) /\ UNCHANGED <<mem, stepped, instrBuffer>>
        /\ at' # "plant"
    BY <1>5 DEF DetachDone, ReturnTo
  <2> QED
    BY <2>1, SameIsSeen, ReturnsTarget
<1> QED
  BY <1>0, <1>1, <1>2, <1>3, <1>4, <1>5 DEF Stub

LEMMA OutsideTarget ==
  ASSUME TypeOK, TypeOK', Bios \/ MonitorGdb \/ StubInterrupted \/ ResetButton
  PROVE  [Target!TargetNext]_(Target!tvars)
<1>0. CASE nested' \/ at' = "wild"
  BY <1>0, LosesTarget
<1>1. ASSUME BiosReturn
      PROVE  [Target!TargetNext]_(Target!tvars)
  <2>1. /\ at = "bios" /\ ReturnTo(pc) /\ UNCHANGED <<mem, stepped, instrBuffer>>
        /\ at' # "plant"
    BY <1>1 DEF BiosReturn, ReturnTo
  <2> QED
    BY <2>1, SameIsSeen, ReturnsTarget
<1>2. ASSUME BiosBuffer, ~nested', at' # "wild"
      PROVE  [Target!TargetNext]_(Target!tvars)
  <2>1. CASE StubFaults(instrBuffer)
    BY <2>1, FaultsTarget
  <2>2. CASE ~StubFaults(instrBuffer)
    <3>1. /\ at = "bios" /\ at' = "bios" /\ UNCHANGED <<stepped, instrBuffer, nested>>
          /\ \E v \in Word : mem' = Store(mem, rf.rn, v)
      BY <1>2, <2>2, ConstantsOK DEF BiosBuffer, stub, history
    <3>2. Shown' = Shown \/ Target!WriteOne
      BY <3>1, StoreIsSeen
    <3>3. Mode = "running" /\ Mode' = "running"
      BY <1>2, <3>1 DEF Mode
    <3> QED
      BY <3>2, <3>3 DEF Target!tvars, Target!TargetNext, Target!Write
  <2> QED
    BY <2>1, <2>2
<1>3. ASSUME BiosDetach, ~nested', at' # "wild"
      PROVE  [Target!TargetNext]_(Target!tvars)
  <2>1. UNCHANGED <<mem, at, stepped, instrBuffer, nested>> /\ at = "bios"
    BY <1>3 DEF BiosDetach, history
  <2>2. Shown' = Shown /\ Mode' = Mode
    BY <2>1, SameIsSeen DEF Mode
  <2> QED
    BY <2>2 DEF Target!tvars
<1>4. CASE CpuReset
  BY <1>4, ResetsTarget
<1>5. ASSUME BiosShutdown, ~CpuReset, ~nested', at' # "wild"
      PROVE  [Target!TargetNext]_(Target!tvars)
  <2>1. /\ UNCHANGED <<mem, stepped, instrBuffer, nested>>
        /\ at = "bios" /\ at' = "halted"
    BY <1>5 DEF BiosShutdown, stub, history
  <2>2. Shown' = Shown
    BY <2>1, SameIsSeen
  <2>3. Mode = "running" /\ Mode' = "off"
    BY <1>5, <2>1 DEF Mode
  <2> QED
    BY <2>2, <2>3 DEF Target!TargetNext, Target!Reset
<1>6. ASSUME MonitorGdb, ~nested', at' # "wild"
      PROVE  [Target!TargetNext]_(Target!tvars)
  <2>1. /\ UNCHANGED <<mem, stepped, instrBuffer, nested>>
        /\ at = "monitor" /\ at' = "report"
    BY <1>6 DEF MonitorGdb, history
  <2>2. Shown' = Shown
    BY <2>1, SameIsSeen
  <2>3. Mode = "off" /\ Mode' = "stopped"
    BY <1>6, <2>1 DEF Mode
  <2> QED
    BY <2>2, <2>3 DEF Target!TargetNext, Target!Stop
<1>7. StubInterrupted => nested'
  BY DEF StubInterrupted, EnterFromStub
<1> QED
  BY <1>0, <1>1, <1>2, <1>3, <1>4, <1>5, <1>6, <1>7 DEF Bios, ResetButton

\* GdbStub implements DebugTarget: whatever traps the stub plants and takes out,
\* the host and the program see a memory that only their own writes change.
THEOREM KeepsPromise == Spec => ImplementsDebugTarget
<1>1. Init => Target!TargetInit
  <2> SUFFICES ASSUME Init PROVE Target!TargetInit
    OBVIOUS
  <2>1. Shown \in [Addr -> Word]
    BY InitTypeOK, ShownIsMemory
  <2>2. Mode = "off"
    BY DEF Init, Mode
  <2> QED
    BY <2>1, <2>2 DEF Target!TargetInit
<1>2. /\ TypeOK /\ Control /\ Stepping
      /\ (TypeOK /\ Control /\ Stepping)'
      /\ [Next]_vars
      => [Target!TargetNext]_(Target!tvars)
  <2> SUFFICES ASSUME TypeOK, TypeOK', Control, Stepping, [Next]_vars
               PROVE  [Target!TargetNext]_(Target!tvars)
    OBVIOUS
  <2>1. CASE UNCHANGED vars
    BY <2>1 DEF vars, stub, history, Shown, Mode, Target!tvars
  <2> QED
    BY <2>1, ProgramTarget, HostTarget, StubTarget, OutsideTarget DEF Next
<1> QED
  BY <1>1, <1>2, InvStepping, PTL DEF Spec, ImplementsDebugTarget, Target!TargetSpec
=============================================================================
