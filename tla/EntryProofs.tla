----------------------------- MODULE EntryProofs -----------------------------
(***************************************************************************)
(* Proofs about Entry, for any number of interrupts.                       *)
(***************************************************************************)
EXTENDS Entry, TLAPS, SequenceTheorems

----------------------------------------------------------------------------
(* The SH-3: in_nmi *)

\* From where in_nmi is cleared to the program no NMI is being served.
Rearmed == pc \in {"prog", "r0", "rte"} => ~in_nmi

LEMMA Sh3Rearmed ==
  ASSUME Rearmed, Sh3!Next
  PROVE  Rearmed'
<1> USE DEF Rearmed
<1>1. CASE Sh3!Fault \/ Sh3!Break
  BY <1>1 DEF Sh3!Fault, Sh3!Break, Sh3!Push
<1>2. CASE Sh3!Nmi
  BY <1>2 DEF Sh3!Nmi, Sh3!Push, Sh3!Through
<1>3. CASE Sh3!Irq
  BY <1>3 DEF Sh3!Irq, Sh3!Through
<1>4. CASE Sh3!Step
  BY <1>4 DEF Sh3!Step, Sh3!StoreVector, Sh3!SaveRegisters, Sh3!ReadSsr, Sh3!CallHandler,
     Sh3!HandlerReturns, Sh3!RestoreRegisters, Sh3!RestoreR15, Sh3!SetSpc, Sh3!RestorePr,
     Sh3!SetSsr, Sh3!ClearNmi, Sh3!RestoreR0, Sh3!Rte
<1>5. CASE Sh3!ProbeFault \/ Sh3!Astray \/ Sh3!Reset
  BY <1>5 DEF Sh3!ProbeFault, Sh3!Astray, Sh3!Reset
<1> QED
  BY <1>1, <1>2, <1>3, <1>4, <1>5 DEF Sh3!Next

\* in_nmi is not left set by any return, spoiled or not: the next NMI stops
\* the program again.
THEOREM NmiAgain == Spec => []NmiRearmed
<1> DEFINE Inv == processor = "sh3" => Rearmed
<1>1. Init => Inv
  BY DEF Init, Sh3!Init, Sh2!Init, Rearmed
<1>2. Inv /\ [Next]_vars => Inv'
  <2>1. CASE UNCHANGED vars
    BY <2>1 DEF vars, sh3Vars, Rearmed
  <2>2. CASE Next
    BY <2>2, Sh3Rearmed DEF Next, OnlySh3, OnlySh2
  <2> QED
    BY <2>1, <2>2
<1>3. Inv => NmiRearmed
  BY DEF NmiRearmed, Sh3!NmiRearmed, Rearmed
<1> QED
  BY <1>1, <1>2, <1>3, PTL DEF Spec

----------------------------------------------------------------------------
(* The SH-3: types *)

\* The context and the registers hold values, the stacks are stacks.
LEMMA Sh3Types ==
  ASSUME Sh3!TypeOK, Sh3!Next
  PROVE  Sh3!TypeOK'
<1> USE DEF Sh3!TypeOK, Sh3!hw, Sh3!past
<1>1. /\ Sh3!Gpr \cup Sh3!Vectors \cup {"junk"} \subseteq Sh3!Val
      /\ Sh3!Own \in [Sh3!Gpr -> Sh3!Val]
      /\ Sh3!Empty \in [{"prog", "stub"} -> Seq(Sh3!Val)]
      /\ Sh3!Steps \cup {"prog", "handler", "wild"} = Sh3!Code
  BY DEF Sh3!Own, Sh3!Val, Sh3!Empty, Sh3!Code
<1>2. /\ Sh3!Now \in [Sh3!Gpr -> Sh3!Val] /\ Sh3!NowSp \in {"prog", "stub"}
      /\ Sh3!NowStack \in [{"prog", "stub"} -> Seq(Sh3!Val)]
  BY <1>1 DEF Sh3!Now, Sh3!NowSp, Sh3!NowStack
<1>3. ASSUME NEW vec \in Sh3!Vectors, Sh3!Note(vec)
      PROVE  cause' \in Sh3!Vectors /\ clean' \in BOOLEAN /\ hits' \in 0 .. MaxHits
  <2>1. MaxHits \in Nat
    BY EntryConstantsOK DEF Sh3!ExcConstantsOK
  <2>2. hits' \in 0 .. MaxHits
    BY <1>3, <2>1 DEF Sh3!Note
  <2>3. clean' \in BOOLEAN
    BY <1>3, Zenon DEF Sh3!Note, Sh3!Harmless
  <2> QED
    BY <1>3, <2>2, <2>3 DEF Sh3!Note
<1>4. ASSUME NEW vec \in Sh3!Vectors, Sh3!Push(vec), Sh3!Note(vec), in_nmi' \in BOOLEAN
      PROVE  Sh3!TypeOK'
  <2>1. cpu' \in [Sh3!Gpr -> Sh3!Val]
    BY <1>1, <1>2, <1>4 DEF Sh3!Push, Sh3!AfterHandleError, Sh3!Gpr
  <2>2. stack' \in [{"prog", "stub"} -> Seq(Sh3!Val)]
    <3>1. <<"junk", Sh3!Now["r1"], Sh3!Now["r0"]>> \in Seq(Sh3!Val)
      BY <1>1, <1>2 DEF Sh3!Gpr
    <3>2. Sh3!NowStack[Sh3!NowSp] \o <<"junk", Sh3!Now["r1"], Sh3!Now["r0"]>> \in Seq(Sh3!Val)
      BY <1>2, <3>1
    <3> QED
      BY <1>2, <1>4, <3>2 DEF Sh3!Push
  <2>3. Sh3!Now["sr"] \in Sh3!Val
    BY <1>2 DEF Sh3!Gpr
  <2> QED
    BY <1>1, <1>2, <1>3, <1>4, <2>1, <2>2, <2>3 DEF Sh3!Push, Sh3!Steps
<1>5. ASSUME NEW vec \in Sh3!Vectors, NEW c \in [Sh3!Gpr -> Sh3!Val],
             Sh3!Through(vec, c), Sh3!Note(vec)
      PROVE  Sh3!TypeOK'
  <2>1. Sh3!Now["sr"] \in Sh3!Val
    BY <1>2 DEF Sh3!Gpr
  <2> QED
    BY <1>2, <1>3, <1>5, <2>1 DEF Sh3!Through
<1>6. CASE Sh3!Fault \/ Sh3!Break \/ Sh3!Nmi
  <2>1. {"nmi", "break"} \cup Sh3!Faults \subseteq Sh3!Vectors
    BY DEF Sh3!Vectors, Sh3!Interrupts
  <2> QED
    BY <1>2, <1>4, <1>5, <1>6, <2>1 DEF Sh3!Fault, Sh3!Break, Sh3!Nmi
<1>7. CASE Sh3!Irq
  <2>1. {"irq", "timer"} \subseteq Sh3!Vectors
    BY DEF Sh3!Vectors, Sh3!Interrupts
  <2>2. [Sh3!Now EXCEPT !["r0"] = "junk", !["r1"] = "junk", !["r2"] = "junk"]
          \in [Sh3!Gpr -> Sh3!Val]
    BY <1>1, <1>2
  <2> QED
    BY <1>2, <1>5, <1>7, <2>1, <2>2 DEF Sh3!Irq
<1>8. CASE Sh3!ProbeFault
  BY <1>1, <1>8 DEF Sh3!ProbeFault, Sh3!Gpr, Sh3!Vectors, Sh3!Faults, Sh3!Code
<1>9. CASE Sh3!Astray \/ Sh3!Reset
  BY <1>1, <1>9 DEF Sh3!Astray, Sh3!Reset
<1>10. CASE Sh3!StoreVector
  <2>1. stack[sp] \in Seq(Sh3!Val) /\ Len(stack[sp]) - 2 \in 1 .. Len(stack[sp])
    BY <1>10 DEF Sh3!StoreVector, Sh3!Framed
  <2>2. [stack[sp] EXCEPT ![Len(stack[sp]) - 2] = r2_bank] \in Seq(Sh3!Val)
    BY <1>1, <2>1, ExceptSeq
  <2>3. stack' \in [{"prog", "stub"} -> Seq(Sh3!Val)]
    BY <1>10, <2>2 DEF Sh3!StoreVector
  <2> QED
    BY <1>1, <1>10, <2>3 DEF Sh3!StoreVector, Sh3!Steps
<1>11. CASE Sh3!SaveRegisters
  <2>1. stack[sp] \in Seq(Sh3!Val) /\ Len(stack[sp]) - 3 \in Nat
    BY <1>11 DEF Sh3!SaveRegisters, Sh3!Framed
  <2>2. Sh3!Top(0) \in Sh3!Val /\ Sh3!Top(1) \in Sh3!Val /\ Sh3!Top(2) \in Sh3!Val
    BY <2>1 DEF Sh3!Top
  <2>3. registers' \in [gpr : [Sh3!Gpr -> Sh3!Val], r15 : Sh3!Sp, pc : Sh3!Code]
    BY <1>11, <2>1, <2>2 DEF Sh3!SaveRegisters, Sh3!Sp, Sh3!Gpr
  <2>4. SubSeq(stack[sp], 1, Len(stack[sp]) - 3) \in Seq(Sh3!Val)
    BY <2>1
  <2>5. stack' \in [{"prog", "stub"} -> Seq(Sh3!Val)]
    BY <1>11, <2>4 DEF Sh3!SaveRegisters
  <2> QED
    BY <1>1, <1>11, <2>2, <2>3, <2>5 DEF Sh3!SaveRegisters, Sh3!Steps
<1>12. CASE Sh3!CallHandler
  <2>1. registers' \in [gpr : [Sh3!Gpr -> Sh3!Val], r15 : Sh3!Sp, pc : Sh3!Code]
    BY <1>12 DEF Sh3!CallHandler, Sh3!Gpr
  <2> QED
    BY <1>1, <1>12, <2>1 DEF Sh3!CallHandler
<1>13. CASE Sh3!RestoreR15
  <2>1. registers.r15.in \in {"prog", "stub"} /\ registers.r15.depth \in Nat
    BY DEF Sh3!Sp
  <2>2. [i \in 1 .. registers.r15.depth |->
           IF i <= Len(stack[registers.r15.in]) THEN stack[registers.r15.in][i] ELSE "junk"]
          \in Seq(Sh3!Val)
    <3> DEFINE kept == stack[registers.r15.in]
               d == registers.r15.depth
    <3>1. kept \in Seq(Sh3!Val) /\ d \in Nat /\ "junk" \in Sh3!Val
      BY <1>1, <2>1
    <3>2. [i \in 1 .. d |-> IF i <= Len(kept) THEN kept[i] ELSE "junk"] \in [1 .. d -> Sh3!Val]
      BY <3>1
    <3>3. \A n \in Nat : [1 .. n -> Sh3!Val] \subseteq Seq(Sh3!Val)
      BY SeqDef
    <3> QED
      BY <3>1, <3>2, <3>3
  <2>3. stack' \in [{"prog", "stub"} -> Seq(Sh3!Val)]
    BY <1>13, <2>1, <2>2 DEF Sh3!RestoreR15
  <2> QED
    BY <1>1, <1>13, <2>1, <2>3 DEF Sh3!RestoreR15, Sh3!Steps
<1>14. CASE \/ Sh3!ReadSsr \/ Sh3!HandlerReturns \/ Sh3!RestoreRegisters
            \/ Sh3!SetSpc \/ Sh3!RestorePr \/ Sh3!RestoreR0 \/ Sh3!Rte
  <2>1. cpu' \in [Sh3!Gpr -> Sh3!Val]
    BY <1>1, <1>14 DEF Sh3!ReadSsr, Sh3!HandlerReturns, Sh3!RestoreRegisters, Sh3!SetSpc,
       Sh3!RestorePr, Sh3!RestoreR0, Sh3!Rte, Sh3!Gpr
  <2> QED
    BY <1>1, <1>14, <2>1 DEF Sh3!ReadSsr, Sh3!HandlerReturns, Sh3!RestoreRegisters, Sh3!SetSpc,
       Sh3!RestorePr, Sh3!RestoreR0, Sh3!Rte, Sh3!Steps
<1>15. CASE Sh3!SetSsr \/ Sh3!ClearNmi
  BY <1>1, <1>15 DEF Sh3!SetSsr, Sh3!ClearNmi, Sh3!Steps, Sh3!Gpr
<1> QED
  BY <1>6, <1>7, <1>8, <1>9, <1>10, <1>11, <1>12, <1>13, <1>14, <1>15 DEF Sh3!Next, Sh3!Step

----------------------------------------------------------------------------
(* The SH-3: the context *)

\* Registers R hold what they held in the program; a break spoils some on its own.
Holds(R) == cause # "break" => \A r \in R : cpu[r] = r
Saved(R) == cause # "break" => \A r \in R : registers.gpr[r] = r

\* The program's stack, with what the entry code has pushed; the stub's is empty.
Pushed(frame) == stack = [in \in {"prog", "stub"} |-> IF in = "prog" THEN frame ELSE <<>>]

High == {"r2", "r3", "r4", "r8"}
Scratch == {"r0", "r1"}
TopOfStack == [in |-> "prog", depth |-> 0]

\* Before handle_exception: what is still in the CPU and what is saved already.
OnTheWayIn ==
  /\ pc \in {"vector", "save"} => sp = "prog" /\ Holds(High \cup {"pr"})
  /\ pc = "vector" => r2_bank = cause /\ Pushed(<<"junk", "r1", "r0">>)
  /\ pc = "save" => Pushed(<<cause, "r1", "r0">>)
  /\ pc \in {"ssr", "spc"} =>
       /\ Pushed(<<>>) /\ registers.r15 = TopOfStack
       /\ Saved(High \cup Scratch) /\ Holds({"pr"}) /\ cpu["r4"] = cause
  /\ pc \in {"vector", "save", "ssr", "spc"} => spc = "prog" /\ ssr = "sr"
  /\ pc = "spc" => cpu["r2"] = "sr"

Restoring == {"setspc", "setpr", "setssr", "clear", "r0", "rte"}

\* From handle_exception on: what is saved, and what is in the CPU again.
OnTheWayOut ==
  /\ pc \in {"handler", "return", "r15"} \cup Restoring =>
       /\ Saved(Sh3!Gpr \ {"sr"}) /\ registers.gpr["sr"] = "sr"
       /\ registers.r15 = TopOfStack /\ registers.pc = "prog" /\ Pushed(<<>>)
  /\ pc = "handler" => cpu["r4"] = cause
  /\ pc \in {"r15"} \cup Restoring => Holds(High)
  /\ pc \in Restoring => sp = "prog"
  /\ pc \in Restoring \ {"setspc"} => spc = "prog"
  /\ pc \in {"setssr", "clear", "r0", "rte"} => Holds({"pr"})
  /\ pc \in {"clear", "r0", "rte"} => ssr = "sr"
  /\ pc = "rte" => Holds({"r0"})

\* A second NMI is fended off for as long as it should be harmless.
Fended == cause = "nmi" /\ pc \notin {"prog", "wild", "r0", "rte"} => in_nmi

Sh3Context ==
  /\ Sh3!TypeOK
  /\ clean => /\ OnTheWayIn /\ OnTheWayOut /\ Fended /\ Sh3!ContextKept
              /\ pc = "prog" \/ cause \in Sh3!Faults \cup {"break", "nmi"}

LEMMA NoteStops ==
  ASSUME NEW vec, Sh3!Note(vec), clean'
  PROVE  \/ pc = "prog" /\ cause' = vec
         \/ pc # "prog" /\ cause' = cause /\ clean /\ Sh3!Harmless(vec)
BY DEF Sh3!Note

\* An exception that stops the program is on the way in with all that it had.
LEMMA PushContext ==
  ASSUME Sh3Context, NEW vec \in Sh3!Faults \cup {"break", "nmi"}, Sh3!Push(vec),
         Sh3!Note(vec), vec = "nmi" => in_nmi',
         ~clean' \/ pc = "prog", Sh3!TypeOK'
  PROVE  Sh3Context'
<1>2. CASE ~clean'
  BY <1>2 DEF Sh3Context
<1>3. CASE clean' /\ pc = "prog"
  <2>1. /\ pc' = "vector" /\ cause' = vec /\ sp' = "prog" /\ spc' = "prog"
        /\ r2_bank' = vec
    BY <1>3, NoteStops DEF Sh3!Push, Sh3!NowSp
  <2>2. cpu' = [IF vec = "break" THEN Sh3!AfterHandleError(Sh3!Own) ELSE Sh3!Own
                  EXCEPT !["sr"] = "junk"]
    BY <1>3 DEF Sh3!Push, Sh3!Now
  <2>3. Holds(High \cup {"pr"})'
    BY <2>1, <2>2 DEF Sh3!Own, Sh3!Gpr, Holds, High
  <2>4. ssr' = "sr"
    BY <1>3 DEF Sh3!Push, Sh3!Now, Sh3!Own, Sh3!Gpr
  <2>5. stack' = [Sh3!Empty EXCEPT !["prog"] = @ \o <<"junk", "r1", "r0">>]
    BY <1>3 DEF Sh3!Push, Sh3!Now, Sh3!Own, Sh3!Gpr, Sh3!NowSp, Sh3!NowStack
  <2>6. Pushed(<<"junk", "r1", "r0">>)'
    <3>1. <<>> \o <<"junk", "r1", "r0">> = <<"junk", "r1", "r0">>
      OBVIOUS
    <3> QED
      BY <2>5, <3>1 DEF Sh3!Empty, Pushed
  <2>7. OnTheWayIn'
    BY <2>1, <2>3, <2>4, <2>6 DEF OnTheWayIn
  <2>8. OnTheWayOut' /\ Sh3!ContextKept' /\ Fended'
    BY <2>1 DEF OnTheWayOut, Sh3!ContextKept, Fended, Restoring
  <2> QED
    BY <2>1, <2>7, <2>8 DEF Sh3Context
<1> QED
  BY <1>2, <1>3

\* What returns at once uses what is not in use.
LEMMA ThroughContext ==
  ASSUME Sh3Context, NEW vec, Sh3!Through(vec, Sh3!Now), Sh3!Note(vec), Sh3!TypeOK'
  PROVE  Sh3Context'
<1>2. CASE ~clean'
  BY <1>2 DEF Sh3Context
<1>3. CASE clean' /\ pc = "prog"
  <2>1. /\ pc' = "prog" /\ cpu' = Sh3!Own /\ sp' = "prog" /\ stack' = Sh3!Empty
    BY <1>3 DEF Sh3!Through, Sh3!Now, Sh3!NowSp, Sh3!NowStack
  <2>3. Sh3!ContextKept'
    BY <2>1 DEF Sh3!ContextKept, Sh3!Empty
  <2>4. OnTheWayIn' /\ OnTheWayOut' /\ Fended'
    BY <2>1 DEF OnTheWayIn, OnTheWayOut, Fended, Restoring
  <2> QED
    BY <2>1, <2>3, <2>4 DEF Sh3Context
<1>4. CASE clean' /\ pc # "prog"
  <2>1. /\ clean /\ cause' = cause /\ pc \in {"handler", "return", "r15", "setspc"}
    BY <1>4, NoteStops DEF Sh3!Harmless
  <2>2. UNCHANGED <<pc, cpu, sp, stack, registers, in_nmi>>
    BY <1>4 DEF Sh3!Through, Sh3!Now, Sh3!NowSp, Sh3!NowStack
  <2>3. OnTheWayIn' /\ OnTheWayOut' /\ Fended' /\ Sh3!ContextKept'
    BY <2>1, <2>2 DEF Sh3Context, OnTheWayIn, OnTheWayOut, Fended, Sh3!ContextKept,
       Holds, Saved, Pushed, Restoring
  <2> QED
    BY <2>1, <2>2, <2>3 DEF Sh3Context
<1> QED
  BY <1>2, <1>3, <1>4

\* The entry code saves what the program had.
LEMMA SaveContext ==
  ASSUME Sh3Context, clean,
         Sh3!StoreVector \/ Sh3!SaveRegisters \/ Sh3!ReadSsr \/ Sh3!CallHandler
  PROVE  Sh3Context'
<1>1. Sh3!TypeOK'
  BY Sh3Types DEF Sh3Context, Sh3!Next, Sh3!Step
<1>2. UNCHANGED <<clean, cause, in_nmi>> /\ pc \in Sh3!Steps
  BY DEF Sh3!StoreVector, Sh3!SaveRegisters, Sh3!ReadSsr, Sh3!CallHandler, Sh3!past, Sh3!Steps
<1>3. /\ cpu \in [Sh3!Gpr -> Sh3!Val] /\ OnTheWayIn /\ Fended
      /\ cause \in Sh3!Faults \cup {"break", "nmi"}
  BY <1>2 DEF Sh3Context, Sh3!Steps, Sh3!TypeOK
<1>4. cause \in Sh3!Val /\ "junk" \in Sh3!Val
  BY <1>3 DEF Sh3!Val, Sh3!Vectors, Sh3!Faults, Sh3!Interrupts
<1>5. CASE Sh3!StoreVector
  <2>1. /\ pc = "vector" /\ pc' = "save" /\ sp = "prog" /\ r2_bank = cause
        /\ stack = [in \in {"prog", "stub"} |-> IF in = "prog" THEN <<"junk", "r1", "r0">> ELSE <<>>]
        /\ spc = "prog" /\ ssr = "sr" /\ UNCHANGED <<sp, spc, ssr>>
    BY <1>3, <1>5 DEF Sh3!StoreVector, OnTheWayIn, Pushed, Sh3!hw
  <2>2. Pushed(<<cause, "r1", "r0">>)'
    <3>1. /\ Len(<<"junk", "r1", "r0">>) - 2 = 1
          /\ [<<"junk", "r1", "r0">> EXCEPT ![1] = cause] = <<cause, "r1", "r0">>
      OBVIOUS
    <3>2. stack' = [stack EXCEPT !["prog"] = <<cause, "r1", "r0">>]
      BY <1>5, <2>1, <3>1 DEF Sh3!StoreVector
    <3> QED
      BY <1>2, <2>1, <3>2 DEF Pushed
  <2>3. Holds(High \cup {"pr"})'
    BY <1>2, <1>3, <1>4, <1>5, <2>1 DEF Sh3!StoreVector, OnTheWayIn, Holds, High, Sh3!Gpr
  <2> QED
    BY <1>1, <1>2, <1>3, <2>1, <2>2, <2>3 DEF Sh3Context, OnTheWayIn, OnTheWayOut, Restoring,
       Fended, Sh3!ContextKept, Sh3!Code, Sh3!Steps
<1>6. CASE Sh3!SaveRegisters
  <2>1. /\ pc = "save" /\ pc' = "ssr" /\ sp = "prog" /\ Holds(High \cup {"pr"})
        /\ stack = [in \in {"prog", "stub"} |-> IF in = "prog" THEN <<cause, "r1", "r0">> ELSE <<>>]
        /\ spc = "prog" /\ ssr = "sr" /\ UNCHANGED <<sp, spc, ssr>>
    BY <1>3, <1>6 DEF Sh3!SaveRegisters, OnTheWayIn, Pushed, Sh3!hw
  <2>2. Sh3!Top(0) = "r0" /\ Sh3!Top(1) = "r1" /\ Sh3!Top(2) = cause
    BY <2>1 DEF Sh3!Top
  <2>3. Pushed(<<>>)'
    <3>1. /\ Len(<<cause, "r1", "r0">>) - 3 = 0
          /\ SubSeq(<<cause, "r1", "r0">>, 1, 0) = <<>>
      OBVIOUS
    <3>2. stack' = [stack EXCEPT !["prog"] = <<>>]
      BY <1>6, <2>1, <3>1 DEF Sh3!SaveRegisters
    <3> QED
      BY <2>1, <3>2 DEF Pushed
  <2>4. Holds({"pr"})' /\ cpu'["r4"] = cause
    BY <1>2, <1>3, <1>4, <1>6, <2>1, <2>2 DEF Sh3!SaveRegisters, Holds, High, Sh3!Gpr
  <2>5. registers'.r15 = TopOfStack /\ Saved(High \cup Scratch)'
    <3>1. PICK g, x, p : registers = [gpr |-> [r \in Sh3!Gpr |-> g[r]], r15 |-> x, pc |-> p]
      BY DEF Sh3Context, Sh3!TypeOK
    <3>2. registers'.r15 = TopOfStack
      BY <1>6, <2>1, <3>1 DEF Sh3!SaveRegisters, TopOfStack
    <3>3. \A r \in High \cup Scratch :
            registers'.gpr[r] = IF r = "r0" THEN "r0" ELSE IF r = "r1" THEN "r1" ELSE cpu[r]
      BY <1>6, <2>2, <3>1 DEF Sh3!SaveRegisters, High, Scratch, Sh3!Gpr
    <3> QED
      BY <1>2, <2>1, <3>2, <3>3 DEF Saved, Holds, High, Scratch
  <2> QED
    BY <1>1, <1>2, <1>3, <2>1, <2>3, <2>4, <2>5 DEF Sh3Context, OnTheWayIn, OnTheWayOut,
       Restoring, Fended, Sh3!ContextKept, Sh3!Code, Sh3!Steps
<1>7. CASE Sh3!ReadSsr
  <2>1. /\ pc = "ssr" /\ pc' = "spc" /\ ssr = "sr" /\ spc = "prog"
        /\ cpu' = [cpu EXCEPT !["r2"] = ssr]
        /\ UNCHANGED <<sp, stack, spc, ssr, registers>>
    BY <1>3, <1>7 DEF Sh3!ReadSsr, Sh3!hw, OnTheWayIn
  <2>2. cpu'["r2"] = "sr" /\ cpu'["r4"] = cause
        /\ Holds({"pr"})'
    BY <1>2, <1>3, <2>1 DEF OnTheWayIn, Holds, Sh3!Gpr, Sh3!Val
  <2> QED
    BY <1>1, <1>2, <1>3, <2>1, <2>2 DEF Sh3Context, OnTheWayIn, OnTheWayOut, Restoring,
       Fended, Sh3!ContextKept, Sh3!Code, Sh3!Steps, Pushed, Saved
<1>8. CASE Sh3!CallHandler
  <2>1. /\ pc = "spc" /\ pc' = "handler" /\ UNCHANGED <<cpu>> /\ spc = "prog"
        /\ Pushed(<<>>) /\ registers.r15 = TopOfStack
        /\ Saved(High \cup Scratch) /\ Holds({"pr"}) /\ cpu["r2"] = "sr" /\ cpu["r4"] = cause
    BY <1>3, <1>8 DEF Sh3!CallHandler, OnTheWayIn
  <2>2. Pushed(<<>>)'
    BY <1>8, <2>1 DEF Sh3!CallHandler, Pushed
  <2>3. /\ Saved(Sh3!Gpr \ {"sr"})' /\ registers'.gpr["sr"] = "sr"
        /\ registers'.r15 = TopOfStack /\ registers'.pc = "prog"
    <3>1. PICK g, x, p : registers = [gpr |-> [r \in Sh3!Gpr |-> g[r]], r15 |-> x, pc |-> p]
      BY DEF Sh3Context, Sh3!TypeOK
    <3>2. /\ registers'.r15 = TopOfStack /\ registers'.pc = "prog"
          /\ registers'.gpr["sr"] = "sr" /\ registers'.gpr["pr"] = cpu["pr"]
          /\ \A r \in Sh3!Gpr \ {"sr", "pr"} : registers'.gpr[r] = registers.gpr[r]
      BY <1>8, <2>1, <3>1 DEF Sh3!CallHandler, Sh3!Gpr
    <3> QED
      BY <1>2, <2>1, <3>2 DEF Saved, Holds, High, Scratch, Sh3!Gpr
  <2> QED
    BY <1>1, <1>2, <1>3, <2>1, <2>2, <2>3 DEF Sh3Context, OnTheWayIn, OnTheWayOut, Restoring,
       Fended, Sh3!ContextKept, Sh3!Code, Sh3!Steps
<1> QED
  BY <1>5, <1>6, <1>7, <1>8

\* The entry code loads what it saved.
LEMMA RestoreContext ==
  ASSUME Sh3Context, clean,
         \/ Sh3!HandlerReturns \/ Sh3!RestoreRegisters \/ Sh3!RestoreR15 \/ Sh3!SetSpc
         \/ Sh3!RestorePr \/ Sh3!SetSsr \/ Sh3!ClearNmi \/ Sh3!RestoreR0 \/ Sh3!Rte
  PROVE  Sh3Context'
<1>1. Sh3!TypeOK'
  BY Sh3Types DEF Sh3Context, Sh3!Next, Sh3!Step
<1>2. /\ UNCHANGED <<clean, cause, registers>>
      /\ pc \in {"handler", "return", "r15"} \cup Restoring
  BY DEF Sh3!HandlerReturns, Sh3!RestoreRegisters, Sh3!RestoreR15, Sh3!SetSpc, Sh3!RestorePr,
     Sh3!SetSsr, Sh3!ClearNmi, Sh3!RestoreR0, Sh3!Rte, Sh3!past, Restoring
<1>3. /\ cpu \in [Sh3!Gpr -> Sh3!Val] /\ OnTheWayOut /\ Fended
      /\ cause \in Sh3!Faults \cup {"break", "nmi"}
  BY <1>2 DEF Sh3Context, Restoring, Sh3!TypeOK
<1>4. /\ Saved(Sh3!Gpr \ {"sr"}) /\ registers.gpr["sr"] = "sr"
      /\ registers.r15 = TopOfStack /\ registers.pc = "prog" /\ Pushed(<<>>)
  BY <1>2, <1>3 DEF OnTheWayOut
<1>5. Saved(Sh3!Gpr \ {"sr"})' /\ registers'.gpr["sr"] = "sr"
      /\ registers'.r15 = TopOfStack /\ registers'.pc = "prog"
  BY <1>2, <1>4 DEF Saved
<1>6. Sh3!Gpr = High \cup Scratch \cup {"pr", "sr"}
  BY DEF Sh3!Gpr, High, Scratch
<1>7. Fended' /\ OnTheWayIn'
  <2>1. pc' \in {"return", "r15", "prog"} \cup Restoring
    BY <1>3 DEF OnTheWayOut, Restoring, Sh3!HandlerReturns, Sh3!RestoreRegisters,
       Sh3!RestoreR15, Sh3!SetSpc, Sh3!RestorePr, Sh3!SetSsr, Sh3!ClearNmi, Sh3!RestoreR0, Sh3!Rte
  <2>2. \/ pc' \in {"prog", "r0", "rte"}
        \/ UNCHANGED in_nmi /\ pc \notin {"prog", "wild", "r0", "rte"}
    BY <1>3 DEF OnTheWayOut, Restoring, Sh3!HandlerReturns, Sh3!RestoreRegisters,
       Sh3!RestoreR15, Sh3!SetSpc, Sh3!RestorePr, Sh3!SetSsr, Sh3!ClearNmi, Sh3!RestoreR0, Sh3!Rte
  <2>3. Fended'
    BY <1>2, <1>3, <2>2 DEF Fended
  <2> QED
    BY <2>1, <2>3 DEF OnTheWayIn, Restoring
<1>8. CASE Sh3!HandlerReturns
  BY <1>1, <1>2, <1>3, <1>4, <1>5, <1>7, <1>8 DEF Sh3!HandlerReturns, Sh3Context, OnTheWayOut,
     Restoring, Sh3!ContextKept, Pushed
<1>9. CASE Sh3!RestoreRegisters
  <2>1. Holds(High)'
    BY <1>2, <1>4, <1>6, <1>9 DEF Sh3!RestoreRegisters, Holds, Saved, High
  <2> QED
    BY <1>1, <1>2, <1>3, <1>4, <1>5, <1>7, <1>9, <2>1 DEF Sh3!RestoreRegisters, Sh3Context,
       OnTheWayOut, Restoring, Sh3!ContextKept, Pushed
<1>10. CASE Sh3!RestoreR15
  <2>1. registers.r15.in = "prog" /\ registers.r15.depth = 0
    BY <1>4 DEF TopOfStack
  <2>2. [i \in 1 .. 0 |-> IF i <= Len(stack["prog"]) THEN stack["prog"][i] ELSE "junk"] = <<>>
    OBVIOUS
  <2>3. Pushed(<<>>)' /\ sp' = "prog"
    BY <1>4, <1>10, <2>1, <2>2 DEF Sh3!RestoreR15, Pushed
  <2>4. Holds(High)'
    BY <1>2, <1>3, <1>10 DEF Sh3!RestoreR15, OnTheWayOut, Holds
  <2> QED
    BY <1>1, <1>2, <1>3, <1>5, <1>7, <1>10, <2>3, <2>4 DEF Sh3!RestoreR15, Sh3Context,
       OnTheWayOut, Restoring, Sh3!ContextKept
<1>11. CASE \/ Sh3!SetSpc \/ Sh3!RestorePr \/ Sh3!SetSsr \/ Sh3!ClearNmi \/ Sh3!RestoreR0
  <2>1. pc' \in Restoring \ {"setspc"} /\ sp' = "prog" /\ UNCHANGED stack
    BY <1>3, <1>11 DEF OnTheWayOut, Sh3!SetSpc, Sh3!RestorePr, Sh3!SetSsr, Sh3!ClearNmi, Sh3!RestoreR0, Restoring
  <2>2. spc' = "prog"
    BY <1>3, <1>4, <1>11 DEF OnTheWayOut, Restoring, Sh3!SetSpc,
       Sh3!RestorePr, Sh3!SetSsr, Sh3!ClearNmi, Sh3!RestoreR0, Sh3!hw
  <2>3. \A r \in High : cpu'[r] = cpu[r]
    <3>1. \/ cpu' = cpu
          \/ \E v : cpu' = [cpu EXCEPT !["r0"] = v]
          \/ \E v : cpu' = [cpu EXCEPT !["pr"] = v]
      BY <1>11 DEF Sh3!SetSpc, Sh3!RestorePr, Sh3!SetSsr, Sh3!ClearNmi, Sh3!RestoreR0
    <3> QED
      BY <1>3, <1>6, <3>1 DEF High
  <2>4. Holds(High)'
    <3>1. Holds(High)
      BY <1>3, <1>11 DEF OnTheWayOut, Restoring, Sh3!SetSpc, Sh3!RestorePr, Sh3!SetSsr,
         Sh3!ClearNmi, Sh3!RestoreR0
    <3> QED
      BY <1>2, <2>3, <3>1 DEF Holds
  <2>5. pc' \in {"setssr", "clear", "r0", "rte"} => Holds({"pr"})'
    <3>1. CASE Sh3!SetSpc
      BY <3>1 DEF Sh3!SetSpc
    <3>2. CASE Sh3!RestorePr
      <4>1. cause # "break" => registers.gpr["pr"] = "pr"
        BY <1>4, <1>6 DEF Saved
      <4>2. cpu'["pr"] = registers.gpr["pr"]
        BY <1>3, <1>6, <3>2 DEF Sh3!RestorePr
      <4> QED
        BY <1>2, <4>1, <4>2 DEF Holds
    <3>3. CASE Sh3!SetSsr \/ Sh3!ClearNmi \/ Sh3!RestoreR0
      <4>1. Holds({"pr"})
        BY <1>3, <3>3 DEF OnTheWayOut, Sh3!SetSsr, Sh3!ClearNmi, Sh3!RestoreR0
      <4>2. cpu'["pr"] = cpu["pr"]
        <5>1. cpu' = cpu \/ cpu' = [cpu EXCEPT !["r0"] = registers.gpr["r0"]]
          BY <3>3 DEF Sh3!SetSsr, Sh3!ClearNmi, Sh3!RestoreR0
        <5> QED
          BY <1>3, <1>6, <5>1
      <4> QED
        BY <1>2, <4>1, <4>2 DEF Holds
    <3> QED
      BY <1>11, <3>1, <3>2, <3>3
  <2>6. pc' \in {"clear", "r0", "rte"} => ssr' = "sr"
    BY <1>3, <1>4, <1>11 DEF OnTheWayOut, Sh3!SetSpc,
       Sh3!RestorePr, Sh3!SetSsr, Sh3!ClearNmi, Sh3!RestoreR0, Sh3!hw
  <2>7. pc' = "rte" => Holds({"r0"})'
    BY <1>2, <1>3, <1>4, <1>6, <1>11 DEF Holds, Saved, Scratch, Sh3!SetSpc,
       Sh3!RestorePr, Sh3!SetSsr, Sh3!ClearNmi, Sh3!RestoreR0
  <2>8. OnTheWayOut'
    BY <1>4, <1>5, <2>1, <2>2, <2>4, <2>5, <2>6, <2>7 DEF OnTheWayOut, Restoring, Pushed
  <2> QED
    BY <1>1, <1>2, <1>3, <1>7, <2>1, <2>8 DEF Sh3Context, Restoring, Sh3!ContextKept
<1>12. CASE Sh3!Rte
  <2>1. pc' = "prog" /\ sp' = "prog" /\ stack'["prog"] = <<>>
    BY <1>3, <1>4, <1>12 DEF Sh3!Rte, OnTheWayOut, Restoring, Pushed
  <2>2. cause # "break" => cpu' = Sh3!Own
    <3>1. cause # "break" => \A r \in Sh3!Gpr : cpu'[r] = r
      BY <1>3, <1>4, <1>6, <1>12 DEF Sh3!Rte, OnTheWayOut, Restoring, Holds, Saved, Scratch
    <3>2. cpu' \in [Sh3!Gpr -> Sh3!Val]
      BY <1>1 DEF Sh3!TypeOK
    <3> QED
      BY <3>1, <3>2 DEF Sh3!Own
  <2> QED
    BY <1>1, <1>2, <1>7, <2>1, <2>2 DEF Sh3Context, OnTheWayOut, Restoring, Sh3!ContextKept
<1> QED
  BY <1>8, <1>9, <1>10, <1>11, <1>12

LEMMA Sh3ContextStays ==
  ASSUME Sh3Context, Sh3!Next
  PROVE  Sh3Context'
<1>1. Sh3!TypeOK'
  BY Sh3Types DEF Sh3Context
<1>2. CASE Sh3!Fault \/ Sh3!Break
  <2>1. PICK vec \in Sh3!Faults \cup {"break"} : Sh3!Push(vec) /\ Sh3!Note(vec)
    BY <1>2 DEF Sh3!Fault, Sh3!Break
  <2>2. ~Sh3!Harmless(vec) /\ vec # "nmi"
    BY DEF Sh3!Harmless, Sh3!Faults
  <2> QED
    BY <1>1, <2>1, <2>2, NoteStops, PushContext
<1>3. CASE Sh3!Nmi
  <2>1. CASE Sh3!Push("nmi") /\ Sh3!Note("nmi") /\ in_nmi' = TRUE /\ ~in_nmi
    <3>1. ~clean' \/ pc = "prog"
      <4>1. CASE clean' /\ pc # "prog"
        <5>1. clean /\ cause = "nmi" /\ pc \in {"handler", "return", "r15", "setspc"}
          BY <2>1, <4>1, NoteStops DEF Sh3!Harmless
        <5>2. in_nmi
          BY <5>1 DEF Sh3Context, Fended
        <5> QED
          BY <2>1, <5>2
      <4> QED
        BY <4>1
    <3> QED
      BY <1>1, <2>1, <3>1, PushContext
  <2> QED
    BY <1>1, <1>3, <2>1, ThroughContext DEF Sh3!Nmi
<1>4. CASE Sh3!Irq
  <2>1. CASE Sh3!Note("timer") /\ ~clean'
    BY <1>1, <2>1 DEF Sh3Context
  <2>2. CASE Sh3!Note("timer") /\ clean'
    <3>1. pc = "prog" /\ cause' = "timer"
      BY <2>2, NoteStops DEF Sh3!Harmless
    <3>2. pc' = "prog"
      BY <1>4, <3>1 DEF Sh3!Irq, Sh3!Through
    <3> QED
      BY <1>1, <3>1, <3>2 DEF Sh3Context, OnTheWayIn, OnTheWayOut, Fended, Sh3!ContextKept,
         Restoring
  <2> QED
    BY <1>1, <1>4, <2>1, <2>2, ThroughContext DEF Sh3!Irq
<1>5. CASE Sh3!ProbeFault
  <2>1. pc = "handler" /\ UNCHANGED <<pc, cpu, sp, stack, registers, in_nmi, cause, clean>>
    BY <1>5 DEF Sh3!ProbeFault, Sh3!past
  <2> QED
    BY <1>1, <2>1 DEF Sh3Context, OnTheWayIn, OnTheWayOut, Fended, Sh3!ContextKept, Restoring,
       Holds, Saved, Pushed
<1>6. CASE Sh3!Step
  <2>1. clean' = clean
    BY <1>6 DEF Sh3!Step, Sh3!StoreVector, Sh3!SaveRegisters, Sh3!ReadSsr, Sh3!CallHandler,
       Sh3!HandlerReturns, Sh3!RestoreRegisters, Sh3!RestoreR15, Sh3!SetSpc, Sh3!RestorePr,
       Sh3!SetSsr, Sh3!ClearNmi, Sh3!RestoreR0, Sh3!Rte, Sh3!past
  <2> QED
    BY <1>1, <1>6, <2>1, SaveContext, RestoreContext DEF Sh3!Step, Sh3Context
<1>7. CASE Sh3!Astray
  <2>1. ~clean
    BY <1>7 DEF Sh3!Astray, Sh3!Framed, Sh3Context, OnTheWayIn, Pushed
  <2> QED
    BY <1>1, <1>7, <2>1 DEF Sh3!Astray, Sh3Context, Sh3!past
<1>8. CASE Sh3!Reset
  BY <1>1, <1>8 DEF Sh3!Reset, Sh3Context, OnTheWayIn, OnTheWayOut, Fended, Sh3!ContextKept,
     Restoring, Sh3!Empty
<1> QED
  BY <1>2, <1>3, <1>4, <1>5, <1>6, <1>7, <1>8 DEF Sh3!Next

----------------------------------------------------------------------------
(* The SH-2 *)

Loading == {"pc", "sr", "r1", "rte"}

\* Where R15 is, and what no interrupt reaches of the stack above it.
Sh2Frame ==
  /\ pc = "trap" => r15 = Sh2!Base - 2
  /\ pc = "vector" => r15 = Sh2!Base - 4
  /\ pc \in {"save", "call", "handler", "return"} => r15 = Sh2!Base - 5
  /\ pc = "pc" => r15 = registers.r15 - 1
  /\ pc \in {"sr", "r1", "rte"} => r15 = registers.r15 - 2
  /\ registers.r15 \in {Sh2!Base - 1, Sh2!Base, Sh2!Base + 1}
  /\ pc \in {"trap", "vector", "save"} =>
       words[Sh2!Base - 1] = "sr" /\ words[Sh2!Base - 2] = "prog"
  /\ pc \in {"call", "handler", "return"} \cup Loading => registers.pc = "prog"
  /\ pc \in {"sr", "r1", "rte"} => words[r15] = "prog"
  /\ pc \in {"r1", "rte"} => words[r15 + 1] = registers.gpr["sr"]
  /\ words[Sh2!Base + 1] = "data"
  /\ pc \notin {"prog", "wild"} => cause = "trap"

Has(R) == \A r \in R : cpu[r] = r

\* What the program had, while no timer interrupt has spoiled it.
Sh2Kept ==
  /\ pc # "wild"
  /\ pc \in {"trap", "vector", "save"} => Has(Sh2!Gpr \ {"r0"})
  /\ pc = "trap" => cpu["r0"] = "r0"
  /\ pc = "vector" => cpu["r0"] = "trap"
  /\ pc \in {"vector", "save"} => words[Sh2!Base - 3] = "r0" /\ words[Sh2!Base - 4] = "r1"
  /\ pc \in {"save", "call"} => words[Sh2!Base - 5] = "trap"
  /\ pc \in {"call", "handler", "return"} \cup Loading => registers.gpr = Sh2!Own
  /\ pc = "handler" => cpu["r4"] = "trap"
  /\ pc \in Loading => Has({"r2", "r4", "r8"})
  /\ pc \in {"sr", "r1", "rte"} => Has({"pr"})
  /\ pc = "rte" => Has({"r0", "r1"})
  /\ Sh2!ContextKept

Sh2Context == Sh2!TypeOK /\ Sh2Frame /\ (clean => Sh2Kept)

\* The numbers of the words, and what the words, the registers and the places can hold.
LEMMA Sh2Places ==
  /\ FREE \in Nat /\ FREE >= 8 /\ Sh2!Base = FREE + 1 /\ Sh2!Word = 1 .. Sh2!Base + 1
  /\ Sh2!Fresh \in [Sh2!Word -> {"junk", "data"}]
  /\ Sh2!Fresh[Sh2!Base + 1] = "data"
  /\ Sh2!Own \in [Sh2!Gpr -> Sh2!Val]
  /\ {"sr", "prog", "junk", "data", "trap"} \subseteq Sh2!Val
  /\ Sh2!Gpr = {"r0", "r1", "r2", "r4", "r8", "pr", "sr"}
BY EntryConstantsOK DEF Sh2!Sh2ConstantsOK, Sh2!Base, Sh2!Word, Sh2!Fresh, Sh2!Own, Sh2!Gpr,
   Sh2!Val, Sh2!Code, Sh2!Vectors

\* An interrupt uses what lies below R15.
LEMMA Sh2Pushed ==
  ASSUME Sh2Context, pc # "wild"
  PROVE  /\ Sh2!NowR15 \in 3 .. Sh2!Base + 1 /\ Sh2!Now \in [Sh2!Gpr -> Sh2!Val]
         /\ Sh2!Pushed \in [Sh2!Word -> Sh2!Val]
         /\ \A k \in Sh2!Word : k >= Sh2!NowR15 => Sh2!Pushed[k] = Sh2!NowWords[k]
         /\ Sh2!Pushed[Sh2!Base + 1] = "data"
<1>1. Sh2!NowR15 \in 3 .. Sh2!Base + 1
  <2>1. CASE pc = "prog"
    BY <2>1, Sh2Places DEF Sh2!NowR15
  <2>2. CASE pc # "prog"
    <3>1. pc \in Sh2!Steps \cup {"handler"}
      BY <2>2 DEF Sh2Context, Sh2!TypeOK, Sh2!Code
    <3>2. registers.r15 \in Sh2!Base - 1 .. Sh2!Base + 1
      BY Sh2Places DEF Sh2Context, Sh2Frame
    <3> QED
      BY <2>2, <3>1, <3>2, Sh2Places DEF Sh2!NowR15, Sh2Context, Sh2Frame, Sh2!Steps
  <2> QED
    BY <2>1, <2>2
<1>2. Sh2!NowWords \in [Sh2!Word -> Sh2!Val] /\ Sh2!NowWords[Sh2!Base + 1] = "data"
  BY Sh2Places DEF Sh2!NowWords, Sh2Context, Sh2!TypeOK, Sh2Frame
<1>3. Sh2!Now \in [Sh2!Gpr -> Sh2!Val]
  BY Sh2Places DEF Sh2!Now, Sh2Context, Sh2!TypeOK
<1> QED
  BY <1>1, <1>2, <1>3, Sh2Places DEF Sh2!Pushed

\* What an interrupt leaves of the program's is enough to go on with.
LEMMA Sh2Interrupted ==
  ASSUME Sh2Context, Sh2!do_IRQ \/ Sh2!do_timer
  PROVE  Sh2Context'
<1>1. pc # "wild" /\ words' = Sh2!Pushed /\ r15' = Sh2!NowR15 /\ UNCHANGED registers
  BY DEF Sh2!do_IRQ, Sh2!do_timer
<1>2. /\ Sh2!NowR15 \in 3 .. Sh2!Base + 1 /\ Sh2!Now \in [Sh2!Gpr -> Sh2!Val]
      /\ Sh2!Pushed \in [Sh2!Word -> Sh2!Val]
      /\ \A k \in Sh2!Word : k >= Sh2!NowR15 => Sh2!Pushed[k] = Sh2!NowWords[k]
      /\ Sh2!Pushed[Sh2!Base + 1] = "data"
  BY <1>1, Sh2Pushed
<1>3. PICK vec \in Sh2!Through : Sh2!Note(vec) /\ (clean' /\ pc # "prog" => Sh2!do_IRQ)
  <2>1. CASE Sh2!do_IRQ
    BY <2>1 DEF Sh2!do_IRQ
  <2>2. CASE Sh2!do_timer
    BY <2>2 DEF Sh2!do_timer, Sh2!Note, Sh2!Through
  <2> QED
    BY <2>1, <2>2
<1>4. pc' \in {pc, "wild"} /\ (pc = "prog" => pc' = pc)
  BY DEF Sh2!do_IRQ, Sh2!do_timer
<1>5. Sh2!TypeOK'
  <2>1. cpu' \in [Sh2!Gpr -> Sh2!Val]
    BY <1>2, Sh2Places DEF Sh2!do_IRQ, Sh2!do_timer
  <2>2. cause' \in Sh2!Vectors
    BY <1>3 DEF Sh2!Note, Sh2!Vectors, Sh2Context, Sh2!TypeOK
  <2>3. hits' \in 0 .. MaxHits
    BY <1>3, EntryConstantsOK DEF Sh2!Note, Sh2!Sh2ConstantsOK, Sh2Context, Sh2!TypeOK
  <2>4. clean' \in BOOLEAN
    BY <1>3, Zenon DEF Sh2!Note, Sh2Context, Sh2!TypeOK
  <2> QED
    BY <1>1, <1>2, <1>4, <2>1, <2>2, <2>3, <2>4, Sh2Places DEF Sh2Context, Sh2!TypeOK, Sh2!Code
<1>6. CASE pc = "prog"
  <2>1. pc' = "prog" /\ cause' # "trap"
    BY <1>3, <1>4, <1>6 DEF Sh2!Note, Sh2!Through
  <2>2. Sh2Frame'
    BY <1>1, <1>2, <2>1, Sh2Places DEF Sh2Context, Sh2Frame, Loading, Sh2!Base
  <2>3. Sh2Kept'
    BY <2>1 DEF Sh2Kept, Loading, Sh2!ContextKept
  <2> QED
    BY <1>5, <2>2, <2>3 DEF Sh2Context
<1>7. CASE pc # "prog"
  <2>1. Sh2!NowR15 = r15 /\ Sh2!NowWords = words /\ Sh2!Now = cpu /\ cause' = cause
    BY <1>3, <1>7 DEF Sh2!NowR15, Sh2!NowWords, Sh2!Now, Sh2!Note
  <2>2. \A k \in Sh2!Word : k >= r15 => words'[k] = words[k]
    BY <1>1, <1>2, <2>1
  <2>3. Sh2Frame'
    <3>1. Sh2Frame
      BY DEF Sh2Context
    <3>2. CASE pc' = "wild"
      BY <1>1, <1>2, <3>1, <3>2, Sh2Places DEF Sh2Frame, Loading, Sh2!Base
    <3>3. CASE pc' = pc
      <4>1. UNCHANGED <<pc, r15, registers, cause>>
        BY <1>1, <2>1, <3>3
      <4>2. pc \in {"trap", "vector", "save"} =>
              words'[Sh2!Base - 1] = "sr" /\ words'[Sh2!Base - 2] = "prog"
        BY <2>2, <3>1, Sh2Places DEF Sh2Frame
      <4>3. pc \in {"sr", "r1", "rte"} => words'[r15] = "prog"
        BY <2>2, <3>1, Sh2Places DEF Sh2Frame
      <4>4. pc \in {"r1", "rte"} => words'[r15 + 1] = registers.gpr["sr"]
        BY <2>2, <3>1, Sh2Places DEF Sh2Frame
      <4>5. words'[Sh2!Base + 1] = "data"
        BY <1>1, <1>2
      <4> QED
        BY <3>1, <4>1, <4>2, <4>3, <4>4, <4>5 DEF Sh2Frame, Sh2!Base, Loading
    <3> QED
      BY <1>4, <3>2, <3>3
  <2>4. ASSUME clean'
        PROVE  Sh2Kept'
    <3>1. Sh2!do_IRQ
      BY <1>3, <1>7, <2>4
    <3>2. clean /\ Sh2Kept /\ Sh2Frame /\ UNCHANGED <<pc, cpu, r15, registers>>
      BY <1>1, <1>3, <1>7, <2>1, <2>4, <3>1 DEF Sh2!do_IRQ, Sh2!Note, Sh2Context
    <3>3. pc \in {"vector", "save"} =>
            words'[Sh2!Base - 3] = "r0" /\ words'[Sh2!Base - 4] = "r1"
      BY <2>2, <3>2, Sh2Places DEF Sh2Frame, Sh2Kept
    <3>4. pc \in {"save", "call"} => words'[Sh2!Base - 5] = "trap"
      BY <2>2, <3>2, Sh2Places DEF Sh2Frame, Sh2Kept
    <3> QED
      BY <1>7, <3>2, <3>3, <3>4 DEF Sh2Kept, Has, Loading, Sh2!ContextKept, Sh2!Base
  <2> QED
    BY <1>5, <2>3, <2>4 DEF Sh2Context
<1> QED
  BY <1>6, <1>7

\* TRAPA and what the entry code pushes.
LEMMA Sh2Pushes ==
  ASSUME Sh2Context, Sh2!Trapa \/ Sh2!PushR0R1 \/ Sh2!PushVector
  PROVE  Sh2Context'
<1> USE Sh2Places
<1>1. Sh2!TypeOK /\ Sh2Frame /\ UNCHANGED registers
  BY DEF Sh2Context, Sh2!Trapa, Sh2!PushR0R1, Sh2!PushVector
<1>2. CASE Sh2!Trapa
  <2>1. /\ pc' = "trap" /\ cause' = "trap" /\ clean' = TRUE /\ hits' = 0 /\ cpu' = Sh2!Own
        /\ r15' = Sh2!Base - 2
        /\ words' = [Sh2!Fresh EXCEPT ![Sh2!Base - 1] = "sr", ![Sh2!Base - 2] = "prog"]
    BY <1>2 DEF Sh2!Trapa, Sh2!Note
  <2>2. Sh2!TypeOK'
    BY <1>1, <2>1, EntryConstantsOK DEF Sh2!TypeOK, Sh2!Code, Sh2!Steps, Sh2!Vectors,
       Sh2!Sh2ConstantsOK
  <2>3. Sh2Frame'
    BY <1>1, <2>1 DEF Sh2Frame, Loading, Sh2!Base
  <2>4. Sh2Kept'
    BY <2>1 DEF Sh2Kept, Loading, Sh2!ContextKept, Has, Sh2!Own
  <2> QED
    BY <2>2, <2>3, <2>4 DEF Sh2Context
<1>3. CASE Sh2!PushR0R1
  <2>1. /\ pc = "trap" /\ pc' = "vector" /\ r15 = Sh2!Base - 2 /\ r15' = Sh2!Base - 4
        /\ words' = [words EXCEPT ![Sh2!Base - 3] = cpu["r0"], ![Sh2!Base - 4] = cpu["r1"]]
        /\ cpu' = [cpu EXCEPT !["r0"] = "trap"] /\ UNCHANGED <<cause, clean, hits>>
    BY <1>1, <1>3 DEF Sh2!PushR0R1, Sh2!past, Sh2Frame
  <2>2. Sh2!TypeOK'
    BY <1>1, <2>1 DEF Sh2!TypeOK, Sh2!Code, Sh2!Steps
  <2>3. Sh2Frame'
    BY <1>1, <2>1 DEF Sh2!TypeOK, Sh2Frame, Loading, Sh2!Base
  <2>4. clean => Sh2Kept'
    <3>1. clean => Has(Sh2!Gpr)
      BY <2>1 DEF Sh2Context, Sh2Kept, Has
    <3> QED
      BY <1>1, <2>1, <3>1 DEF Sh2!TypeOK, Sh2Kept, Loading, Sh2!ContextKept, Has, Sh2!Base
  <2> QED
    BY <2>1, <2>2, <2>3, <2>4 DEF Sh2Context
<1>4. CASE Sh2!PushVector
  <2>1. /\ pc = "vector" /\ pc' = "save" /\ r15 = Sh2!Base - 4 /\ r15' = Sh2!Base - 5
        /\ words' = [words EXCEPT ![Sh2!Base - 5] = cpu["r0"]]
        /\ UNCHANGED <<cpu, cause, clean, hits>>
    BY <1>1, <1>4 DEF Sh2!PushVector, Sh2!past, Sh2Frame
  <2>2. Sh2!TypeOK'
    BY <1>1, <2>1 DEF Sh2!TypeOK, Sh2!Code, Sh2!Steps
  <2>3. Sh2Frame'
    BY <1>1, <2>1 DEF Sh2!TypeOK, Sh2Frame, Loading, Sh2!Base
  <2>4. clean => Sh2Kept'
    BY <1>1, <2>1 DEF Sh2Context, Sh2!TypeOK, Sh2Kept, Loading, Sh2!ContextKept, Has, Sh2!Base
  <2> QED
    BY <2>1, <2>2, <2>3, <2>4 DEF Sh2Context
<1> QED
  BY <1>2, <1>3, <1>4

\* From the frame to the context in RAM, and to handle_exception and back.
LEMMA Sh2Saves ==
  ASSUME Sh2Context, Sh2!SaveRegisters \/ Sh2!CallHandler \/ Sh2!HandlerReturns
  PROVE  Sh2Context'
<1> USE Sh2Places
<1>1. Sh2!TypeOK /\ Sh2Frame /\ r15 = Sh2!Base - 5 /\ UNCHANGED <<r15, cause, clean, hits>>
  BY DEF Sh2Context, Sh2Frame, Sh2!SaveRegisters, Sh2!CallHandler, Sh2!HandlerReturns, Sh2!past
<1>2. CASE Sh2!SaveRegisters
  <2> DEFINE g == [r \in Sh2!Gpr |-> CASE r = "sr" -> words[r15 + 4]
                                      [] r = "r1" -> words[r15 + 1]
                                      [] r = "r0" -> words[r15 + 2]
                                      [] OTHER -> cpu[r]]
  <2>1. /\ pc = "save" /\ pc' = "call" /\ UNCHANGED words
        /\ registers' = [gpr |-> g, pc |-> "prog", r15 |-> Sh2!Base]
        /\ cpu' = [cpu EXCEPT !["r0"] = "junk", !["r1"] = "junk"]
    <3>1. r15 + 5 = Sh2!Base /\ r15 + 3 = Sh2!Base - 2
      BY <1>1
    <3>2. words[r15 + 3] = "prog"
      BY <1>1, <1>2, <3>1 DEF Sh2!SaveRegisters, Sh2Frame
    <3>3. registers' = [gpr |-> g, pc |-> words[r15 + 3], r15 |-> r15 + 5]
      BY <1>2 DEF Sh2!SaveRegisters
    <3> QED
      BY <1>2, <3>1, <3>2, <3>3 DEF Sh2!SaveRegisters
  <2>2. g \in [Sh2!Gpr -> Sh2!Val]
    BY <1>1 DEF Sh2!TypeOK
  <2>3. Sh2!TypeOK'
    <3>1. Sh2!Base \in Sh2!Word /\ "prog" \in Sh2!Code /\ "call" \in Sh2!Code
      BY DEF Sh2!Code, Sh2!Steps
    <3>2. registers' \in [gpr : [Sh2!Gpr -> Sh2!Val], r15 : Sh2!Word, pc : Sh2!Code]
      <4> HIDE DEF g
      <4> QED
        BY <2>1, <2>2, <3>1
    <3> QED
      BY <1>1, <2>1, <3>1, <3>2 DEF Sh2!TypeOK
  <2>4. Sh2Frame'
    BY <1>1, <2>1 DEF Sh2!TypeOK, Sh2Frame, Loading, Sh2!Base
  <2>5. clean => Sh2Kept'
    <3>1. clean => /\ Has(Sh2!Gpr \ {"r0"}) /\ words[Sh2!Base - 5] = "trap"
                   /\ words[Sh2!Base - 3] = "r0" /\ words[Sh2!Base - 4] = "r1"
                   /\ words[Sh2!Base - 1] = "sr"
      BY <1>1, <2>1 DEF Sh2Context, Sh2Kept, Sh2Frame
    <3>2. clean => \A r \in Sh2!Gpr : g[r] = r
      BY <1>1, <3>1 DEF Has
    <3>3. clean => g = Sh2!Own
      BY <3>2 DEF Sh2!Own
    <3> QED
      BY <1>1, <2>1, <3>1, <3>3 DEF Sh2Kept, Loading, Sh2!ContextKept, Sh2!Base
  <2> QED
    BY <1>1, <2>3, <2>4, <2>5 DEF Sh2Context
<1>3. CASE Sh2!CallHandler
  <2>1. /\ pc = "call" /\ pc' = "handler" /\ UNCHANGED <<words, registers>>
        /\ cpu' = [cpu EXCEPT !["r2"] = "junk", !["r4"] = words[r15]]
    BY <1>3 DEF Sh2!CallHandler
  <2>2. Sh2!TypeOK'
    BY <1>1, <2>1 DEF Sh2!TypeOK, Sh2!Code
  <2>3. Sh2Frame'
    BY <1>1, <2>1 DEF Sh2Frame, Loading, Sh2!Base
  <2>4. clean => Sh2Kept'
    BY <1>1, <2>1 DEF Sh2Context, Sh2!TypeOK, Sh2Kept, Loading, Sh2!ContextKept, Has, Sh2!Base
  <2> QED
    BY <1>1, <2>2, <2>3, <2>4 DEF Sh2Context
<1>4. CASE Sh2!HandlerReturns
  <2>1. PICK k \in {Sh2!Base - 1, Sh2!Base, Sh2!Base + 1} :
          registers' = [registers EXCEPT !.r15 = k]
    BY <1>4 DEF Sh2!HandlerReturns
  <2>2. /\ pc = "handler" /\ pc' = "return" /\ cpu' = [r \in Sh2!Gpr |-> "junk"]
        /\ words' = [i \in Sh2!Word |-> IF i < r15 THEN "junk" ELSE words[i]]
    BY <1>4 DEF Sh2!HandlerReturns
  <2>3. /\ registers'.r15 = k /\ registers'.pc = registers.pc /\ registers'.gpr = registers.gpr
        /\ registers' \in [gpr : [Sh2!Gpr -> Sh2!Val], r15 : Sh2!Word, pc : Sh2!Code]
    <3>1. registers \in [gpr : [Sh2!Gpr -> Sh2!Val], r15 : Sh2!Word, pc : Sh2!Code] /\ k \in Sh2!Word
      BY <1>1 DEF Sh2!TypeOK
    <3> QED
      BY <2>1, <3>1
  <2>4. Sh2!TypeOK'
    BY <1>1, <2>2, <2>3 DEF Sh2!TypeOK, Sh2!Code, Sh2!Steps
  <2>5. Sh2Frame'
    BY <1>1, <2>2, <2>3 DEF Sh2!TypeOK, Sh2Frame, Loading, Sh2!Base
  <2>6. clean => Sh2Kept'
    BY <1>1, <2>2, <2>3 DEF Sh2Context, Sh2Kept, Loading, Sh2!ContextKept
  <2> QED
    BY <1>1, <2>4, <2>5, <2>6 DEF Sh2Context
<1> QED
  BY <1>2, <1>3, <1>4

\* The context is loaded, PC and SR by way of the program's stack.
LEMMA Sh2Loads ==
  ASSUME Sh2Context,
         Sh2!RestoreRegisters \/ Sh2!PlacePc \/ Sh2!PlaceSr \/ Sh2!RestoreR1R0 \/ Sh2!Rte
  PROVE  Sh2Context'
<1> USE Sh2Places
<1>1. /\ Sh2!TypeOK /\ Sh2Frame /\ UNCHANGED <<registers, cause, clean, hits>>
      /\ pc \in {"return"} \cup Loading
  BY DEF Sh2Context, Sh2!RestoreRegisters, Sh2!PlacePc, Sh2!PlaceSr, Sh2!RestoreR1R0, Sh2!Rte,
     Sh2!past, Loading
<1>2. /\ registers.pc = "prog" /\ registers.gpr \in [Sh2!Gpr -> Sh2!Val]
      /\ registers.r15 \in Sh2!Base - 1 .. Sh2!Base + 1
  BY <1>1 DEF Sh2Frame, Sh2!TypeOK
<1>3. clean => registers.gpr = Sh2!Own /\ \A r \in Sh2!Gpr : registers.gpr[r] = r
  BY <1>1 DEF Sh2Context, Sh2Kept, Sh2!Own
<1>4. CASE Sh2!RestoreRegisters
  <2>1. /\ pc = "return" /\ pc' = "pc" /\ UNCHANGED words /\ r15' = registers.r15 - 1
        /\ cpu' = [r \in Sh2!Gpr |-> IF r \in {"r2", "r4", "r8"} THEN registers.gpr[r] ELSE cpu[r]]
    BY <1>4 DEF Sh2!RestoreRegisters
  <2>2. Sh2!TypeOK'
    BY <1>1, <1>2, <2>1 DEF Sh2!TypeOK, Sh2!Code, Sh2!Steps
  <2>3. Sh2Frame'
    BY <1>1, <1>2, <2>1 DEF Sh2Frame, Loading, Sh2!Base
  <2>4. clean => Sh2Kept'
    BY <1>1, <1>3, <2>1 DEF Sh2Kept, Loading, Sh2!ContextKept, Has
  <2> QED
    BY <1>1, <2>2, <2>3, <2>4 DEF Sh2Context
<1>5. CASE Sh2!PlacePc
  <2>1. /\ pc = "pc" /\ pc' = "sr" /\ r15' = registers.r15 - 2
        /\ words' = [words EXCEPT ![registers.r15 - 2] = "prog"]
        /\ cpu' = [cpu EXCEPT !["pr"] = registers.gpr["pr"]]
    <3>1. r15 = registers.r15 - 1 /\ r15 - 1 = registers.r15 - 2
      BY <1>1, <1>2, <1>5 DEF Sh2!PlacePc, Sh2Frame
    <3> QED
      BY <1>2, <1>5, <3>1 DEF Sh2!PlacePc
  <2>2. Sh2!TypeOK'
    BY <1>1, <1>2, <2>1 DEF Sh2!TypeOK, Sh2!Code, Sh2!Steps
  <2>3. Sh2Frame'
    BY <1>1, <1>2, <2>1 DEF Sh2!TypeOK, Sh2Frame, Loading, Sh2!Base
  <2>4. clean => Sh2Kept'
    BY <1>1, <1>3, <2>1 DEF Sh2Context, Sh2!TypeOK, Sh2Kept, Loading, Sh2!ContextKept, Has
  <2> QED
    BY <1>1, <2>2, <2>3, <2>4 DEF Sh2Context
<1>6. CASE Sh2!PlaceSr
  <2>1. /\ pc = "sr" /\ pc' = "r1" /\ r15 = registers.r15 - 2 /\ UNCHANGED <<cpu, r15>>
        /\ words' = [words EXCEPT ![registers.r15 - 1] = registers.gpr["sr"]]
    <3>1. r15 = registers.r15 - 2 /\ r15 + 1 = registers.r15 - 1
      BY <1>1, <1>2, <1>6 DEF Sh2!PlaceSr, Sh2Frame
    <3> QED
      BY <1>6, <3>1 DEF Sh2!PlaceSr
  <2>2. Sh2!TypeOK'
    BY <1>1, <1>2, <2>1 DEF Sh2!TypeOK, Sh2!Code, Sh2!Steps
  <2>3. Sh2Frame'
    BY <1>1, <1>2, <2>1 DEF Sh2!TypeOK, Sh2Frame, Loading, Sh2!Base
  <2>4. clean => Sh2Kept'
    BY <1>1, <1>3, <2>1 DEF Sh2Context, Sh2Kept, Loading, Sh2!ContextKept, Has
  <2> QED
    BY <1>1, <2>2, <2>3, <2>4 DEF Sh2Context
<1>7. CASE Sh2!RestoreR1R0
  <2>1. /\ pc = "r1" /\ pc' = "rte" /\ UNCHANGED <<r15, words>>
        /\ cpu' = [cpu EXCEPT !["r1"] = registers.gpr["r1"], !["r0"] = registers.gpr["r0"]]
    BY <1>7 DEF Sh2!RestoreR1R0
  <2>2. Sh2!TypeOK'
    BY <1>1, <1>2, <2>1 DEF Sh2!TypeOK, Sh2!Code, Sh2!Steps
  <2>3. Sh2Frame'
    BY <1>1, <1>2, <2>1 DEF Sh2Frame, Loading, Sh2!Base
  <2>4. clean => Sh2Kept'
    BY <1>1, <1>3, <2>1 DEF Sh2Context, Sh2!TypeOK, Sh2Kept, Loading, Sh2!ContextKept, Has
  <2> QED
    BY <1>1, <2>2, <2>3, <2>4 DEF Sh2Context
<1>8. CASE Sh2!Rte
  <2>1. /\ pc = "rte" /\ pc' = "prog" /\ r15' = registers.r15 /\ UNCHANGED words
        /\ cpu' = [cpu EXCEPT !["sr"] = registers.gpr["sr"]]
    <3>1. pc = "rte" /\ r15 = registers.r15 - 2 /\ r15 + 2 = registers.r15
      BY <1>1, <1>2, <1>8 DEF Sh2!Rte, Sh2Frame
    <3>2. words[r15] = "prog" /\ words[r15 + 1] = registers.gpr["sr"]
      BY <1>1, <3>1 DEF Sh2Frame
    <3> QED
      BY <1>8, <3>1, <3>2 DEF Sh2!Rte
  <2>2. Sh2!TypeOK'
    BY <1>1, <1>2, <2>1 DEF Sh2!TypeOK, Sh2!Code
  <2>3. Sh2Frame'
    BY <1>1, <1>2, <2>1 DEF Sh2Frame, Loading, Sh2!Base
  <2>4. clean => Sh2Kept'
    <3>1. clean => \A r \in Sh2!Gpr : cpu'[r] = r
      BY <1>1, <1>3, <2>1 DEF Sh2Context, Sh2!TypeOK, Sh2Kept, Loading, Has
    <3>2. clean => cpu' = Sh2!Own
      BY <2>2, <3>1 DEF Sh2!TypeOK, Sh2!Own
    <3>3. \A k \in Sh2!Word : k > Sh2!Base => words'[k] = "data"
      BY <1>1, <2>1 DEF Sh2Frame
    <3> QED
      BY <1>1, <2>1, <3>2, <3>3 DEF Sh2Kept, Loading, Sh2!ContextKept, Sh2!Base
  <2> QED
    BY <1>1, <2>2, <2>3, <2>4 DEF Sh2Context
<1> QED
  BY <1>4, <1>5, <1>6, <1>7, <1>8

LEMMA Sh2ContextStays ==
  ASSUME Sh2Context, Sh2!Next
  PROVE  Sh2Context'
<1>1. CASE Sh2!Reset
  <2>1. /\ pc = "wild" /\ pc' = "prog" /\ cpu' = Sh2!Own /\ r15' = Sh2!Base
        /\ words' = Sh2!Fresh /\ UNCHANGED <<registers, cause, clean, hits>>
    BY <1>1 DEF Sh2!Reset, Sh2!past
  <2>2. Sh2!TypeOK'
    BY <2>1, Sh2Places DEF Sh2Context, Sh2!TypeOK, Sh2!Code
  <2>3. Sh2Frame'
    BY <2>1, Sh2Places DEF Sh2Context, Sh2Frame, Loading, Sh2!Base
  <2> QED
    BY <2>1, <2>2, <2>3 DEF Sh2Context, Sh2Kept
<1> QED
  BY <1>1, Sh2Interrupted, Sh2Pushes, Sh2Saves, Sh2Loads DEF Sh2!Next, Sh2!Step

----------------------------------------------------------------------------
(* Both processors *)

InContext ==
  /\ processor = "sh3" => Sh3Context
  /\ processor = "sh2" => Sh2Context

LEMMA InContextAlways == Spec => []InContext
<1>1. ASSUME Init
      PROVE  InContext
  <2>1. CASE processor = "sh3" /\ Sh3!Init
    <3>1. Sh3!TypeOK
      <4>1. Sh3!Own \in [Sh3!Gpr -> Sh3!Val] /\ [r \in Sh3!Gpr |-> "junk"] \in [Sh3!Gpr -> Sh3!Val]
        BY DEF Sh3!Own, Sh3!Val
      <4>2. [in |-> "stub", depth |-> 0] \in Sh3!Sp /\ {"prog", "wild"} \subseteq Sh3!Code
        BY DEF Sh3!Sp, Sh3!Code
      <4>3. registers \in [gpr : [Sh3!Gpr -> Sh3!Val], r15 : Sh3!Sp, pc : Sh3!Code]
        BY <2>1, <4>1, <4>2 DEF Sh3!Init
      <4>4. Sh3!Empty \in [{"prog", "stub"} -> Seq(Sh3!Val)]
        BY DEF Sh3!Empty
      <4>5. "sr" \in Sh3!Val /\ "trap" \in Sh3!Vectors /\ 0 \in 0 .. MaxHits
        BY EntryConstantsOK DEF Sh3!Val, Sh3!Gpr, Sh3!Vectors, Sh3!Faults, Sh3!ExcConstantsOK
      <4> QED
        BY <2>1, <4>1, <4>2, <4>3, <4>4, <4>5 DEF Sh3!Init, Sh3!TypeOK
    <3>2. pc = "prog" /\ Sh3!ContextKept
      BY <2>1 DEF Sh3!Init, Sh3!ContextKept, Sh3!Empty
    <3> QED
      BY <2>1, <3>1, <3>2 DEF InContext, Sh3Context, OnTheWayIn, OnTheWayOut, Restoring, Fended
  <2>2. CASE processor = "sh2" /\ Sh2!Init
    <3>1. Sh2!TypeOK
      BY <2>2, Sh2Places, EntryConstantsOK DEF Sh2!Init, Sh2!TypeOK, Sh2!Sh2ConstantsOK, Sh2!Code,
         Sh2!Vectors
    <3>2. Sh2Frame
      BY <2>2, Sh2Places DEF Sh2!Init, Sh2Frame, Loading
    <3>3. Sh2Kept
      BY <2>2, Sh2Places DEF Sh2!Init, Sh2Kept, Loading, Sh2!ContextKept, Sh2!Fresh
    <3> QED
      BY <2>2, <3>1, <3>2, <3>3 DEF InContext, Sh2Context
  <2> QED
    BY <1>1, <2>1, <2>2 DEF Init
<1>2. ASSUME InContext, [Next]_vars
      PROVE  InContext'
  <2>1. CASE OnlySh3 /\ Sh3!Next
    BY <1>2, <2>1, Sh3ContextStays DEF InContext, OnlySh3
  <2>2. CASE OnlySh2 /\ Sh2!Next
    BY <1>2, <2>2, Sh2ContextStays DEF InContext, OnlySh2
  <2>3. CASE UNCHANGED vars
    <3>1. CASE processor = "sh3"
      BY <1>2, <2>3, <3>1 DEF InContext, vars, sh3Vars, Sh3Context, Sh3!TypeOK, OnTheWayIn, OnTheWayOut,
         Fended, Sh3!ContextKept, Holds, Saved, Pushed
    <3>2. CASE processor = "sh2"
      BY <1>2, <2>3, <3>2 DEF InContext, vars, sh2Vars, Sh2Context, Sh2!TypeOK, Sh2Frame, Sh2Kept, Has,
         Sh2!ContextKept
    <3> QED
      BY <2>3, <3>1, <3>2 DEF InContext, vars
  <2> QED
    BY <1>2, <2>1, <2>2, <2>3 DEF Next
<1> QED
  BY <1>1, <1>2, PTL DEF Spec

\* The registers and the context in RAM hold values, R15 stays within the stack.
THEOREM Typed == Spec => []TypeOK
<1>1. InContext => TypeOK
  BY DEF InContext, Sh3Context, Sh2Context, TypeOK
<1> QED
  BY <1>1, InContextAlways, PTL

\* Whatever exceptions come while the entry code saves the program's context and loads
\* it again, the program goes on with it: those alone can spoil it that come while the
\* SH-3 uses SPC, SSR or the vector, and the timer's on the SH-2.
THEOREM ContextIsKept == Spec => []ContextKept
<1>1. InContext => ContextKept
  BY DEF InContext, Sh3Context, Sh2Context, Sh2Kept, ContextKept, Sh3!ContextKept, Sh2!ContextKept
<1> QED
  BY <1>1, InContextAlways, PTL

\* handle_exception is told the vector that stopped the program, which has been on the
\* stack or in a register of the second bank until then.
THEOREM VectorIsTold == Spec => []VectorTold
<1>1. InContext => VectorTold
  BY DEF InContext, Sh3Context, Sh2Context, OnTheWayOut, Sh2Frame, Sh2Kept, VectorTold,
     Sh3!VectorTold, Sh2!VectorTold
<1> QED
  BY <1>1, InContextAlways, PTL
=============================================================================
