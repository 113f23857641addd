------------------------------ MODULE ExcEntry ------------------------------
(***************************************************************************)
(* The exception entry and return of exceptions-sh3.S, between a program   *)
(* and handle_exception.  Code that runs with SR.BL set cannot be          *)
(* interrupted and is one step; from where BL is cleared (line 293) to the *)
(* RTE a step is a few instructions, and an NMI or an interrupt may come   *)
(* between any two.  A register holds the name of the program's register   *)
(* whose value it has, "junk", or a vector.                                *)
(***************************************************************************)
EXTENDS Naturals, Sequences

CONSTANT MaxHits    \* bound: interrupts accepted before the program resumes

ExcConstantsOK == MaxHits \in Nat

VARIABLES
  pc,           \* the next step, or who runs: "prog", "handler"
  cpu,          \* registers; r4 stands for r4-r7, r8 for r8-r14 and GBR .. MACL
  sp, stack,    \* R15: the stack it is in; what was pushed on each stack
  bl,           \* SR.BL
  spc, ssr, r2_bank,    \* saved by the hardware: PC, SR; the vector
  registers,    \* the context in RAM
  in_nmi,
  cause,        \* history: the vector that stopped the program
  clean,        \* history: what hit the stub since was to be harmless
  hits          \* history: interrupts accepted since the program was stopped

hw == <<spc, ssr, r2_bank>>
past == <<cause, clean, hits>>
vars == <<pc, cpu, sp, stack, bl, hw, registers, in_nmi, past>>

Gpr == {"r0", "r1", "r2", "r3", "r4", "r8", "pr", "sr"}
Faults == {"trap", "illegal", "slot", "ubreak", "address"}
Interrupts == {"nmi", "break", "irq", "timer"}
Vectors == Faults \cup Interrupts
Val == Gpr \cup Vectors \cup {"junk"}
Steps == {"vector", "save", "ssr", "spc", "return", "r15", "setspc", "setpr", "setssr",
          "clear", "r0", "rte"}
Code == Steps \cup {"prog", "handler", "wild"}
Sp == [in : {"prog", "stub"}, depth : Nat]

Own == [r \in Gpr |-> r]
Empty == [in \in {"prog", "stub"} |-> <<>>]

\* Registers, saved or not, hold values; stacks hold values.
TypeOK ==
  /\ pc \in Code
  /\ cpu \in [Gpr -> Val]
  /\ sp \in {"prog", "stub"}
  /\ stack \in [{"prog", "stub"} -> Seq(Val)]
  /\ bl \in BOOLEAN
  /\ spc \in Code /\ ssr \in Val /\ r2_bank \in Vectors
  /\ registers \in [gpr : [Gpr -> Val], r15 : Sp, pc : Code]
  /\ in_nmi \in BOOLEAN
  /\ cause \in Vectors /\ clean \in BOOLEAN /\ hits \in 0 .. MaxHits

----------------------------------------------------------------------------
(* Acceptance of an exception, up to where BL is cleared *)

\* An NMI while one is served, and an interrupt without a use, should do no harm
\* where neither SPC, SSR nor the vector is in use: on the way in until they
\* have been saved, on the way out from when they are set.
Harmless(vec) ==
  /\ pc \in {"handler", "return", "r15", "setspc"}
  /\ \/ vec = "irq"
     \/ vec = "nmi" /\ cause = "nmi"

\* What the history notes of vec.
Note(vec) ==
  IF pc = "prog"
    THEN cause' = vec /\ clean' = TRUE /\ hits' = 0
    ELSE /\ hits < MaxHits /\ hits' = hits + 1
         /\ clean' = (clean /\ Harmless(vec))
         /\ UNCHANGED cause

\* What is interrupted.  A program that was resumed with another context goes
\* on with that one as its own.
Now == IF pc = "prog" THEN Own ELSE cpu
NowSp == IF pc = "prog" THEN "prog" ELSE sp
NowStack == IF pc = "prog" THEN Empty ELSE stack

\* The break handler calls handleError, a C function, after pushing R2 and R3,
\* and then pops both into R3 (lines 265-275).
AfterHandleError(c) ==
  [c EXCEPT !["r2"] = "junk", !["r3"] = c["r2"], !["r4"] = "junk", !["pr"] = "junk"]

\* Handlers that go on to saveRegisters: a word reserved for the vector, R1, R0.
Push(vec) ==
  /\ pc' = "vector" /\ bl' = FALSE
  /\ spc' = pc /\ ssr' = Now["sr"] /\ r2_bank' = vec
  /\ cpu' = [IF vec = "break" THEN AfterHandleError(Now) ELSE Now EXCEPT !["sr"] = "junk"]
  /\ sp' = NowSp
  /\ stack' = [NowStack EXCEPT ![NowSp] = @ \o <<"junk", Now["r1"], Now["r0"]>>]
  /\ UNCHANGED registers

\* Handlers that return at once.
Through(vec, c) ==
  /\ spc' = pc /\ ssr' = Now["sr"] /\ r2_bank' = vec
  /\ cpu' = c /\ sp' = NowSp /\ stack' = NowStack
  /\ UNCHANGED <<pc, bl, registers, in_nmi>>

\* The other instructions of the program and of the handler, as exceptions.
Fault ==
  \E vec \in Faults :
    /\ \/ pc = "prog"
       \/ pc = "handler" /\ vec = "address" /\ ~bl
    /\ Push(vec) /\ Note(vec)
    /\ UNCHANGED in_nmi

Break == ~bl /\ pc # "wild" /\ Push("break") /\ Note("break") /\ UNCHANGED in_nmi

\* tas.b on in_nmi lets the first NMI through; a mutant lets every one.
NestingNmi ==
  /\ ~bl /\ pc # "wild" /\ Note("nmi")
  /\ Push("nmi") /\ in_nmi' = TRUE

Nmi ==
  /\ ~bl /\ pc # "wild" /\ Note("nmi")
  /\ \/ ~in_nmi /\ Push("nmi") /\ in_nmi' = TRUE
     \/ in_nmi /\ Through("nmi", Now)

\* do_IRQ does nothing; do_timer uses R0 to R2 of the code it interrupts.
Irq ==
  /\ ~bl /\ pc # "wild"
  /\ \/ Note("irq") /\ Through("irq", Now)
     \/ /\ Note("timer")
        /\ Through("timer", [Now EXCEPT !["r0"] = "junk", !["r1"] = "junk", !["r2"] = "junk"])

----------------------------------------------------------------------------
(* saveRegisters *)

Top(n) == stack[sp][Len(stack[sp]) - n]

\* The entry code pops what it pushed.  When a spoiled return has brought it
\* back to a point where that is gone, it goes on with the program's own data.
Framed == Len(stack[sp]) >= 3

Astray ==
  /\ pc \in {"vector", "save"} /\ ~Framed /\ pc' = "wild"
  /\ UNCHANGED <<cpu, sp, stack, bl, hw, registers, in_nmi, past>>

\* The vector goes into the word reserved for it; a mutant puts it on R1.
StoreVectorLow ==
  /\ pc = "vector" /\ Framed /\ pc' = "save"
  /\ stack' = [stack EXCEPT ![sp][Len(stack[sp]) - 1] = r2_bank]
  /\ cpu' = [cpu EXCEPT !["r0"] = "junk", !["r1"] = r2_bank]
  /\ UNCHANGED <<sp, bl, hw, registers, in_nmi, past>>

StoreVector ==
  /\ pc = "vector" /\ Framed /\ pc' = "save"
  /\ stack' = [stack EXCEPT ![sp][Len(stack[sp]) - 2] = r2_bank]
  /\ cpu' = [cpu EXCEPT !["r0"] = "junk", !["r1"] = r2_bank]
  /\ UNCHANGED <<sp, bl, hw, registers, in_nmi, past>>

\* R0 to R15; the vector is left in R4.
SaveRegisters ==
  /\ pc = "save" /\ Framed /\ pc' = "ssr"
  /\ registers' =
       [registers EXCEPT
          !.gpr = [r \in Gpr |-> CASE r = "r0" -> Top(0)
                                   [] r = "r1" -> Top(1)
                                   [] r \in {"r2", "r3", "r4", "r8"} -> cpu[r]
                                   [] OTHER -> @[r]],
          !.r15 = [in |-> sp, depth |-> Len(stack[sp]) - 3]]
  /\ cpu' = [cpu EXCEPT !["r4"] = Top(2)]
  /\ stack' = [stack EXCEPT ![sp] = SubSeq(@, 1, Len(@) - 3)]
  /\ UNCHANGED <<sp, bl, hw, in_nmi, past>>

ReadSsr ==
  /\ pc = "ssr" /\ pc' = "spc"
  /\ cpu' = [cpu EXCEPT !["r2"] = ssr]
  /\ UNCHANGED <<sp, stack, bl, hw, registers, in_nmi, past>>

\* SR, PR and PC, then handle_exception on the stub's stack, from its top.
CallHandler ==
  /\ pc = "spc" /\ pc' = "handler"
  /\ registers' = [registers EXCEPT !.gpr["sr"] = cpu["r2"], !.gpr["pr"] = cpu["pr"],
                                    !.pc = spc]
  /\ sp' = "stub" /\ stack' = [stack EXCEPT !["stub"] = <<>>]
  /\ UNCHANGED <<cpu, bl, hw, in_nmi, past>>

----------------------------------------------------------------------------
(* The handler, and restoreRegisters *)

\* An address error in a command that expects it: handle_buserror is entered
\* before BL is cleared, and longjmp does not clear it.
ProbeFault ==
  /\ pc = "handler" /\ ~bl
  /\ bl' = TRUE
  /\ spc' = pc /\ ssr' = cpu["sr"] /\ r2_bank' = "address"
  /\ UNCHANGED <<pc, cpu, sp, stack, registers, in_nmi, past>>

HandlerReturns ==
  /\ pc = "handler" /\ pc' = "return"
  /\ cpu' = [r \in Gpr |-> "junk"]
  /\ UNCHANGED <<sp, stack, bl, hw, registers, in_nmi, past>>

\* R2 to R14 from the context.
RestoreRegisters ==
  /\ pc = "return" /\ pc' = "r15"
  /\ cpu' = [r \in Gpr |-> IF r \in {"r2", "r3", "r4", "r8"} THEN registers.gpr[r] ELSE cpu[r]]
  /\ UNCHANGED <<sp, stack, bl, hw, registers, in_nmi, past>>

\* What is below R15 on a stack is free.
RestoreR15 ==
  /\ pc = "r15" /\ pc' = "setspc"
  /\ sp' = registers.r15.in
  /\ stack' = [stack EXCEPT ![registers.r15.in] =
                 [i \in 1 .. registers.r15.depth |-> IF i <= Len(@) THEN @[i] ELSE "junk"]]
  /\ UNCHANGED <<cpu, bl, hw, registers, in_nmi, past>>

SetSpc ==
  /\ pc = "setspc" /\ pc' = "setpr"
  /\ spc' = registers.pc /\ cpu' = [cpu EXCEPT !["r0"] = "junk"]
  /\ UNCHANGED <<sp, stack, bl, ssr, r2_bank, registers, in_nmi, past>>

RestorePr ==
  /\ pc = "setpr" /\ pc' = "setssr"
  /\ cpu' = [cpu EXCEPT !["pr"] = registers.gpr["pr"]]
  /\ UNCHANGED <<sp, stack, bl, hw, registers, in_nmi, past>>

\* A mutant that counts on SSR being as it was on entry.
TrustSsr ==
  /\ pc = "setssr" /\ pc' = "clear"
  /\ UNCHANGED <<cpu, sp, stack, bl, hw, registers, in_nmi, past>>

SetSsr ==
  /\ pc = "setssr" /\ pc' = "clear"
  /\ ssr' = registers.gpr["sr"]
  /\ UNCHANGED <<cpu, sp, stack, bl, spc, r2_bank, registers, in_nmi, past>>

\* A mutant that leaves in_nmi set.
ForgetNmi ==
  /\ pc = "clear" /\ pc' = "r0"
  /\ UNCHANGED <<cpu, sp, stack, bl, hw, registers, in_nmi, past>>

\* in_nmi is cleared on every return; R2 is saved on the program's stack.
ClearNmi ==
  /\ pc = "clear" /\ pc' = "r0"
  /\ in_nmi' = FALSE
  /\ UNCHANGED <<cpu, sp, stack, bl, hw, registers, past>>

RestoreR0 ==
  /\ pc = "r0" /\ pc' = "rte"
  /\ cpu' = [cpu EXCEPT !["r0"] = registers.gpr["r0"]]
  /\ UNCHANGED <<sp, stack, bl, hw, registers, in_nmi, past>>

\* RTE with R1 in its delay slot.  A handler that is returned to has lost its
\* stack frames to the one that interrupted it.
Rte ==
  /\ pc = "rte"
  /\ pc' = IF spc = "handler" THEN "wild" ELSE spc
  /\ cpu' = [cpu EXCEPT !["r1"] = registers.gpr["r1"], !["sr"] = ssr]
  /\ bl' = FALSE
  /\ UNCHANGED <<sp, stack, hw, registers, in_nmi, past>>

Reset ==
  /\ pc = "wild"
  /\ pc' = "prog" /\ in_nmi' = FALSE /\ bl' = FALSE
  /\ cpu' = Own /\ sp' = "prog" /\ stack' = Empty
  /\ UNCHANGED <<hw, registers, past>>

Step ==
  \/ StoreVector \/ SaveRegisters \/ ReadSsr \/ CallHandler
  \/ HandlerReturns \/ RestoreRegisters \/ RestoreR15 \/ SetSpc \/ RestorePr \/ SetSsr
  \/ ClearNmi \/ RestoreR0 \/ Rte

Next == Fault \/ Break \/ Nmi \/ Irq \/ ProbeFault \/ Step \/ Astray \/ Reset

Init ==
  /\ pc = "prog" /\ cpu = Own /\ sp = "prog" /\ stack = Empty /\ bl = FALSE
  /\ spc = "prog" /\ ssr = "sr" /\ r2_bank = "trap"
  /\ registers = [gpr |-> [r \in Gpr |-> "junk"], r15 |-> [in |-> "stub", depth |-> 0],
                  pc |-> "wild"]
  /\ in_nmi = FALSE
  /\ cause = "trap" /\ clean = TRUE /\ hits = 0

Spec == Init /\ [][Next]_vars

----------------------------------------------------------------------------
(* Properties *)

\* The program goes on with the registers and the stack it was stopped with,
\* unless an interrupt came while SPC, SSR or the vector were in use.  (A serial
\* break and a timer interrupt spoil R0 to R4 and PR on their own.)
ContextKept ==
  pc = "prog" /\ clean /\ cause \notin {"break", "timer"} =>
    cpu = Own /\ sp = "prog" /\ stack["prog"] = <<>>

\* handle_exception is told the vector that stopped the program.
VectorTold == pc = "handler" /\ clean => cpu["r4"] = cause

\* The next NMI stops the program again: in_nmi is not left set by any return,
\* spoiled or not (lines 234-238).
NmiRearmed == pc = "prog" => ~in_nmi

\* What a break leaves in the saved context: R2 and R3 as they were, as the
\* comments "pop R3" and "pop R2" of lines 273-275 have it.
BreakKeepsR2R3 ==
  pc = "handler" /\ cause = "break" /\ hits = 0 =>
    registers.gpr["r2"] = "r2" /\ registers.gpr["r3"] = "r3"
=============================================================================
