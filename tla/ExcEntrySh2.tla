----------------------------- MODULE ExcEntrySh2 -----------------------------
(***************************************************************************)
(* The exception entry and return of exceptions-sh2.S.  The processor      *)
(* pushes SR and PC on the stack of what it interrupts, has no second bank *)
(* of registers and nothing like SR.BL: an NMI or an interrupt may come    *)
(* between any two instructions, and what is below R15 is then gone.  The  *)
(* handler runs on the program's stack, below the frame.  Only TRAPA stops *)
(* the program; every other exception is returned from.  Values are those  *)
(* of ExcEntry.                                                            *)
(***************************************************************************)
EXTENDS Naturals

CONSTANTS
  MaxHits,    \* bound: exceptions taken before the program resumes
  FREE        \* words below the program's R15

Sh2ConstantsOK == MaxHits \in Nat /\ FREE \in Nat /\ FREE >= 8

VARIABLES
  pc,           \* the next step, or who runs: "prog", "handler"
  cpu,          \* registers but R15; r2 stands for R2-R7, r8 for R8-R14 and GBR .. MACL
  r15, words,   \* words of the stack, numbered from its end
  registers,    \* the context in RAM
  cause,        \* history: the vector that stopped the program
  clean,        \* history: no timer interrupt since
  hits          \* history: exceptions taken since

past == <<cause, clean, hits>>
vars == <<pc, cpu, r15, words, registers, past>>

Gpr == {"r0", "r1", "r2", "r4", "r8", "pr", "sr"}
Through == {"nmi", "irq", "timer", "illegal", "slot", "address", "ubreak"}
Steps == {"trap", "vector", "save", "call", "return", "pc", "sr", "r1", "rte"}
Code == Steps \cup {"prog", "handler", "wild"}
Vectors == Through \cup {"trap"}
Val == Gpr \cup Vectors \cup Code \cup {"junk", "data"}

Own == [r \in Gpr |-> r]

\* Two words of the program's are what R15 points to; below them all is free.
Base == FREE + 1
Word == 1 .. FREE + 2
Fresh == [k \in Word |-> IF k < Base THEN "junk" ELSE "data"]

TypeOK ==
  /\ pc \in Code /\ cpu \in [Gpr -> Val]
  /\ r15 \in Word /\ words \in [Word -> Val]
  /\ registers \in [gpr : [Gpr -> Val], r15 : Word, pc : Code]
  /\ cause \in Vectors /\ clean \in BOOLEAN /\ hits \in 0 .. MaxHits

----------------------------------------------------------------------------
(* Exceptions *)

\* A program that was resumed goes on with what it then has as its own.
Now == IF pc = "prog" THEN Own ELSE cpu
NowR15 == IF pc = "prog" THEN Base ELSE r15
NowWords == IF pc = "prog" THEN Fresh ELSE words

Note(vec) ==
  IF pc = "prog" THEN cause' = vec /\ clean' = TRUE /\ hits' = 0
  ELSE /\ hits < MaxHits /\ hits' = hits + 1
       /\ clean' = (clean /\ vec # "timer") /\ UNCHANGED cause

\* The processor pushes SR and PC, which both lie below R15 after the RTE.
Pushed == [NowWords EXCEPT ![NowR15 - 1] = "junk", ![NowR15 - 2] = "junk"]

\* do_IRQ, for interrupts and for faults alike: the RTE, to the same instruction or the
\* next.  In the entry code there are no instructions that fault.
do_IRQ ==
  \E vec \in Through \ {"timer"} :
    /\ pc # "wild" /\ (vec \in {"nmi", "irq"} \/ pc \in {"prog", "handler"})
    /\ Note(vec) /\ words' = Pushed /\ r15' = NowR15 /\ cpu' = Now
    /\ UNCHANGED <<pc, registers>>

\* do_timer uses R0, R1 and R2; code that works with them may go astray.
do_timer ==
  /\ pc # "wild" /\ Note("timer")
  /\ words' = Pushed /\ r15' = NowR15
  /\ cpu' = [Now EXCEPT !["r0"] = "junk", !["r1"] = "junk", !["r2"] = "junk"]
  /\ pc' \in IF pc = "prog" THEN {pc} ELSE {pc, "wild"}
  /\ UNCHANGED registers

\* TRAPA: SR and PC are pushed.
Trapa ==
  /\ pc = "prog" /\ pc' = "trap" /\ Note("trap")
  /\ words' = [Fresh EXCEPT ![Base - 1] = "sr", ![Base - 2] = "prog"]
  /\ r15' = Base - 2 /\ cpu' = Own
  /\ UNCHANGED registers

----------------------------------------------------------------------------
(* The handlers of TRAPA, and saveRegisters *)

PushR0R1 ==
  /\ pc = "trap" /\ pc' = "vector"
  /\ words' = [words EXCEPT ![r15 - 1] = cpu["r0"], ![r15 - 2] = cpu["r1"]]
  /\ r15' = r15 - 2 /\ cpu' = [cpu EXCEPT !["r0"] = "trap"]
  /\ UNCHANGED <<registers, past>>

PushVector ==
  /\ pc = "vector" /\ pc' = "save"
  /\ words' = [words EXCEPT ![r15 - 1] = cpu["r0"]] /\ r15' = r15 - 1
  /\ UNCHANGED <<cpu, registers, past>>

\* The frame is read and left where it is; R15 is noted as it was before it.
SaveRegisters ==
  /\ pc = "save" /\ pc' = "call"
  /\ registers' =
       [gpr |-> [r \in Gpr |-> CASE r = "sr" -> words[r15 + 4]
                                 [] r = "r1" -> words[r15 + 1]
                                 [] r = "r0" -> words[r15 + 2]
                                 [] OTHER -> cpu[r]],
        pc |-> words[r15 + 3], r15 |-> r15 + 5]
  /\ cpu' = [cpu EXCEPT !["r0"] = "junk", !["r1"] = "junk"]
  /\ UNCHANGED <<r15, words, past>>

CallHandler ==
  /\ pc = "call" /\ pc' = "handler"
  /\ cpu' = [cpu EXCEPT !["r2"] = "junk", !["r4"] = words[r15]]
  /\ UNCHANGED <<r15, words, registers, past>>

----------------------------------------------------------------------------
(* The handler, and restoreRegisters *)

\* The host may have changed R15.
HandlerReturns ==
  /\ pc = "handler" /\ pc' = "return"
  /\ \E k \in {Base - 1, Base, Base + 1} : registers' = [registers EXCEPT !.r15 = k]
  /\ cpu' = [r \in Gpr |-> "junk"]
  /\ words' = [k \in Word |-> IF k < r15 THEN "junk" ELSE words[k]]
  /\ UNCHANGED <<r15, past>>

\* R2 to R14, R15 and a place for SR.
RestoreRegisters ==
  /\ pc = "return" /\ pc' = "pc"
  /\ cpu' = [r \in Gpr |-> IF r \in {"r2", "r4", "r8"} THEN registers.gpr[r] ELSE cpu[r]]
  /\ r15' = registers.r15 - 1
  /\ UNCHANGED <<words, registers, past>>

PlacePc ==
  /\ pc = "pc" /\ pc' = "sr"
  /\ r15' = r15 - 1 /\ words' = [words EXCEPT ![r15 - 1] = registers.pc]
  /\ cpu' = [cpu EXCEPT !["pr"] = registers.gpr["pr"]]
  /\ UNCHANGED <<registers, past>>

PlaceSr ==
  /\ pc = "sr" /\ pc' = "r1"
  /\ words' = [words EXCEPT ![r15 + 1] = registers.gpr["sr"]]
  /\ UNCHANGED <<cpu, r15, registers, past>>

RestoreR1R0 ==
  /\ pc = "r1" /\ pc' = "rte"
  /\ cpu' = [cpu EXCEPT !["r1"] = registers.gpr["r1"], !["r0"] = registers.gpr["r0"]]
  /\ UNCHANGED <<r15, words, registers, past>>

Rte ==
  /\ pc = "rte" /\ pc' = words[r15]
  /\ cpu' = [cpu EXCEPT !["sr"] = words[r15 + 1]] /\ r15' = r15 + 2
  /\ UNCHANGED <<words, registers, past>>

Reset ==
  /\ pc = "wild" /\ pc' = "prog"
  /\ cpu' = Own /\ r15' = Base /\ words' = Fresh
  /\ UNCHANGED <<registers, past>>

Step ==
  \/ PushR0R1 \/ PushVector \/ SaveRegisters \/ CallHandler
  \/ HandlerReturns \/ RestoreRegisters \/ PlacePc \/ PlaceSr \/ RestoreR1R0 \/ Rte

Next == do_IRQ \/ do_timer \/ Trapa \/ Step \/ Reset

Init ==
  /\ pc = "prog" /\ cpu = Own /\ r15 = Base /\ words = Fresh
  /\ registers = [gpr |-> [r \in Gpr |-> "junk"], pc |-> "wild", r15 |-> Base]
  /\ cause = "trap" /\ clean = TRUE /\ hits = 0

----------------------------------------------------------------------------
(* Properties *)

\* The program goes on with its registers, with the R15 that the host has chosen, and
\* with its part of the stack untouched, unless a timer interrupt came on the way.
ContextKept ==
  pc = "prog" /\ clean /\ cause = "trap" =>
    /\ cpu = Own /\ r15 = registers.r15
    /\ \A k \in Word : k > Base => words[k] = "data"

VectorTold == pc = "handler" /\ clean => cpu["r4"] = cause
=============================================================================
