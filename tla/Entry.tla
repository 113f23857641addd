-------------------------------- MODULE Entry --------------------------------
(***************************************************************************)
(* The exception code is built for one processor: from exceptions-sh3.S    *)
(* (ExcEntry) or from exceptions-sh2.S (ExcEntrySh2).  Both promise the    *)
(* same to the program and to handle_exception.                            *)
(***************************************************************************)
EXTENDS Naturals, Sequences

CONSTANTS MaxHits, FREE

VARIABLES
  processor,
  pc, cpu, registers, cause, clean, hits,         \* of both
  sp, stack, bl, spc, ssr, r2_bank, in_nmi,       \* exceptions-sh3.S
  r15, words                                      \* exceptions-sh2.S

sh3Vars == <<sp, stack, bl, spc, ssr, r2_bank, in_nmi>>
sh2Vars == <<r15, words>>
vars == <<processor, pc, cpu, registers, cause, clean, hits, sh3Vars, sh2Vars>>

Sh3 == INSTANCE ExcEntry
Sh2 == INSTANCE ExcEntrySh2

ASSUME EntryConstantsOK == Sh3!ExcConstantsOK /\ Sh2!Sh2ConstantsOK

\* What belongs to the other processor is not there.
Absent == "none"

NoSh3 ==
  /\ sp = Absent /\ stack = Absent /\ bl = Absent /\ spc = Absent /\ ssr = Absent
  /\ r2_bank = Absent /\ in_nmi = Absent
NoSh2 == r15 = Absent /\ words = Absent

Init ==
  \/ processor = "sh3" /\ Sh3!Init /\ NoSh2
  \/ processor = "sh2" /\ Sh2!Init /\ NoSh3

OnlySh3 == processor = "sh3" /\ UNCHANGED <<processor, sh2Vars>>
OnlySh2 == processor = "sh2" /\ UNCHANGED <<processor, sh3Vars>>

Next ==
  \/ OnlySh3 /\ Sh3!Next
  \/ OnlySh2 /\ Sh2!Next

Step ==
  \/ OnlySh3 /\ Sh3!Step
  \/ OnlySh2 /\ Sh2!Step

Spec == Init /\ [][Next]_vars

\* The CPU runs the entry code, and the host lets the handler return.
FairSpec == Spec /\ WF_vars(Step)

----------------------------------------------------------------------------
(* Properties *)

TypeOK ==
  /\ processor = "sh3" => Sh3!TypeOK
  /\ processor = "sh2" => Sh2!TypeOK

\* The program is resumed with its registers and its stack, though interrupts come
\* while they are saved and loaded again: of the SH-3 those that come where SPC, SSR and
\* the vector are not in use, of the SH-2 all but the timer's.
ContextKept ==
  /\ processor = "sh3" => Sh3!ContextKept
  /\ processor = "sh2" => Sh2!ContextKept

\* handle_exception is told the vector that stopped the program.
VectorTold ==
  /\ processor = "sh3" => Sh3!VectorTold
  /\ processor = "sh2" => Sh2!VectorTold

\* The next NMI stops a program on the SH-3 again: in_nmi is not left set by any return.
NmiRearmed == processor = "sh3" => Sh3!NmiRearmed

\* The program is resumed, if no interrupt came in between that makes the RTE return
\* into the entry code itself.
Resumed == pc = "handler" /\ clean ~> pc = "prog" \/ ~clean
=============================================================================
