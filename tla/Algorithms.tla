------------------------------ MODULE Algorithms ------------------------------
(***************************************************************************)
(* The parts that compute something and keep no state between calls: where *)
(* a step goes (SStep), what is printed (Printf), and how the image of a   *)
(* program is scrambled (Scramble).  Each is looked at on its own.         *)
(***************************************************************************)
EXTENDS Integers, Sequences

CONSTANTS
  Bits, Opcodes, Pcs, Rn(_), PR,            \* of SStep
  ULONG, USHRT, Directives,                 \* of Printf
  MAXCHUNK, FileSizes, Turns                \* of Scramble

VARIABLES
  part,
  opcode, pc, t, instrMem,
  directive, out,
  filesz, file, turns

stepVars == <<opcode, pc, t, instrMem>>
printVars == <<directive, out>>
fileVars == <<filesz, file, turns>>
vars == <<part, stepVars, printVars, fileVars>>

Step == INSTANCE SStep
Output == INSTANCE Printf
File == INSTANCE Scramble

ASSUME AlgorithmsConstantsOK ==
  Step!SStepConstantsOK /\ Output!PrintfConstantsOK /\ File!ScrambleConstantsOK

Absent == "none"

NoStep == opcode = Absent /\ pc = Absent /\ t = Absent /\ instrMem = Absent
NoPrint == directive = Absent /\ out = Absent
NoFile == filesz = Absent /\ file = Absent /\ turns = Absent

Init ==
  \/ part = "step" /\ Step!Init /\ NoPrint /\ NoFile
  \/ part = "print" /\ Output!Init /\ NoStep /\ NoFile
  \/ part = "file" /\ File!Init /\ NoStep /\ NoPrint

Next ==
  \/ part = "step" /\ Step!doSStep /\ UNCHANGED <<part, printVars, fileVars>>
  \/ part = "print" /\ Output!vprintf /\ UNCHANGED <<part, stepVars, fileVars>>
  \/ part = "file" /\ File!Next /\ UNCHANGED <<part, stepVars, printVars>>

Spec == Init /\ [][Next]_vars

----------------------------------------------------------------------------
(* Properties *)

\* The trap of a step goes where the program goes next.
TargetExact == part = "step" => Step!TargetExact

\* What is printed for a directive reads as its argument, in the field asked for.
PrintedExact == part = "print" => Output!PrintedExact

\* Descrambling undoes scrambling.
ScrambleInverts == part = "file" => File!ScrambleInverts
=============================================================================
