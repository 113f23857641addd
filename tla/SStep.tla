------------------------------- MODULE SStep -------------------------------
(***************************************************************************)
(* Where doSStep of sh-stub.c expects the program to go from an            *)
(* instruction: its masks on the 16 bits of the instruction and its        *)
(* arithmetic on unsigned words, against what the SuperH's manual says the *)
(* instruction does.                                                       *)
(***************************************************************************)
EXTENDS Integers, Bitwise

CONSTANTS
  Bits,        \* of an address: 32 on the machine, 14 are enough for every mask
  Opcodes,     \* the instructions to look at
  Pcs,         \* where they stand
  Rn(_),       \* the register file: R0 to R15
  PR           \* registers[PR]

SStepConstantsOK ==
  /\ Bits \in 14 .. 30
  /\ Opcodes \subseteq 0 .. 65535
  /\ Pcs \subseteq 0 .. 2^Bits - 1
  /\ \A n \in 0 .. 15 : Rn(n) \in 0 .. 2^Bits - 1
  /\ PR \in 0 .. 2^Bits - 1

VARIABLES
  opcode,      \* the instruction at PC
  pc, t,       \* registers[PC], the T bit of registers[SR]
  instrMem     \* where the trap goes, -1 before doSStep has run

vars == <<opcode, pc, t, instrMem>>

U(x) == x % 2^Bits    \* unsigned arithmetic

----------------------------------------------------------------------------
(* doSStep *)

COND_BR_MASK == 65280      \* 0xff00
UCOND_DBR_MASK == 57344    \* 0xe000
UCOND_RBR_MASK == 61663    \* 0xf0df
BT_INSTR == 35072          \* 0x8900
BF_INSTR == 35584          \* 0x8b00
BTS_INSTR == 36096         \* 0x8d00
BFS_INSTR == 36608         \* 0x8f00
BRA_INSTR == 40960         \* 0xa000
JSR_INSTR == 16395         \* 0x400b
BSRF_INSTR == 3            \* 0x0003
RTS_INSTR == 11            \* 0x000b
RTE_INSTR == 43            \* 0x002b

\* A mutant: a displacement is never negative.
DispUnsigned(w) == (opcode & (2^w - 1)) * 2

\* The displacement in the low w bits, doubled; the sign bit is spread by |.
Disp(w) ==
  LET d == (opcode & (2^w - 1)) * 2
  IN IF d & 2^w # 0 THEN d | (2^Bits - 2^(w + 1)) ELSE d

Reg == (opcode & 3840) \div 256

Is(mask, instr) == (opcode & mask) = instr

BranchTo(w) == U(pc + Disp(w) + 4)

\* The chain of tests, in its order.
ExpectedTarget ==
  CASE Is(COND_BR_MASK, BT_INSTR) -> IF t THEN BranchTo(8) ELSE U(pc + 2)
    [] Is(COND_BR_MASK, BF_INSTR) -> IF t THEN U(pc + 2) ELSE BranchTo(8)
    [] Is(COND_BR_MASK, BTS_INSTR) -> IF t THEN BranchTo(8) ELSE U(pc + 4)
    [] Is(COND_BR_MASK, BFS_INSTR) -> IF t THEN U(pc + 4) ELSE BranchTo(8)
    [] Is(UCOND_DBR_MASK, BRA_INSTR) -> BranchTo(12)
    [] Is(UCOND_RBR_MASK, JSR_INSTR) -> Rn(Reg)
    [] Is(UCOND_RBR_MASK, BSRF_INSTR) -> U(Rn(Reg) + pc + 4)
    [] opcode = RTS_INSTR -> PR
    [] opcode = RTE_INSTR -> Rn(15)
    [] OTHER -> U(pc + 2)

doSStep ==
  /\ instrMem = -1 /\ instrMem' = ExpectedTarget
  /\ UNCHANGED <<opcode, pc, t>>

Init ==
  /\ opcode \in Opcodes /\ pc \in Pcs /\ t \in BOOLEAN
  /\ instrMem = -1

----------------------------------------------------------------------------
(* The manual *)

\* The hexadecimal digits of the instruction, from the left, 1 to 4.
Digit(i) == (opcode \div 16^(4 - i)) % 16

Signed(x, w) == IF x >= 2^(w - 1) THEN x - 2^w ELSE x

Conditional == Digit(1) = 8 /\ Digit(2) \in {9, 11, 13, 15}
Taken == IF Digit(2) \in {9, 13} THEN t ELSE ~t
Slot == IF Digit(2) \in {13, 15} THEN 2 ELSE 0    \* the size of a delay slot

Relative == Digit(1) \in {10, 11}                                   \* BRA, BSR
ToRegister == Digit(1) = 4 /\ Digit(3) \in {0, 2} /\ Digit(4) = 11  \* JSR, JMP
FromRegister == Digit(1) = 0 /\ Digit(3) \in {0, 2} /\ Digit(4) = 3 \* BSRF, BRAF
Return == opcode = RTS_INSTR

NextPc ==
  IF Conditional
    THEN IF Taken THEN U(pc + 4 + 2 * Signed(opcode % 256, 8)) ELSE U(pc + 2 + Slot)
  ELSE IF Relative THEN U(pc + 4 + 2 * Signed(opcode % 4096, 12))
  ELSE IF ToRegister THEN Rn(Digit(2))
  ELSE IF FromRegister THEN U(pc + 4 + Rn(Digit(2)))
  ELSE IF Return THEN PR
  ELSE U(pc + 2)

----------------------------------------------------------------------------
(* Properties *)

\* The trap goes where the program goes next, for every instruction but RTE,
\* whose target is in SPC and not in a saved register.
TargetExact == instrMem # -1 /\ opcode # RTE_INSTR => instrMem = NextPc
=============================================================================
