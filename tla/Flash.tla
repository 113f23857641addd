---------------------------------- MODULE Flash ----------------------------------
(***************************************************************************)
(* tools/cqsh4-flash/flash.c writes an image into the flash ROM of the     *)
(* CqREEK SH-4 board.  The chip (external) takes commands as sequences of  *)
(* writes, ignores writes while it is at work, and shows that it is in a   *)
(* bit that toggles with every read; a word is the set of its bits that    *)
(* are 1, and programming it only clears bits.  A reset of the board stops *)
(* the program anywhere and leaves the chip as it is.                      *)
(***************************************************************************)
EXTENDS Integers, Sequences

CONSTANTS
  Size,          \* words to write: 16384 in the code
  Images,        \* what may be written
  MaxRestarts    \* bound: resets of the board

\* Of the bits of a word those matter that the status uses, and one more.
DQ5 == "DQ5"     \* too long at work
DQ6 == "DQ6"     \* toggles
Bits == {DQ5, DQ6, "DQ0"}

FlashConstantsOK ==
  /\ Size \in Nat \ {0} /\ MaxRestarts \in Nat
  /\ Images \subseteq [0 .. Size - 1 -> SUBSET Bits]

VARIABLES
  words, mode, toggle,    \* external: what is stored; the command it is in; DQ6
  target,                 \* external: what it is programming
  pc, writes,             \* the program: where it is, what it has to write yet
  job, offset,            \* what it writes that for; the word it is at
  status0, result,
  image, restarts

chip == <<words, mode, toggle, target>>
program == <<pc, writes, job, offset, status0, result>>
vars == <<chip, program, image, restarts>>

Offset == 0 .. Size - 1

\* What is written: a code to one of the chip's two addresses for commands, 0x5555 and
\* 0x2AAA, or data to a word.
First == -1
Second == -2
Code(at, c) == [at |-> at, code |-> c, data |-> {}]
Data(at, d) == [at |-> at, code |-> "data", data |-> d]
Write == [at : Offset \cup {First, Second},
          code : {"AA", "55", "F0", "A0", "80", "10", "data"}, data : SUBSET Bits]

Working == {"programming", "erasing"}

TypeOK ==
  /\ words \in [Offset -> SUBSET Bits] /\ toggle \in BOOLEAN
  /\ mode \in {"read", "AA", "55", "A0", "80", "80 AA", "80 55", "failed"} \cup Working
  /\ target.at \in Offset /\ target.data \subseteq Bits
  /\ \A k \in 1 .. Len(writes) : writes[k] \in Write
  /\ pc \in {"start", "write", "read", "status0", "status1", "end"}
  /\ job \in {"reset", "erase", "word"} /\ offset \in Offset
  /\ status0 \subseteq Bits /\ result \in {0, -1, -2}
  /\ image \in Images /\ restarts \in 0 .. MaxRestarts

----------------------------------------------------------------------------
(* The chip *)

\* The command it is in after a write; out of order, it goes back to reading.
After(w) ==
  CASE mode \in Working -> mode
    [] mode = "failed" -> IF w.code = "F0" THEN "read" ELSE mode
    [] mode = "read" /\ w = Code(First, "AA") -> "AA"
    [] mode = "AA" /\ w = Code(Second, "55") -> "55"
    [] mode = "55" /\ w \in {Code(First, "A0"), Code(First, "80")} -> w.code
    [] mode = "80" /\ w = Code(First, "AA") -> "80 AA"
    [] mode = "80 AA" /\ w = Code(Second, "55") -> "80 55"
    [] mode = "80 55" /\ w = Code(First, "10") -> "erasing"
    [] mode = "A0" /\ w.at \in Offset -> "programming"
    [] OTHER -> "read"

Written(w) ==
  /\ mode' = After(w)
  /\ target' = IF mode = "A0" /\ w.at \in Offset THEN w ELSE target
  /\ UNCHANGED <<words, toggle>>

Toggling == mode \in Working \cup {"failed"}

Status ==
  IF ~Toggling THEN words[0]
  ELSE (IF toggle THEN {DQ6} ELSE {}) \cup (IF mode = "failed" THEN {DQ5} ELSE {})

ReadOnce == toggle' = (toggle # Toggling) /\ UNCHANGED <<words, mode, target>>

\* Bits that are 0 cannot be made 1, and any word may be worn out.
Programmed ==
  /\ mode = "programming"
  /\ words' = [words EXCEPT ![target.at] = @ \cap target.data]
  /\ mode' \in {"failed"} \cup (IF target.data \subseteq words[target.at] THEN {"read"} ELSE {})
  /\ UNCHANGED <<toggle, target, program, image, restarts>>

Erased ==
  /\ mode = "erasing"
  /\ \/ mode' = "read" /\ words' = [o \in Offset |-> Bits]
     \/ mode' = "failed" /\ \E w \in Offset : words' = [words EXCEPT ![w] = Bits]
  /\ UNCHANGED <<toggle, target, program, image, restarts>>

Chip == Programmed \/ Erased

Restart ==
  /\ pc # "start" /\ restarts < MaxRestarts /\ restarts' = restarts + 1
  /\ pc' = "start" /\ image' \in Images
  /\ writes' = <<>> /\ job' = "reset" /\ offset' = 0 /\ status0' = {} /\ result' = 0
  /\ UNCHANGED chip

----------------------------------------------------------------------------
(* The program *)

Unlock == <<Code(First, "AA"), Code(Second, "55")>>

CommandOf(j, o) ==
  CASE j = "reset" -> Unlock \o <<Code(First, "F0")>>
    [] j = "erase" -> Unlock \o <<Code(First, "80")>> \o Unlock \o <<Code(First, "10")>>
    [] OTHER -> Unlock \o <<Code(First, "A0"), Data(o, image[o])>>

Begin(j, o) == pc' = "write" /\ job' = j /\ offset' = o /\ writes' = CommandOf(j, o)

do_flash ==
  /\ pc = "start" /\ Begin("reset", 0)
  /\ UNCHANGED <<chip, status0, result, image, restarts>>

WriteNext ==
  /\ pc = "write" /\ Written(Head(writes)) /\ writes' = Tail(writes)
  /\ pc' = IF writes' # <<>> THEN "write" ELSE IF job = "reset" THEN "read" ELSE "status0"
  /\ UNCHANGED <<job, offset, status0, result, image, restarts>>

\* flash_reset reads a word, and flash_write goes on with the erasure.
flash_reset ==
  /\ pc = "read" /\ ReadOnce /\ Begin("erase", 0)
  /\ UNCHANGED <<status0, result, image, restarts>>

ReadStatus0 ==
  /\ pc = "status0" /\ pc' = "status1" /\ status0' = Status /\ ReadOnce
  /\ UNCHANGED <<writes, job, offset, result, image, restarts>>

\* The operation is over when two reads agree in DQ6.
Over(status1) == (DQ6 \in status0) = (DQ6 \in status1)
TooLong == DQ5 \in status0

\* flash_write goes on with the first word, the next one, or not at all.
Succeeded ==
  IF job = "word" /\ offset = Size - 1 THEN pc' = "end" /\ result' = 0 /\ UNCHANGED <<writes, job, offset>>
  ELSE Begin("word", IF job = "erase" THEN 0 ELSE offset + 1) /\ UNCHANGED result

ReadStatus1 ==
  /\ pc = "status1" /\ ReadOnce /\ UNCHANGED <<status0, image, restarts>>
  /\ \/ Over(Status) /\ Succeeded
     \/ ~Over(Status) /\ TooLong /\ pc' = "end"
        /\ result' = (IF job = "erase" THEN -2 ELSE -1) /\ UNCHANGED <<writes, job, offset>>
     \/ ~Over(Status) /\ ~TooLong /\ pc' = "status0" /\ UNCHANGED <<writes, job, offset, result>>

Program == do_flash \/ WriteNext \/ flash_reset \/ ReadStatus0 \/ ReadStatus1

Next == Chip \/ Restart \/ Program

\* Whatever is stored before.
Init ==
  /\ words \in [Offset -> SUBSET Bits] /\ mode = "read" /\ toggle = FALSE
  /\ target = Data(0, {})
  /\ pc = "start" /\ writes = <<>> /\ job = "reset" /\ offset = 0 /\ status0 = {} /\ result = 0
  /\ image \in Images /\ restarts = 0

----------------------------------------------------------------------------
(* Properties *)

\* When the program says that it has succeeded, the ROM holds the image, though nothing
\* is read back; when it says that it has failed, the chip has.  A reset in an erasure or
\* in a word, which the chip then finishes between two writes of the next command, is
\* no exception.
FlashExact ==
  pc = "end" => IF result = 0 THEN words = image ELSE mode = "failed"

Busy == pc # "end"
=============================================================================
