------------------------------ MODULE MCStorage ------------------------------
(* Requests: of none, one, some, as many as the register can say and one more *)
(* sector; from the start, over the end of the disk, and with an address and a *)
(* device that do not fit the registers, which the code reads as 1 and 0.      *)
(* Images of two words, of which each has a 1 where the other has a 0, and     *)
(* that look like a status or not.                                             *)
EXTENDS Storage

MCRequests ==
  {[dev |-> 0, lba |-> 0, count |-> n] : n \in {1, 2, 4, 5}}
    \union {[dev |-> 0, lba |-> 5, count |-> n] : n \in {0, 2}}
    \union {[dev |-> 0, lba |-> 3, count |-> 2], [dev |-> 1, lba |-> 1, count |-> 2]}

MCImages == {[o \in 0 .. 1 |-> IF o = 0 THEN {"DQ5"} ELSE {"DQ0"}],
             [o \in 0 .. 1 |-> IF o = 0 THEN {"DQ6", "DQ0"} ELSE {"DQ5"}]}
=============================================================================
