----------------------------- MODULE MCGdbStub -----------------------------
(***************************************************************************)
(* Instances of GdbStub: five slots, the fourth in ROM, the last unmapped. *)
(* Between them the two programs hold every kind of instruction that moves *)
(* the PC in its own way; the host plants its breakpoints over them.       *)
(***************************************************************************)
EXTENDS GdbStub

\* A taken branch at slot 2 goes back to slot 1.
MCDisp == -3

\* R15 points into the code at slot 2, so that a trap put at R15 can be met; the
\* last file makes stores and buffers fault.
MCFiles ==
  {[t |-> FALSE, rn |-> 2, sp |-> 2], [t |-> TRUE, rn |-> 0, sp |-> 2],
   [t |-> TRUE, rn |-> 4, sp |-> 2]}

\* An access that succeeds, and one that writes ROM and then faults.
MCAccesses == {[addr |-> 1, len |-> 1], [addr |-> 3, len |-> 2]}

MCCode == {<<"jmp", "op", "bts", "st", "ill">>, <<"rte", "st", "bt", "bios", "ill">>}

MCPrograms == {[a \in Addr |-> code[a + 1]] : code \in MCCode}
=============================================================================
