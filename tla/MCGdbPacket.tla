---------------------------- MODULE MCGdbPacket ----------------------------
(***************************************************************************)
(* GdbPacket with a buffer that merged packets fill, a write in each       *)
(* encoding, a read of what they wrote that has a run, one that faults, a   *)
(* program that prints twice, and noise that turns a character into a +, a *)
(* # or something else.                                                    *)
(***************************************************************************)
EXTENDS GdbPacket

R(op, addr, data) == [op |-> op, addr |-> addr, len |-> Len(data), data |-> data]

\* Binary data with a # and an escape; a run of seven zeros that # stands for; a write
\* that goes beyond the memory; a run of the program, and what it stopped with.
MCRequests ==
  <<R("X", 0, <<35, 3>>),
    R("M", 3, <<10, 11>>),
    [op |-> "m", addr |-> 0, len |-> 4, data |-> <<>>],
    R("c", 0, <<>>), R("?", 0, <<>>)>>

MCRuns ==
  [op \in {"c", "s"} |->
     IF op = "c" THEN [prints |-> <<<<104>>, <<105>>>>, stop |-> "nmi"] ELSE [prints |-> <<>>, stop |-> "trap"]]

ASSUME ErrorsShow
=============================================================================
