----------------------------- MODULE MCNetBoot -----------------------------
(***************************************************************************)
(* NetBoot with a DHCP server and a plain BOOTP server, whose files end    *)
(* with a part of a block and at a block's end.                            *)
(***************************************************************************)
EXTENDS NetBoot

CONSTANTS a, b

\* The DHCP server names its file when it offers, and not again when it confirms.
MCNaming == {<<a, "OFFER">>, <<b, "none">>}

MCFile == [s \in {a, b} |-> IF s = a THEN <<11, 12, 13>> ELSE <<21, 22>>]
=============================================================================
