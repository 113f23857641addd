------------------------------ MODULE MCEthernet ------------------------------
(* Two ports, and the lists of addresses and the boards to look at. *)
EXTENDS Ethernet

CONSTANTS p1, p2

MCPorts == {p1, p2}

Even(p) == [port |-> p, odd |-> FALSE]
Odd(p) == [port |-> p, odd |-> TRUE]

\* The built-in list, and CS_SCAN as config.mk-sh2000 and config.mk-cat68701 give it.
MCScans == {<<Even(p1), Even(p2), Odd(p1), Odd(p2)>>, <<Odd(p1)>>, <<Even(p1)>>}

K(e, s, l, c, a) == [eeprom |-> e, self |-> s, line |-> l, cnf |-> c, auto |-> a]

\* Configured by its EEPROM, for a cable; by itself, for AUI, or in auto mode; one that
\* does not look for its cable; and one whose EEPROM does not answer.
Cabled == K("good", FALSE, "10B_T", {"10B_T", "MEDIA_10B_T"}, {"rest"})
ByItself == K("wrong", TRUE, "AUI", {}, {})
Auto == K("good", TRUE, "auto", {}, {})
Careless == K("good", FALSE, "10B_T", {"10B_T", "AUI", "MEDIA_10B_T", "rest"}, {"IMM_BIT"})
Silent == K("silent", FALSE, "10B_T", {}, {})

B(a, b) == [p \in MCPorts |-> IF p = p1 THEN a ELSE b]
MCBoards ==
  {B(NoChip, ByItself), B(Cabled, ByItself), B(Auto, Careless), B(Silent, Cabled),
   B(ByItself, NoChip)}
=============================================================================
