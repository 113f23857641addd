----------------------------- MODULE MCAlgorithms -----------------------------
(***************************************************************************)
(* Every instruction there is, at both ends of a 14-bit address space, so  *)
(* that branches wrap around either end; directives with every set of      *)
(* flags, in fields that are too small and large enough, with arguments    *)
(* around the ends of each range; files of up to twenty slices, with and      *)
(* without an incomplete one, in chunks of up to eight.                     *)
(***************************************************************************)
EXTENDS Algorithms

MCOpcodes == 0 .. 65535

MCRn(n) == (1027 * n + 6) % 2^Bits

MCSizes == {32 * k + r : k \in 0 .. 20, r \in {0, 1, 31}}

D(f, s, w, t1, p, q, c, a) ==
  [flags |-> f, star |-> s, width |-> w, dot |-> t1, precision |-> p,
   qualifier |-> q, conv |-> c, arg |-> a]

MCFlags == SUBSET {"0", "+", " ", "-", "#"}

\* None, 1 and 6; 6 and -6 as arguments.
MCWidths == {<<FALSE, -1>>, <<FALSE, 1>>, <<FALSE, 6>>, <<TRUE, -6>>}
MCPrecisions == {<<FALSE, 0>>, <<TRUE, -1>>, <<TRUE, 3>>}

MCNumbers ==
  {D(f, w[1], w[2], p[1], p[2], q[1], c, q[2]) :
     f \in MCFlags, w \in MCWidths, p \in MCPrecisions, c \in {"d", "u", "o", "X"},
     q \in {<<"", 0>>, <<"", 127>>, <<"", 128>>, <<"l", 255>>, <<"h", 24>>, <<"Z", 200>>, <<"L", 65535>>}}

MCTexts ==
  {D(f, w[1], w[2], p[1], p[2], "", "s", a) :
     f \in SUBSET {"-"}, w \in MCWidths, p \in MCPrecisions, a \in {<<>>, <<"a", "LF", "b", "c">>}}
  \cup {D(f, w[1], w[2], FALSE, 0, "", c[1], c[2]) :
     f \in SUBSET {"-"}, w \in MCWidths, c \in {<<"c", <<"a">>>>, <<"p", 77>>}}

MCDirectives == MCNumbers \cup MCTexts
=============================================================================
