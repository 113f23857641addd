------------------------------- MODULE Scramble -------------------------------
(***************************************************************************)
(* tools/dreamcast/scramble.c: a program image for the Dreamcast is cut    *)
(* into slices of 32 bytes, which are put into another order; with -d they *)
(* are put back.  The order is drawn from numbers that depend on the size  *)
(* of the file only.                                                       *)
(***************************************************************************)
EXTENDS Integers, Sequences

CONSTANTS
  MAXCHUNK,     \* in bytes: 2 MB in the code
  FileSizes,    \* in bytes
  Turns         \* bound: how often a file is scrambled

SLICE == 32

ScrambleConstantsOK ==
  /\ \E k \in 0 .. 16 : MAXCHUNK = SLICE * 2^k
  /\ FileSizes \subseteq Nat /\ Turns \in Nat

VARIABLES
  filesz,
  file,      \* its slices, by where each was at first; the last one may be incomplete
  turns      \* how often it has been scrambled, less how often descrambled

\* The slices of a file, with the incomplete one.
Slices(sz) == (sz + SLICE - 1) \div SLICE

----------------------------------------------------------------------------
(* The numbers *)

my_srand(n) == n % 65536

NextSeed(seed) == (seed * 2109 + 9273) % 32768
my_rand(seed) == (NextSeed(seed) + 49152) % 65536

----------------------------------------------------------------------------
(* load_chunk and save_chunk *)

\* A mutant without tmp.
SwapForgets(idx, i, x) == [idx EXCEPT ![i] = idx[x]]
Swap(idx, i, x) == [idx EXCEPT ![i] = idx[x], ![x] = idx[i]]

\* Both go down the index table of a chunk of n slices from its end; the slices come
\* in the order in which they are met.
Chunk(seed0, n) ==
  LET turn[k \in 0 .. n] ==
        IF k = 0 THEN [seed |-> seed0, idx |-> [s \in 0 .. n - 1 |-> s], order |-> <<>>]
        ELSE LET last == turn[k - 1]
                 i == n - k
                 x == (my_rand(last.seed) * i) \div 65536
                 idx == Swap(last.idx, i, x)
             IN [seed |-> NextSeed(last.seed), idx |-> idx, order |-> Append(last.order, idx[i])]
  IN [seed |-> turn[n].seed, order |-> turn[n].order]

\* load_file and save_file: the largest chunks that fit, and then the incomplete slice.
RECURSIVE Order(_, _, _, _)
Order(chunksz, left, seed, ptr) ==
  IF chunksz < SLICE THEN IF left > 0 THEN <<ptr>> ELSE <<>>
  ELSE IF left < chunksz THEN Order(chunksz \div 2, left, seed, ptr)
  ELSE LET n == chunksz \div SLICE
           c == Chunk(seed, n)
       IN [k \in 1 .. n |-> ptr + c.order[k]] \o Order(chunksz, left - chunksz, c.seed, ptr + n)

FileOrder == Order(MAXCHUNK, filesz, my_srand(filesz), 1)

\* Slices are read one after the other and stored where the order says; where none
\* is stored there is what malloc found, 0.
load_file(fh) ==
  LET order == FileOrder
      read(s) == {k \in 1 .. Len(order) : order[k] = s}
  IN [s \in 1 .. Len(fh) |-> IF read(s) = {} THEN 0 ELSE fh[CHOOSE k \in read(s) : TRUE]]

\* And written in that order.
save_file(ptr) == LET order == FileOrder IN [k \in 1 .. Len(ptr) |-> ptr[order[k]]]

----------------------------------------------------------------------------
(* The program *)

scramble == turns < Turns /\ turns' = turns + 1 /\ file' = save_file(file) /\ UNCHANGED filesz

descramble == turns > -Turns /\ turns' = turns - 1 /\ file' = load_file(file) /\ UNCHANGED filesz

Init == filesz \in FileSizes /\ file = [s \in 1 .. Slices(filesz) |-> s] /\ turns = 0

Next == scramble \/ descramble

----------------------------------------------------------------------------
(* Properties *)

\* Scrambling loses no slice, leaves the incomplete one at the end, and is undone by
\* descrambling, as often as either is done, whatever the size of the file.
ScrambleInverts ==
  LET n == Len(file)
  IN /\ {file[k] : k \in 1 .. n} = 1 .. Slices(filesz) /\ n = Slices(filesz)
     /\ filesz % SLICE # 0 => file[n] = n
     /\ turns = 0 => file = [s \in 1 .. n |-> s]
=============================================================================
