-------------------------------- MODULE Printf --------------------------------
(***************************************************************************)
(* vprintf.c: what the monitor prints for a directive of a format and its  *)
(* argument.  A directive is the record that vprintf makes of its          *)
(* characters; what is printed is a sequence of characters.                *)
(***************************************************************************)
EXTENDS Integers, SequencesExt

CONSTANTS
  ULONG, USHRT,    \* ranges of unsigned int and long, and of unsigned short
  Directives       \* the directives to look at, with their arguments

ZEROPAD == "0"
SIGN == "signed"
PLUS == "+"
SPACE == " "
LEFT == "-"
SPECIAL == "#"
LARGE == "X"

Blank == " "
Lower == <<"0", "1", "2", "3", "4", "5", "6", "7", "8", "9", "a", "b", "c", "d", "e", "f">>
Upper == <<"0", "1", "2", "3", "4", "5", "6", "7", "8", "9", "A", "B", "C", "D", "E", "F">>

\* The width is a number or, after a star, an argument, and -1 if there is none;
\* the precision may be there, as a number or as an argument.
Directive == [flags : SUBSET {ZEROPAD, PLUS, SPACE, LEFT, SPECIAL}, star : BOOLEAN, width : Int,
              dot : BOOLEAN, precision : Int, qualifier : {"", "h", "l", "L", "Z"},
              conv : {"d", "u", "o", "x", "X", "c", "s", "p"}, arg : Int \cup Seq(STRING)]

PrintfConstantsOK ==
  /\ ULONG \in Nat /\ USHRT \in 2 .. ULONG /\ ULONG % 2 = 0 /\ USHRT % 2 = 0
  /\ \A d \in Directives :
       /\ DOMAIN d = DOMAIN [flags |-> 0, star |-> 0, width |-> 0, dot |-> 0, precision |-> 0,
                             qualifier |-> 0, conv |-> 0, arg |-> 0]
       /\ d.flags \subseteq {ZEROPAD, PLUS, SPACE, LEFT, SPECIAL}
       /\ d.star \/ d.width >= -1

VARIABLES
  directive,
  out       \* what has been printed for it

NotPrinted == <<"nothing">>

----------------------------------------------------------------------------
(* vprintf *)

Width(d) == IF d.star /\ d.width < 0 THEN -d.width ELSE d.width

Precision(d) == IF ~d.dot THEN -1 ELSE IF d.precision < 0 THEN 0 ELSE d.precision

Flags(d) ==
  d.flags \cup (IF d.star /\ d.width < 0 THEN {LEFT} ELSE {})
          \cup (IF d.conv = "d" THEN {SIGN} ELSE {})
          \cup (IF d.conv = "X" THEN {LARGE} ELSE {})

Base(d) == CASE d.conv = "o" -> 8 [] d.conv \in {"x", "X", "p"} -> 16 [] OTHER -> 10

\* A value of so many bits, taken for a signed one.
Signed(x, range) == IF x >= range \div 2 THEN x - range ELSE x

\* The argument as the long long that number gets; a size_t is a long here.
Argument(d) ==
  LET signed(x, range) == IF SIGN \in Flags(d) THEN Signed(x, range) ELSE x
  IN CASE d.qualifier = "L" -> Signed(d.arg, ULONG * ULONG)
       [] d.qualifier = "Z" -> Signed(d.arg, ULONG)
       [] d.qualifier = "h" -> signed(d.arg % USHRT, USHRT)
       [] d.qualifier \in {"", "l"} -> signed(d.arg, ULONG)

Times(n, c) == [k \in 1 .. n |-> c]

\* do_div makes the number an unsigned long.
Digits(num, base, letters) ==
  LET f[k \in 0 .. ULONG - 1] == IF k = 0 THEN <<>> ELSE Append(f[k \div base], letters[(k % base) + 1])
      n == num % ULONG
  IN IF n = 0 THEN <<"0">> ELSE f[n]

\* What is left of the field: the sign, the prefix and the digits take room.
\* A mutant forgets the sign.
RoomUnsigned(size, sign, prefix, digits) == size - prefix - digits
Room(size, sign, prefix, digits) == size - sign - prefix - digits

number(num, base, size, precision, type) ==
  LET left == LEFT \in type
      zero == ZEROPAD \in type /\ ~left
      letters == IF LARGE \in type THEN Upper ELSE Lower
      negative == SIGN \in type /\ num < 0
      sign == IF SIGN \notin type THEN <<>>
              ELSE IF negative THEN <<"-">>
              ELSE IF PLUS \in type THEN <<"+">>
              ELSE IF SPACE \in type THEN <<Blank>>
              ELSE <<>>
      prefix == IF SPECIAL \notin type THEN <<>>
                ELSE IF base = 16 THEN <<"0", IF LARGE \in type THEN "X" ELSE "x">>
                ELSE IF base = 8 THEN <<"0">>
                ELSE <<>>
      digits == Digits(IF negative THEN -num ELSE num, base, letters)
      more == IF precision > Len(digits) THEN precision - Len(digits) ELSE 0
      room == Room(size, Len(sign), Len(prefix), Len(digits) + more)
  IN (IF left \/ zero THEN <<>> ELSE Times(room, Blank)) \o sign \o prefix
       \o (IF zero THEN Times(room, "0") ELSE <<>>) \o Times(more, "0") \o digits
       \o (IF left THEN Times(room, Blank) ELSE <<>>)

\* In a field: blanks before it, or after.
InField(d, text) ==
  LET room == Times(Width(d) - Len(text), Blank)
  IN IF LEFT \in Flags(d) THEN text \o room ELSE room \o text

\* strnlen: no precision is no limit.
String(d) ==
  IF Precision(d) >= 0 /\ Precision(d) < Len(d.arg) THEN SubSeq(d.arg, 1, Precision(d)) ELSE d.arg

Conversion(d) ==
  CASE d.conv = "c" -> InField(d, d.arg)
    [] d.conv = "s" -> InField(d, String(d))
    [] d.conv = "p" -> IF Width(d) = -1 THEN number(d.arg, 16, 8, Precision(d), Flags(d) \cup {ZEROPAD})
                       ELSE number(d.arg, 16, Width(d), Precision(d), Flags(d))
    [] OTHER -> number(Argument(d), Base(d), Width(d), Precision(d), Flags(d))

\* A line feed is printed with a carriage return before it.
putchar(text) == FlattenSeq([k \in 1 .. Len(text) |-> IF text[k] = "LF" THEN <<"CR", "LF">> ELSE <<text[k]>>])

vprintf ==
  /\ out = NotPrinted /\ out' = putchar(Conversion(directive))
  /\ UNCHANGED directive

Init == directive \in Directives /\ out = NotPrinted

----------------------------------------------------------------------------
(* Properties *)

\* What a reader makes of the text: blanks, a sign, a prefix, and digits.
Solid(text) == SelectSeq(text, LAMBDA c : c # Blank)
Unsigned(text) == IF Head(Solid(text)) \in {"+", "-"} THEN Tail(Solid(text)) ELSE Solid(text)
DigitsOf(text) ==
  IF SPECIAL \in directive.flags /\ Base(directive) = 16 THEN SubSeq(Unsigned(text), 3, Len(Unsigned(text)))
  ELSE Unsigned(text)
Magnitude(text) ==
  FoldLeft(LAMBDA n, c : n * Base(directive) + (CHOOSE k \in 0 .. 15 : c \in {Lower[k + 1], Upper[k + 1]}),
           0, DigitsOf(text))
Reading(text) == IF Head(Solid(text)) = "-" THEN -Magnitude(text) ELSE Magnitude(text)

\* What the C language says a directive prints: the value of the argument, in its width.
Value(d) ==
  LET range == CASE d.qualifier = "h" -> USHRT [] d.qualifier = "L" -> ULONG * ULONG [] OTHER -> ULONG
  IN IF d.conv = "d" THEN Signed(d.arg % range, range) ELSE d.arg % range

\* The length of a number without its field: one place for the sign if there is one,
\* the prefix, and as many digits as it needs or more.
Needed(d) ==
  LET v == IF Value(d) < 0 THEN -Value(d) ELSE Value(d)
      digits == CHOOSE n \in 1 .. 20 : v < Base(d)^n /\ (n > 1 => v >= Base(d)^(n - 1))
      signed == d.conv = "d" /\ (Value(d) < 0 \/ d.flags \cap {PLUS, SPACE} # {})
  IN (IF signed THEN 1 ELSE 0)
     + (IF SPECIAL \notin d.flags THEN 0 ELSE CASE Base(d) = 16 -> 2 [] Base(d) = 8 -> 1 [] OTHER -> 0)
     + (IF Precision(d) > digits THEN Precision(d) ELSE digits)

MaxOf(a, b) == IF a > b THEN a ELSE b

\* The field that is asked for; a pointer has eight digits if none is.
Field(d) == IF d.conv = "p" /\ Width(d) = -1 THEN 8 ELSE Width(d)

NumberExact(d) ==
  /\ Reading(out) = Value(d)
  /\ Len(out) = MaxOf(Field(d), Needed(d))
  /\ IF LEFT \in Flags(d)
       THEN \A k \in 2 .. Len(out) : out[k] = Blank => \A j \in k .. Len(out) : out[j] = Blank
       ELSE out[Len(out)] # Blank

\* Of a string, as many characters as the precision lets through, or all.
TextExact(d) ==
  LET text == SelectSeq(out, LAMBDA c : c # "CR")
      n == IF d.conv = "s" /\ d.dot /\ Precision(d) < Len(d.arg) THEN Precision(d) ELSE Len(d.arg)
      before == IF LEFT \in Flags(d) THEN 0 ELSE Len(text) - n
  IN /\ Len(text) = MaxOf(Width(d), n)
     /\ \A k \in 1 .. Len(text) :
          text[k] = IF k - before \in 1 .. n THEN d.arg[k - before] ELSE Blank
     /\ \A k \in 1 .. Len(out) : out[k] = "LF" => k > 1 /\ out[k - 1] = "CR"

\* A directive for an integer prints a number that reads as the value of its
\* argument, in a field as wide as was asked for or as the number needs, blanks on the
\* side they belong to; for every flag, width, precision and qualifier.  A string and
\* a character come out as they are.  Values beyond an unsigned long are cut.
PrintedExact ==
  out # NotPrinted =>
    IF directive.conv \in {"c", "s"} THEN TextExact(directive)
    ELSE Value(directive) \in -(ULONG - 1) .. ULONG - 1 => NumberExact(directive)
=============================================================================
