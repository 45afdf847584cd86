--------------------------------- MODULE Printf ---------------------------------
(***************************************************************************)
(* The formatted output of the C library (libc/format_print.c and          *)
(* libc/stdio.c) as functions from a format and its arguments to the       *)
(* characters printed.  A format and a text are sequences of characters.   *)
(***************************************************************************)
EXTENDS Integers, Sequences, SequencesExt

CONSTANT LongBits  \* the width of a long long

ASSUME LongBitsAssumption == LongBits \in Nat \ {0}

hexchars == <<"0", "1", "2", "3", "4", "5", "6", "7", "8", "9",
              "A", "B", "C", "D", "E", "F">>
Decimal == {hexchars[i] : i \in 1..10}
DigitValue(c) == (CHOOSE i \in 1..16 : hexchars[i] = c) - 1

MaxOf(m, n) == IF m >= n THEN m ELSE n
Repeat(c, n) == [i \in 1..MaxOf(n, 0) |-> c]

\* The digits of an unsigned number, the highest first.
Digits(n, radix) ==
  LET digits[m \in 0..n] ==
        IF m < radix THEN <<hexchars[m + 1]>>
        ELSE Append(digits[m \div radix], hexchars[(m % radix) + 1])
  IN digits[n]

\* The number as a sequence of characters; flags is a set of flag characters.
print_num(num, radix, width, precision, sign, flags) ==
  LET digits == Digits(IF sign /\ num < 0 THEN -num ELSE num % 2^LongBits, radix)
      pos == Len(digits)
      signs == CASE sign /\ num < 0 -> <<"-">>
                 [] sign /\ num >= 0 /\ "+" \in flags -> <<"+">>
                 [] OTHER -> IF " " \in flags THEN <<" ">> ELSE <<>>
      prefix == CASE "#" \in flags /\ radix = 8 /\ num = 0 -> <<"0">>
                  [] "#" \in flags /\ radix = 16 -> <<"0", "x">>
                  [] OTHER -> <<>>
      padding == width - MaxOf(pos, precision)
      padChar == IF "0" \in flags THEN "0" ELSE " "
      inFront == "-" \notin flags /\ padding > 0
      \* Before blanks the alternate form takes two characters in any radix.
      blanks == padding - Len(signs) - (IF "#" \in flags THEN 2 ELSE 0)
      rest == padding - Len(signs) - Len(prefix)
      number == Repeat("0", precision - pos)
                \o (IF precision # 0 \/ num # 0 THEN digits ELSE <<>>)
  IN CASE inFront /\ padChar = "0" -> signs \o prefix \o Repeat("0", rest) \o number
       [] inFront /\ padChar = " " -> Repeat(" ", blanks) \o signs \o prefix \o number
       [] OTHER -> signs \o prefix \o number \o Repeat(padChar, rest)

-----------------------------------------------------------------------------
(* format_print: one character of the format after the other.  h and l     *)
(* only tell the width of the argument, which is one element here.         *)

FlagChars == {"-", "+", " ", "#", "0", "'"}

FormatStart(args) ==
  [state |-> "NORMAL", flags |-> {}, width |-> 0, precision |-> -1,
   out |-> <<>>, args |-> args]

\* Fault: the width stays for the next directive.
FinishKeepingWidth(s, chars, used) ==
  [s EXCEPT !.state = "NORMAL", !.precision = -1,
            !.out = @ \o chars, !.args = IF used THEN Tail(@) ELSE @]

\* The end of a directive: every field but the flags is reset.
Finish(s, chars, used) ==
  [s EXCEPT !.state = "NORMAL", !.width = 0, !.precision = -1,
            !.out = @ \o chars, !.args = IF used THEN Tail(@) ELSE @]

Specifier(s, c) ==
  LET number(radix, sign) ==
        Finish(s, print_num(Head(s.args), radix, s.width, s.precision, sign, s.flags), TRUE)
  IN CASE c = "c" -> Finish(s, <<Head(s.args)>>, TRUE)
       [] c = "s" -> Finish(s, Head(s.args), TRUE)
       [] c = "%" -> Finish(s, <<"%">>, FALSE)
       [] c \in {"d", "i"} -> number(10, TRUE)
       [] c = "u" -> number(10, FALSE)
       [] c \in {"x", "X", "p"} -> number(16, FALSE)
       [] c = "o" -> number(8, FALSE)
       [] OTHER -> Finish(s, <<>>, FALSE)

Length(s, c) ==
  IF c \in {"h", "l"} THEN [s EXCEPT !.state = "LENGTH"] ELSE Specifier(s, c)

Precision(s, c) ==
  CASE c = "*" /\ s.precision = -1 ->
         [s EXCEPT !.precision = Head(s.args), !.args = Tail(@), !.state = "LENGTH"]
    [] c \in Decimal -> [s EXCEPT !.precision = MaxOf(@, 0) * 10 + DigitValue(c)]
    [] OTHER -> Length([s EXCEPT !.precision = MaxOf(@, 0)], c)

\* parseint and the field width; "*" is one only in its first place.
Width(s, c) ==
  CASE c = "*" /\ s.state = "FLAGS" ->
         [s EXCEPT !.width = Head(s.args), !.args = Tail(@), !.state = "STAR"]
    [] c \in Decimal /\ s.state # "STAR" ->
         [s EXCEPT !.width = @ * 10 + DigitValue(c), !.state = "WIDTH"]
    [] c = "." -> [s EXCEPT !.state = "PRECISION"]
    [] OTHER -> Length(s, c)

FormatChar(s, c) ==
  CASE s.state = "NORMAL" -> IF c = "%" THEN [s EXCEPT !.state = "FLAGS"]
                             ELSE [s EXCEPT !.out = Append(@, c)]
    [] s.state = "FLAGS" /\ c \in FlagChars -> [s EXCEPT !.flags = @ \cup {c}]
    [] s.state = "PRECISION" -> Precision(s, c)
    [] s.state = "LENGTH" -> Length(s, c)
    [] OTHER -> Width(s, c)

\* What fmt prints with the arguments args.
format_print(fmt, args) == FoldLeft(FormatChar, FormatStart(args), fmt).out

\* What vsnprintf stores in its array of n characters.  The limit is n - 1 of
\* an unsigned type: an array of no characters has none.
vsnprintf(n, fmt, args) ==
  LET out == format_print(fmt, args)
  IN Append(IF n > 0 /\ Len(out) > n - 1 THEN SubSeq(out, 1, n - 1) ELSE out, "NUL")
=============================================================================
