------------------------------- MODULE MCConsole -------------------------------
(***************************************************************************)
(* Users for module Console: a fast one with all kinds of keys, one who    *)
(* types lines, a key at a time, and one for every key of the keyboard,    *)
(* who has it and Shift; and instead of a user, samples of numbers to      *)
(* print for module Printf.                                                *)
(***************************************************************************)
EXTENDS Console

CONSTANTS FastHits, TypedHits  \* bounds: what each user types

VARIABLE sample  \* a number and how to print it, or NoSample

NoSample == [spec |-> "none"]
Samples == [flags : SUBSET {"-", "+", " ", "#", "0"}, width : {0, 3, 6},
            precision : {-1, 0, 4}, spec : {"d", "u", "x", "o"},
            num : {-20, -1, 0, 7, 100}]

MCDesks ==
  {[keys |-> {"A", "LSHIFT", "RSHIFT", "CAPS", "PGUP", "PRINTSCR", "PAUSE"},
    together |-> 2, ahead |-> 8, hits |-> FastHits],
   [keys |-> {"E", "O", "1", "ENTER", "BACKSPACE", "TAB"},
    together |-> 1, ahead |-> 0, hits |-> TypedHits]}
  \cup {[keys |-> {"LSHIFT", key}, together |-> 2, ahead |-> 8, hits |-> 2] : key \in Keys}

\* One ends with a blank, like all words of the code.
MCWords == <<<<"e">>, <<"o">>, <<"1", " ">>, <<"q">>, <<"i">>, <<"j">>, <<"k">>>>

MCInit ==
  /\ ConsoleInit
  /\ sample \in IF desk.together = 1 THEN {NoSample} \cup Samples ELSE {NoSample}

MCNext == sample = NoSample /\ ConsoleNext /\ UNCHANGED sample

MCSpec == MCInit /\ [][MCNext]_<<consoleVars, sample>>

-----------------------------------------------------------------------------
\* A field of a directive: a number in decimal, at least zero.
Field(n) == IF n > 0 THEN Digits(n, 10) ELSE <<"0">>

Directive(s) ==
  <<"%">> \o SetToSeq(s.flags) \o (IF s.width > 0 THEN Field(s.width) ELSE <<>>)
  \o (IF s.precision >= 0 THEN <<".">> \o Field(s.precision) ELSE <<>>) \o <<s.spec>>

Radix == ("d" :> 10) @@ ("u" :> 10) @@ ("x" :> 16) @@ ("o" :> 8)

\* The value of a printed number: without its blanks, its sign and its 0x.
ReadBack(out, s) ==
  LET bare == SelectSeq(out, LAMBDA c : c # " ")
      signed == bare # <<>> /\ Head(bare) \in {"-", "+"}
      unsigned == IF signed THEN Tail(bare) ELSE bare
      digits == IF s.spec = "x" /\ "#" \in s.flags THEN SubSeq(unsigned, 3, Len(unsigned))
                ELSE unsigned
      value == FoldLeft(LAMBDA v, c : v * Radix[s.spec] + DigitValue(c), 0, digits)
  IN IF signed /\ Head(bare) = "-" THEN -value ELSE value

\* A number printed reads back as the number, as the unsigned long long it becomes
\* where it is not signed; it fills its field; a directive without flags leaves the
\* next one as if it were alone; and an array is never written behind its end.  Four
\* things the code does otherwise are left out: "-" with "0" appends zeros to the
\* number, "#" takes room for a prefix it may not print, a zero of precision 0 takes
\* room for the digit it does not print, and flags last until the end of the format.
PrintsFaithfully ==
  sample # NoSample =>
    LET format == Directive(sample)
        out == format_print(format, <<sample.num>>)
    IN /\ {"-", "0"} \subseteq sample.flags \/ ReadBack(out, sample) =
            (IF sample.spec = "d" THEN sample.num ELSE sample.num % 2^LongBits)
       /\ \/ "#" \in sample.flags \/ (sample.precision = 0 /\ sample.num = 0)
          \/ Len(out) >= sample.width
       /\ sample.flags # {} \/
            format_print(format \o <<"%", "d">>, <<sample.num, 5>>) = Append(out, "5")
       /\ \A n \in 1..3 : Len(vsnprintf(n, format, <<sample.num>>)) <= n
=============================================================================
