--------------------------------- MODULE Shell ---------------------------------
(***************************************************************************)
(* The shell (kernel/bash.c): the line being typed, its execution on       *)
(* Enter, and what both write to the screen.                               *)
(*                                                                         *)
(* The shell's state is a record: command and command_length, the screen,  *)
(* the last command run, and whether an index left the array, where the    *)
(* model stops: what lies behind command depends on the build.             *)
(***************************************************************************)
EXTENDS Printf, Screen

CONSTANTS
  CommandSize,  \* the length of command
  Words,        \* the words of the commands, in the order process_command tries them
  WordBits      \* the width of a uint32_t

\* What the words stand for: echo, out_byte, out_word, out_double, and three that
\* read a byte each.
Actions == <<"echo", "out8", "out16", "out32", "in8", "in8", "in8">>
Bits ==
  [action \in {"out8", "out16", "out32"} |->
     CASE action = "out8" -> WordBits \div 4
       [] action = "out16" -> WordBits \div 2
       [] OTHER -> WordBits]

Prompt == <<">", " ">>

\* A line and the prompt before it are on the screen at once, also when it has just
\* scrolled; every word stands for something, and leaves room in command for the first
\* character behind it and one more.
ASSUME ShellAssumption ==
  /\ CommandSize \in Nat \ {0} /\ WordBits \in Nat \ {0}
  /\ CommandSize + Len(Prompt) <= ScreenWidth * (ScreenHeight - 1)
  /\ DOMAIN Words \subseteq DOMAIN Actions
  /\ \A i \in DOMAIN Words :
       Words[i] \in Seq(STRING \ {"NUL"}) /\ Len(Words[i]) \in 0..CommandSize - 2

Invalid == <<"?", "NL">>  \* "Invalid Command\n"
Nothing == [action |-> "none"]

Printed(sh, text) == [sh EXCEPT !.screen = Write(@, text)]

Char(sh, i) == sh.command[i]

HexDigit == {hexchars[i] : i \in 1..16} \cup {"a", "b", "c", "d", "e", "f"}
HexValue(c) ==
  IF c \in ToSet(hexchars) THEN DigitValue(c)
  ELSE 10 + (CHOOSE i \in 0..5 : <<"a", "b", "c", "d", "e", "f">>[i + 1] = c)

\* to_int from index i on: the value, and the index it stops at.  Every index up to
\* that one is read, the array's end excepted.
to_int(sh, i) ==
  LET next == CHOOSE k \in i..CommandSize :
                /\ k = CommandSize \/ Char(sh, k) \notin HexDigit
                /\ \A j \in i..k - 1 : Char(sh, j) \in HexDigit
      digits == [j \in 1..next - i |-> HexValue(Char(sh, i + j - 1))]
  IN [value |-> FoldLeft(LAMBDA v, d : (v * 16 + d) % 2^WordBits, 0, digits),
      next |-> next]

\* A uint32_t handed to printf as an int.
AsInt(v) == IF v >= 2^(WordBits - 1) THEN v - 2^WordBits ELSE v

cmd_echo(sh, from) ==
  LET text == [i \in 1..CommandSize - from |-> Char(sh, from + i - 1)]
      shown == IF Char(sh, 0) = "NUL" THEN <<>> ELSE text
  IN [Printed(sh, shown \o <<"NL">>) EXCEPT !.ran = [action |-> "echo", text |-> shown]]

\* The second number starts behind the character that ended the first: with a line
\* that fills the array that is behind the array.
cmd_out(sh, action, from) ==
  LET port == to_int(sh, from)
      value == to_int(sh, port.next + 1)
      report == format_print(<<"[", "%", "#", "x", "]", "<", "%", "#", "x", "NL">>,
                             <<AsInt(port.value), AsInt(value.value)>>)
  IN IF port.next + 1 >= CommandSize THEN [sh EXCEPT !.overrun = TRUE]
     ELSE [Printed(sh, report) EXCEPT
             !.ran = [action |-> action, port |-> port.value % 2^(WordBits \div 2),
                      value |-> value.value % 2^Bits[action]]]

\* byte: what the device answers.
cmd_in(sh, action, from, byte) ==
  LET port == to_int(sh, from)
      report == format_print(<<"[", "%", "#", "x", "]", ">", "%", "#", "x", "NL">>,
                             <<AsInt(port.value), byte>>)
  IN [Printed(sh, report) EXCEPT
        !.ran = [action |-> action, port |-> port.value % 2^(WordBits \div 2)]]

\* memcmp of the first characters of command with a word.
StartsWith(sh, word) == \A i \in 1..Len(word) : Char(sh, i - 1) = word[i]

run_command(sh, byte) ==
  LET matching == {i \in DOMAIN Words : StartsWith(sh, Words[i])}
      first == CHOOSE i \in matching : \A j \in matching : i <= j
      action == Actions[first]
      from == Len(Words[first])
  IN IF matching = {} THEN [Printed(sh, Invalid) EXCEPT !.ran = [action |-> "unknown"]]
     ELSE CASE action = "echo" -> cmd_echo(sh, from)
            [] action \in DOMAIN Bits -> cmd_out(sh, action, from)
            [] OTHER -> cmd_in(sh, action, from, byte)

\* Fault: only the length is reset, the characters stay.
ForgetLength(sh) == [sh EXCEPT !.length = 0]

\* The loop at the end of process_command: blanks from command_length down to 0.
clear_command(sh) ==
  IF sh.length >= CommandSize THEN [sh EXCEPT !.overrun = TRUE]
  ELSE [sh EXCEPT !.command = [i \in DOMAIN @ |-> IF i <= sh.length THEN " " ELSE @[i]],
                  !.length = 0]

process_command(sh, byte) ==
  IF sh.length = 0 THEN Printed(sh, Prompt)
  ELSE LET ran == run_command(sh, byte)
       IN IF ran.overrun THEN ran ELSE Printed(clear_command(ran), Prompt)

\* Fault: a backspace is not stopped at the start of the line.
EraseAlways(sh) ==
  [Printed(sh, <<"BS">>) EXCEPT !.length = (@ - 1) % 256,
                                !.overrun = @ \/ sh.length = 0]

Erase(sh) ==
  IF sh.length > 0 THEN [Printed(sh, <<"BS">>) EXCEPT !.length = @ - 1] ELSE sh

Insert(sh, c) ==
  IF sh.length >= CommandSize THEN [sh EXCEPT !.overrun = TRUE]
  ELSE [sh EXCEPT !.command[sh.length] = c, !.length = @ + 1]

keypress_handler(sh, event, byte) ==
  LET c == event.ascii IN
  CASE c = "NUL" \/ event.released -> sh
    [] c = "BS" /\ ~event.released -> Erase(sh)
    [] c = "NL" /\ ~event.released -> process_command(Printed(sh, <<c>>), byte)
    [] OTHER -> Insert(Printed(sh, <<c>>), c)

\* The shell before bash_initialize, the screen with what was printed so far.
Shell0 == [command |-> [i \in 0..CommandSize - 1 |-> "NUL"], length |-> 0,
           screen |-> ClearScreen, ran |-> Nothing, overrun |-> FALSE]

bash_initialize(sh) == Printed(sh, <<"NL">> \o Prompt)
=============================================================================
