-------------------------------- MODULE Console --------------------------------
(***************************************************************************)
(* From the keyboard to the screen: a user at a keyboard, its bytes on the *)
(* wire, the decoder in the keyboard interrupt, the queue of events and    *)
(* the shell the main program calls with them.                             *)
(*                                                                         *)
(* The queue is the one events.h promises (module EventQueue); what an     *)
(* interrupt in the middle of call_next_event does to it is the subject of *)
(* module EventLoop.  The kernel registers the shell's handler at the end  *)
(* of its start: keys hit earlier are decoded and make no event.           *)
(***************************************************************************)
EXTENDS Scancodes, Shell

CONSTANTS
  Desks,      \* the users: [keys, together, ahead, hits]; who has one key down at a time
              \* only makes strokes, and no more than ahead events before the shell
  PortBytes   \* what devices answer to in_byte

\* All keys of the keyboard.
Keys == {"PAUSE", "PRINTSCR"} \cup DOMAIN KeyByte \cup DOMAIN EByte

ASSUME ConsoleAssumption ==
  /\ \A user \in Desks : user.keys \subseteq Keys
  /\ PortBytes \subseteq Nat

VARIABLES
  desk,      \* the user
  held,      \* the keys that are down, in the order they were hit
  hits,      \* bound: presses and releases so far
  wire,      \* bytes the keyboard sent and the driver has not handled
  caps,      \* whether the user switched capitals on
  expected,  \* what the driver has yet to report of the keys hit
  plain,     \* no key so far that the decoder is known to mistake
  paused,    \* whether Pause was hit
  decoder,   \* the statics of keyboard.c
  ready,     \* keypress_handler # NULL
  queue,     \* the events added and not yet handled
  shell,     \* the statics of bash.c and the screen
  line,      \* what was typed since the last prompt, as the user means it
  tabbed,    \* whether Tab was typed since the last prompt
  erased,    \* whether Backspace took a character away, ever
  longest    \* the most characters a line ever had

keyboardVars == <<desk, held, hits, caps, plain, paused>>
lineVars == <<line, tabbed, erased, longest>>
consoleVars == <<keyboardVars, wire, expected, decoder, ready, queue, shell, lineVars>>

Shifts == {"LSHIFT", "RSHIFT"}
Held == ToSet(held)

\* What is written on the keys, without Shift and with it; the pad is there for its
\* digits.
Legends ==
  {<<"BACKTICK", GRAVE, "~">>, <<"1", "1", "!">>, <<"2", "2", "@">>, <<"3", "3", "#">>,
   <<"4", "4", "$">>, <<"5", "5", "%">>, <<"6", "6", "^">>, <<"7", "7", "&">>, <<"8", "8", "*">>,
   <<"9", "9", "(">>, <<"0", "0", ")">>, <<"MINUS", "-", "_">>, <<"EQUAL", "=", "+">>,
   <<"Q", "q", "Q">>, <<"W", "w", "W">>, <<"E", "e", "E">>, <<"R", "r", "R">>, <<"T", "t", "T">>,
   <<"Y", "y", "Y">>, <<"U", "u", "U">>, <<"I", "i", "I">>, <<"O", "o", "O">>, <<"P", "p", "P">>,
   <<"LBRACKET", "[", "{">>, <<"RBRACKET", "]", "}">>, <<"BSLASH", BACKSLASH, "|">>,
   <<"A", "a", "A">>, <<"S", "s", "S">>, <<"D", "d", "D">>, <<"F", "f", "F">>, <<"G", "g", "G">>,
   <<"H", "h", "H">>, <<"J", "j", "J">>, <<"K", "k", "K">>, <<"L", "l", "L">>,
   <<"SEMICOLON", ";", ":">>, <<"QUOT", APOSTROPHE, QUOTE>>,
   <<"Z", "z", "Z">>, <<"X", "x", "X">>, <<"C", "c", "C">>, <<"V", "v", "V">>, <<"B", "b", "B">>,
   <<"N", "n", "N">>, <<"M", "m", "M">>, <<"COMMA", ",", "<">>, <<"PERIOD", ".", ">">>,
   <<"SLASH", "/", "?">>}
OneCharacter ==
  {<<"BACKSPACE", BS>>, <<"TAB", TAB>>, <<"ENTER", NL>>, <<"SPACE", " ">>,
   <<"PAD_0", "0">>, <<"PAD_1", "1">>, <<"PAD_2", "2">>, <<"PAD_3", "3">>, <<"PAD_4", "4">>,
   <<"PAD_5", "5">>, <<"PAD_6", "6">>, <<"PAD_7", "7">>, <<"PAD_8", "8">>, <<"PAD_9", "9">>,
   <<"PAD_DOT", ".">>, <<"PAD_PLUS", "+">>, <<"PAD_MINUS", "-">>, <<"PAD_STAR", "*">>,
   <<"PAD_SLASH", "/">>, <<"PAD_ENTER", NL>>}
UserChars ==
  LET legends == Legends \cup {<<k[1], k[2], k[2]>> : k \in OneCharacter}
  IN [key \in {k[1] : k \in legends} |-> Tail(CHOOSE k \in legends : k[1] = key)]

\* The report a key calls for, by what the user sees on the keyboard.
Report(key, released, shifted, capitals) ==
  [code |-> key, released |-> released,
   ascii |-> IF key \notin DOMAIN UserChars THEN NUL
             ELSE UserChars[key][IF shifted # capitals THEN 2 ELSE 1]]

\* The keys the decoder's tables have another byte for, or none: 6 on the pad is 7,
\* Enter on the pad is Escape, the arrows are moves of a mouse, and one is Escape.
MissingKeys ==
  {"PAD_6", "PAD_ENTER", "UP_ARROW", "LEFT_ARROW", "DOWN_ARROW", "RIGHT_ARROW"}

\* The keys the decoder is known to mistake: these; all of Pause; Print Screen when it goes
\* up, and with Shift; the keys of the middle block with Shift; a Shift that goes up
\* while the other is down; Caps Lock held down, which it toggles at every repeat.
Mistaken(key, kind, others) ==
  \/ key \in MissingKeys \cup {"PAUSE"}
  \/ key = "PRINTSCR" /\ (kind = "release" \/ others \cap Shifts # {})
  \/ key \in MiddleBlock /\ others \cap Shifts # {}
  \/ key \in Shifts /\ kind = "release" /\ others \cap Shifts # {}
  \/ key = "CAPS" /\ kind = "repeat"

ConsoleInit ==
  /\ desk \in Desks
  /\ held = <<>> /\ hits = 0 /\ wire = <<>> /\ caps = FALSE
  /\ expected = <<>> /\ plain = TRUE /\ paused = FALSE
  /\ decoder = Decoder0 /\ ready = FALSE /\ queue = <<>>
  /\ shell = Shell0
  /\ line = <<>> /\ tabbed = FALSE /\ erased = FALSE /\ longest = 0

\* The model ends where the code leaves its arrays.
Defined == ~decoder.overrun /\ ~shell.overrun /\ ~shell.screen.outside

\* The keyboard sends code for a key, which calls for reports; the wire holds the
\* bytes of one hit.
Send(key, kind, code, reports) ==
  /\ Defined
  /\ wire = <<>>
  /\ hits < desk.hits /\ Len(queue) <= desk.ahead
  /\ hits' = hits + 1
  /\ wire' = code
  /\ plain' = (plain /\ ~Mistaken(key, kind, Held \ {key}))
  /\ paused' = (paused \/ key = "PAUSE")
  /\ expected' = expected \o reports
  /\ UNCHANGED <<desk, decoder, ready, queue, shell, lineVars>>

Press(key) ==
  LET capitals == caps # (key = "CAPS")
  IN /\ key \notin Held /\ 1 < desk.together /\ Len(held) < desk.together
     /\ held' = Append(held, key)
     /\ caps' = capitals
     /\ Send(key, "press", MakeCode(key, Held \cap Shifts # {}),
             <<Report(key, FALSE, Shifts \cap (Held \cup {key}) # {}, capitals)>>)

\* The key hit last goes on sending while it is down.
Typematic(key) ==
  /\ held # <<>> /\ key = Last(held) /\ key # "PAUSE"
  /\ UNCHANGED <<held, caps>>
  /\ Send(key, "repeat", MakeCode(key, (Held \ {key}) \cap Shifts # {}),
          <<Report(key, FALSE, Shifts \cap Held # {}, caps)>>)

Release(key) ==
  /\ key \in Held
  /\ held' = SelectSeq(held, LAMBDA k : k # key)
  /\ UNCHANGED caps
  /\ Send(key, "release", BreakCode(key, (Held \ {key}) \cap Shifts # {}),
          IF key = "PAUSE" THEN <<>>
          ELSE <<Report(key, TRUE, Shifts \cap (Held \ {key}) # {}, caps)>>)

\* A key hit and let go before the driver looks.
Stroke(key) ==
  /\ desk.together = 1
  /\ UNCHANGED <<held, caps>>
  /\ Send(key, "press", MakeCode(key, FALSE) \o BreakCode(key, FALSE),
          <<Report(key, FALSE, FALSE, caps), Report(key, TRUE, FALSE, caps)>>)

\* port_1_interrupt with no command waiting: one byte decoded.
KeyInterrupt ==
  /\ Defined
  /\ wire # <<>>
  /\ wire' = Tail(wire)
  /\ decoder' = on_key_pressed(decoder, Head(wire))
  /\ LET reported == decoder'.press # NoPress
     IN /\ queue' = IF reported /\ ready THEN Append(queue, decoder'.press) ELSE queue
        /\ expected' = IF reported /\ expected # <<>> THEN Tail(expected) ELSE expected
  /\ UNCHANGED <<keyboardVars, ready, shell, lineVars>>

\* The start of the kernel ends: the shell prints its prompt and takes the events.
StartShell ==
  /\ Defined /\ ~ready
  /\ ready' = TRUE
  /\ shell' = bash_initialize(shell)
  /\ UNCHANGED <<keyboardVars, wire, expected, decoder, queue, lineVars>>

\* call_next_event in the main loop.
HandleEvent ==
  /\ Defined
  /\ queue # <<>>
  /\ queue' = Tail(queue)
  /\ LET event == Head(queue)
         c == IF event.released THEN NUL ELSE event.ascii
     IN /\ \E byte \in PortBytes :
             shell' = keypress_handler([shell EXCEPT !.ran = Nothing], event, byte)
        /\ line' = CASE c = NUL -> line
                     [] c = NL -> <<>>
                     [] c = BS -> IF line = <<>> THEN line ELSE Front(line)
                     [] OTHER -> Append(line, c)
        /\ tabbed' = (c = TAB \/ (tabbed /\ c # NL))
        /\ erased' = (erased \/ c = BS)
        /\ longest' = MaxOf(longest, Len(line'))
  /\ UNCHANGED <<keyboardVars, wire, expected, decoder, ready>>

ConsoleNext ==
  \/ \E key \in desk.keys : Press(key)
  \/ \E key \in desk.keys : Typematic(key)
  \/ \E key \in desk.keys : Release(key)
  \/ \E key \in desk.keys : Stroke(key)
  \/ KeyInterrupt
  \/ StartShell
  \/ HandleEvent

ConsoleSpec == ConsoleInit /\ [][ConsoleNext]_consoleVars

-----------------------------------------------------------------------------
(* Properties *)

ConsoleTypeOK ==
  /\ decoder.modifiers \subseteq {"shift", "alt", "control", "function", "gui"}
  /\ decoder.toggles \subseteq {"caps_lock", "num_lock", "scroll_lock"}
  /\ Len(decoder.bytes) <= ScancodeSize
  /\ shell.length \in 0..CommandSize
  /\ DOMAIN shell.command = 0..CommandSize - 1
  /\ shell.screen.x \in 0..ScreenWidth - 1 /\ shell.screen.y \in 0..ScreenHeight - 1
  /\ DOMAIN shell.screen.cells = Cells

\* While no key was hit that the decoder mistakes, every key hit, repeated and
\* released is reported once, in order, with its character under the Shift and Caps
\* Lock the user sees; with the wire silent nothing is left to report, the decoder
\* waits for a first byte, and it takes Shift for down if and only if it is.
KeysReported ==
  /\ [][decoder'.press # NoPress /\ Len(wire') < Len(wire) /\ plain =>
          /\ expected # <<>>
          /\ decoder'.press.code = Head(expected).code
          /\ decoder'.press.released = Head(expected).released
          /\ decoder'.press.ascii = Head(expected).ascii]_<<decoder, wire>>
  /\ [](plain /\ wire = <<>> =>
          /\ expected = <<>> /\ decoder.bytes = <<>>
          /\ ("shift" \in decoder.modifiers) = (Held \cap Shifts # {}))

\* Whatever was hit but Pause, the decoder never writes behind its eight bytes, and
\* with the wire silent it holds at most the beginning of one Print Screen.
ScancodesInBounds ==
  ~paused => ~decoder.overrun /\ (wire = <<>> => Len(decoder.bytes) <= 3)

\* On the screen the line being typed stands behind the prompt, also where it wraps,
\* is erased or scrolls, with the cursor behind it, and it is what the shell holds, until
\* a Tab is typed, which Backspace takes one column back of its up to four.
LineOnScreen ==
  LET length == shell.length
      start == shell.screen.shown - length
      before == shell.screen.cells
  IN Defined /\ ready /\ ~tabbed =>
       /\ line = [i \in 1..length |-> shell.command[i - 1]]
       /\ \A i \in 1..length : before[start + i - 1] = line[i]
       /\ \A i \in 1..Len(Prompt) : before[start - Len(Prompt) + i - 1] = Prompt[i]
       /\ \A i \in shell.screen.shown..ScreenWidth * ScreenHeight - 1 : before[i] = NUL

\* The commands a line stands for, read from what was typed alone.
Padded(text) == text \o Repeat(" ", CommandSize - Len(text))
Number(text) ==
  LET digits == SelectInSeq(text, LAMBDA c : c \notin HexDigit)
      len == IF digits = 0 THEN Len(text) ELSE digits - 1
  IN [value |-> FoldLeft(LAMBDA v, d : (v * 16 + d) % 2^WordBits, 0,
                         [i \in 1..len |-> HexValue(text[i])]),
      rest |-> SubSeq(text, len + 2, Len(text))]

Meant(text) ==
  LET padded == Padded(text)
      starting == {i \in DOMAIN Words : IsPrefix(Words[i], padded)}
      first == CHOOSE i \in starting : \A j \in starting : i <= j
      arguments == SubSeq(padded, Len(Words[first]) + 1, CommandSize)
      port == Number(arguments)
      action == Actions[first]
  IN CASE starting = {} -> [action |-> "unknown"]
       [] starting # {} /\ action = "echo" -> [action |-> action, text |-> arguments]
       [] starting # {} /\ action \in DOMAIN Bits ->
            [action |-> action, port |-> port.value % 2^(WordBits \div 2),
             value |-> Number(port.rest).value % 2^Bits[action]]
       [] OTHER -> [action |-> action, port |-> port.value % 2^(WordBits \div 2)]

\* NUL, which command holds at the start, prints like a blank.
Blanked(ran) ==
  IF ran.action # "echo" THEN ran
  ELSE [ran EXCEPT !.text = [i \in DOMAIN @ |-> IF @[i] = NUL THEN " " ELSE @[i]]]

\* The line does not end where a word has its blank: command holds a blank there after
\* a longer line and NUL before, so that the line is a command once and once it is not.
EndsOutsideWords(text) ==
  \A i \in DOMAIN Words :
    Len(text) < Len(Words[i]) /\ IsPrefix(text, Words[i]) =>
      Words[i][Len(text) + 1] # " "

\* Enter runs the command of the line typed and nothing of the lines before it, as
\* long as Backspace was never used: characters taken back stay in command, and those
\* behind the line typed are executed with it.
ExecutedIsTyped ==
  [][(/\ Len(queue') < Len(queue) /\ shell'.ran # Nothing /\ ~shell'.overrun /\ ~erased
      /\ EndsOutsideWords(line))
       => Blanked(shell'.ran) = Meant(line)]_<<shell, line, queue>>

\* The shell stays inside command as long as no line gets longer than two characters
\* less than it: the second number of a command is read behind the blank that ends
\* the first, and clearing a line writes the character behind it.  Its backspaces
\* stay on the screen, Tabs excepted: Backspace takes them back a column at a time,
\* and from there the prompt and the rows above it, up to the first.
ShellInBounds ==
  /\ longest <= CommandSize - 2 => ~shell.overrun
  /\ ~tabbed => ~shell.screen.outside
=============================================================================
