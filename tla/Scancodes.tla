------------------------------- MODULE Scancodes -------------------------------
(***************************************************************************)
(* The scancode decoder of the keyboard driver (kernel/keyboard.c): the    *)
(* bytes of scan code set 2, one interrupt each, become key presses with   *)
(* their modifiers.                                                        *)
(*                                                                         *)
(* pressed_keys is left out: set_key_flag writes it and nothing reads it.  *)
(***************************************************************************)
EXTENDS Integers, Sequences, SequencesExt

\* Characters that are written as names here.
NUL == "NUL"
NL == "NL"
CR == "CR"
TAB == "TAB"
BS == "BS"
BACKSLASH == "BACKSLASH"
QUOTE == "QUOTE"
GRAVE == "GRAVE"
APOSTROPHE == "APOSTROPHE"

-----------------------------------------------------------------------------
(* The tables.  A keycode is the name of its key; a byte with no entry     *)
(* reads as 0, which is the code of Escape.                                *)

\* The keys of a table from its first byte on, "" where it has no entry.
Entries(first, names) ==
  [b \in {n \in first..first + Len(names) - 1 : names[n - first + 1] # ""} |->
     names[b - first + 1]]

scancode_set_2 ==
  Entries(\h01, <<"F9", "", "F5", "F3", "F1", "F2", "F12", "", "F10", "F8", "F6", "F4",
    "TAB", "BACKTICK", "", "", "LALT", "LSHIFT", "", "LCTRL", "Q", "1", "", "", "",
    "Z", "S", "A", "W", "2", "", "", "C", "X", "D", "E", "4", "3", "", "",
    "SPACE", "V", "F", "T", "R", "5", "", "", "N", "B", "H", "G", "Y", "6", "", "", "",
    "M", "J", "U", "7", "8", "", "", "COMMA", "K", "I", "O", "0", "9", "", "",
    "PERIOD", "SLASH", "L", "SEMICOLON", "P", "MINUS", "", "", "", "QUOT", "",
    "LBRACKET", "EQUAL", "", "", "CAPS", "RSHIFT", "ENTER", "RBRACKET", "", "BSLASH",
    "", "", "", "", "", "", "", "", "BACKSPACE", "", "", "PAD_1", "", "PAD_4", "PAD_7",
    "", "", "", "PAD_0", "PAD_DOT", "PAD_2", "PAD_5", "PAD_7", "PAD_8", "ESC", "NUMLOCK", "F11",
    "PAD_PLUS", "PAD_3", "PAD_MINUS", "PAD_STAR", "PAD_9", "SCLLK", "", "", "", "", "F7">>)

e_scancode_set_2 ==
  Entries(\h10, <<"MM_WWW", "RALT", "", "", "RCTRL", "MM_PREV_TRACK", "", "",
    "MM_WWW_FAV", "", "", "", "", "", "", "LGUI", "MM_WWW_REFRESH", "MM_VDOWN", "",
    "MM_MUTE", "", "", "", "RGUI", "MM_WWW_STOP", "", "", "MM_CALCULATOR", "", "", "",
    "APPS", "MM_WWW_FORWARD", "", "MM_VUP", "", "MM_PAUSE", "", "", "ACPI_POWER",
    "MM_WWW_BACK", "", "MM_WWW_HOME", "MM_STOP", "", "", "", "ACPI_SLEEP",
    "MM_COMPUTER", "", "", "", "", "", "", "", "MM_EMAIL", "", "PAD_SLASH", "", "",
    "MM_NEXT_TRACK", "", "", "MM_MEDIA_SEL", "", "", "", "PAD_ENTER",
    "", "", "", "", "", "", "", "", "", "ACPI_WAKE", "", "", "", "", "", "", "", "", "", "",
    "END", "",
    "MOUSE_LEFT", "HOME", "", "", "", "INSERT", "DEL", "MOUSE_DOWN", "MOUSE_RIGHT",
    "MOUSE_UP", "", "", "", "", "", "PGDWN", "", "", "PGUP">>)

scancode_set_2_pause == <<\hE1, \h14, \h77, \hE1, \hF0, \h14, \hF0, \h77>>

\* A table from keys to characters; a key with no entry has NUL.
Characters(keys, chars) == [k \in ToSet(keys) |-> chars[CHOOSE i \in DOMAIN keys : keys[i] = k]]

Printing ==
  <<"BACKTICK", "1", "2", "3", "4", "5", "6", "7", "8", "9", "0", "MINUS", "EQUAL",
    "Q", "W", "E", "R", "T", "Y", "U", "I", "O", "P", "LBRACKET", "RBRACKET", "BSLASH",
    "A", "S", "D", "F", "G", "H", "J", "K", "L", "SEMICOLON", "QUOT",
    "Z", "X", "C", "V", "B", "N", "M", "COMMA", "PERIOD", "SLASH">>
OnBothLevels ==
  <<"BACKSPACE", "TAB", "ENTER", "SPACE", "PAD_SLASH", "PAD_STAR", "PAD_7", "PAD_8", "PAD_9",
    "PAD_MINUS", "PAD_4", "PAD_5", "PAD_6", "PAD_PLUS", "PAD_1", "PAD_2", "PAD_3", "PAD_0",
    "PAD_DOT">>
SameCharacters ==
  <<BS, TAB, NL, " ", "/", "*", "7", "8", "9", "-", "4", "5", "6", "+", "1", "2", "3", "0", ".">>

LowerPrinting ==
  <<GRAVE, "1", "2", "3", "4", "5", "6", "7", "8", "9", "0", "-", "=",
    "q", "w", "e", "r", "t", "y", "u", "i", "o", "p", "[", "]", BACKSLASH,
    "a", "s", "d", "f", "g", "h", "j", "k", "l", ";", APOSTROPHE,
    "z", "x", "c", "v", "b", "n", "m", ",", ".", "/">>
UpperPrinting ==
  <<"~", "!", "@", "#", "$", "%", "^", "&", "*", "(", ")", "_", "+",
    "Q", "W", "E", "R", "T", "Y", "U", "I", "O", "P", "{", "}", "|",
    "A", "S", "D", "F", "G", "H", "J", "K", "L", ":", QUOTE,
    "Z", "X", "C", "V", "B", "N", "M", "<", ">", "?">>

lower_ascii == Characters(OnBothLevels \o Printing, SameCharacters \o LowerPrinting)
upper_ascii == Characters(OnBothLevels \o Printing, SameCharacters \o UpperPrinting)

ModifierOf ==
  [code \in {"LSHIFT", "RSHIFT", "LALT", "RALT", "LCTRL", "RCTRL", "FN", "LGUI", "RGUI"} |->
     CASE code \in {"LSHIFT", "RSHIFT"} -> "shift"
       [] code \in {"LALT", "RALT"} -> "alt"
       [] code \in {"LCTRL", "RCTRL"} -> "control"
       [] code = "FN" -> "function"
       [] OTHER -> "gui"]
ToggleOf ==
  [code \in {"CAPS", "NUMLOCK", "SCLLK"} |->
     CASE code = "CAPS" -> "caps_lock"
       [] code = "NUMLOCK" -> "num_lock"
       [] OTHER -> "scroll_lock"]

-----------------------------------------------------------------------------
(* The decoder.  Its state: the bytes of the scancode so far, the          *)
(* modifiers that are down, the toggles that are on, the key press the     *)
(* last byte completed, and whether a byte was written behind              *)
(* scancode_bytes: what that does is beyond C, so the model stops there.   *)

ScancodeSize == 8  \* the length of scancode_bytes
NoPress == [code |-> "none"]

Decoder0 == [bytes |-> <<>>, modifiers |-> {}, toggles |-> {}, press |-> NoPress,
             overrun |-> FALSE]

LookUp(table, key, default) == IF key \in DOMAIN table THEN table[key] ELSE default

keycode_to_ascii(code, d) ==
  LET capitalize == ("shift" \in d.modifiers) # ("caps_lock" \in d.toggles)
  IN LookUp(IF capitalize THEN upper_ascii ELSE lower_ascii, code, NUL)

scanset2_to_keycode(b) ==
  LET n == Len(b) IN
  CASE n = 1 -> LookUp(scancode_set_2, b[1], "ESC")
    [] n = 2 /\ b[1] = \hF0 -> LookUp(scancode_set_2, b[2], "ESC")
    [] n = 2 /\ b[1] = \hE0 -> LookUp(e_scancode_set_2, b[2], "ESC")
    [] n = 3 /\ b[1] = \hE0 /\ b[2] = \hF0 -> LookUp(e_scancode_set_2, b[3], "ESC")
    [] b \in {<<\hE0, \h12, \hE0, \h7C>>, <<\hE1, \hF0, \h7C, \hE1, \hF0, \h12>>} -> "PRINTSCR"
    [] n = 8 -> "PAUSE"
    [] OTHER -> "ESC"

\* Fault: a key that goes up leaves its modifier on.
ModifierStays(code, released, d) ==
  CASE code \in DOMAIN ModifierOf ->
         [d EXCEPT !.modifiers = @ \cup {ModifierOf[code]}]
    [] code \in DOMAIN ToggleOf /\ ~released ->
         [d EXCEPT !.toggles = IF ToggleOf[code] \in @ THEN @ \ {ToggleOf[code]}
                               ELSE @ \cup {ToggleOf[code]}]
    [] OTHER -> d

update_special_keys(code, released, d) ==
  CASE code \in DOMAIN ModifierOf ->
         [d EXCEPT !.modifiers = IF released THEN @ \ {ModifierOf[code]}
                                 ELSE @ \cup {ModifierOf[code]}]
    [] code \in DOMAIN ToggleOf /\ ~released ->
         [d EXCEPT !.toggles = IF ToggleOf[code] \in @ THEN @ \ {ToggleOf[code]}
                               ELSE @ \cup {ToggleOf[code]}]
    [] OTHER -> d

\* Fault: the first byte is looked at in place of the last one.
continue_after_prefix(b) == b[1] \in {\hE0, \hE1, \hF0}

\* Whether the scancode goes on after the bytes b.
continue_scan(b) ==
  \/ Last(b) \in {\hE0, \hE1, \hF0}
  \/ Len(b) = 2 /\ b[1] = \hE0 /\ b[2] = \h12
  \/ Len(b) = 3 /\ b[1] = \hE0 /\ b[3] = \h7C
  \/ IsPrefix(b, scancode_set_2_pause)

on_key_pressed(d, scancode) ==
  LET b == Append(d.bytes, scancode)
      code == scanset2_to_keycode(b)
      released == (Len(b) > 1 /\ b[1] = \hF0) \/ (Len(b) > 2 /\ b[2] = \hF0)
      updated == update_special_keys(code, released, d)
  IN CASE Len(b) > ScancodeSize -> [d EXCEPT !.overrun = TRUE, !.press = NoPress]
       [] Len(b) <= ScancodeSize /\ continue_scan(b) ->
            [d EXCEPT !.bytes = b, !.press = NoPress]
       [] OTHER ->
            [updated EXCEPT !.bytes = <<>>,
               !.press = [code |-> code, released |-> released,
                          ascii |-> keycode_to_ascii(code, updated),
                          modifiers |-> updated.modifiers, toggles |-> updated.toggles]]

-----------------------------------------------------------------------------
(* The keyboard: what one of 104 keys sends for a key in scan code set 2,  *)
(* row by row.  With Shift down it takes Shift back around the keys of the *)
(* middle block.                                                           *)

FunctionRow ==
  {<<"ESC", \h76>>, <<"F1", \h05>>, <<"F2", \h06>>, <<"F3", \h04>>, <<"F4", \h0C>>,
   <<"F5", \h03>>, <<"F6", \h0B>>, <<"F7", \h83>>, <<"F8", \h0A>>, <<"F9", \h01>>,
   <<"F10", \h09>>, <<"F11", \h78>>, <<"F12", \h07>>, <<"SCLLK", \h7E>>}
DigitRow ==
  {<<"BACKTICK", \h0E>>, <<"1", \h16>>, <<"2", \h1E>>, <<"3", \h26>>, <<"4", \h25>>,
   <<"5", \h2E>>, <<"6", \h36>>, <<"7", \h3D>>, <<"8", \h3E>>, <<"9", \h46>>, <<"0", \h45>>,
   <<"MINUS", \h4E>>, <<"EQUAL", \h55>>, <<"BACKSPACE", \h66>>}
LetterRows ==
  {<<"TAB", \h0D>>, <<"Q", \h15>>, <<"W", \h1D>>, <<"E", \h24>>, <<"R", \h2D>>, <<"T", \h2C>>,
   <<"Y", \h35>>, <<"U", \h3C>>, <<"I", \h43>>, <<"O", \h44>>, <<"P", \h4D>>,
   <<"LBRACKET", \h54>>, <<"RBRACKET", \h5B>>, <<"BSLASH", \h5D>>,
   <<"CAPS", \h58>>, <<"A", \h1C>>, <<"S", \h1B>>, <<"D", \h23>>, <<"F", \h2B>>, <<"G", \h34>>,
   <<"H", \h33>>, <<"J", \h3B>>, <<"K", \h42>>, <<"L", \h4B>>, <<"SEMICOLON", \h4C>>,
   <<"QUOT", \h52>>, <<"ENTER", \h5A>>}
LowerRows ==
  {<<"LSHIFT", \h12>>, <<"Z", \h1A>>, <<"X", \h22>>, <<"C", \h21>>, <<"V", \h2A>>, <<"B", \h32>>,
   <<"N", \h31>>, <<"M", \h3A>>, <<"COMMA", \h41>>, <<"PERIOD", \h49>>, <<"SLASH", \h4A>>,
   <<"RSHIFT", \h59>>, <<"LCTRL", \h14>>, <<"LALT", \h11>>, <<"SPACE", \h29>>}
Pad ==
  {<<"NUMLOCK", \h77>>, <<"PAD_STAR", \h7C>>, <<"PAD_MINUS", \h7B>>, <<"PAD_PLUS", \h79>>,
   <<"PAD_7", \h6C>>, <<"PAD_8", \h75>>, <<"PAD_9", \h7D>>, <<"PAD_4", \h6B>>, <<"PAD_5", \h73>>,
   <<"PAD_6", \h74>>, <<"PAD_1", \h69>>, <<"PAD_2", \h72>>, <<"PAD_3", \h7A>>, <<"PAD_0", \h70>>,
   <<"PAD_DOT", \h71>>}

\* The keys whose byte follows an E0.
ShiftedAround ==
  {<<"INSERT", \h70>>, <<"HOME", \h6C>>, <<"PGUP", \h7D>>, <<"DEL", \h71>>, <<"END", \h69>>,
   <<"PGDWN", \h7A>>, <<"UP_ARROW", \h75>>, <<"LEFT_ARROW", \h6B>>, <<"DOWN_ARROW", \h72>>,
   <<"RIGHT_ARROW", \h74>>, <<"PAD_SLASH", \h4A>>}
OtherExtended ==
  {<<"RALT", \h11>>, <<"RCTRL", \h14>>, <<"LGUI", \h1F>>, <<"RGUI", \h27>>, <<"APPS", \h2F>>,
   <<"PAD_ENTER", \h5A>>}

\* A set of keys with their bytes, as a function.
BytesOf(pairs) == [key \in {p[1] : p \in pairs} |-> (CHOOSE p \in pairs : p[1] = key)[2]]

KeyBytes == FunctionRow \cup DigitRow \cup LetterRows \cup LowerRows \cup Pad
EKeyBytes == ShiftedAround \cup OtherExtended
KeyByte == BytesOf(KeyBytes)
EByte == BytesOf(EKeyBytes)
MiddleBlock == {p[1] : p \in ShiftedAround}

MakeCode(key, shifted) ==
  CASE key = "PAUSE" -> scancode_set_2_pause
    [] key = "PRINTSCR" -> (IF shifted THEN <<>> ELSE <<\hE0, \h12>>) \o <<\hE0, \h7C>>
    [] key \in DOMAIN EByte ->
         (IF shifted /\ key \in MiddleBlock THEN <<\hE0, \hF0, \h12>> ELSE <<>>)
         \o <<\hE0, EByte[key]>>
    [] OTHER -> <<KeyByte[key]>>

BreakCode(key, shifted) ==
  CASE key = "PAUSE" -> <<>>
    [] key = "PRINTSCR" ->
         <<\hE0, \hF0, \h7C>> \o (IF shifted THEN <<>> ELSE <<\hE0, \hF0, \h12>>)
    [] key \in DOMAIN EByte ->
         <<\hE0, \hF0, EByte[key]>>
         \o (IF shifted /\ key \in MiddleBlock THEN <<\hE0, \h12>> ELSE <<>>)
    [] OTHER -> <<\hF0, KeyByte[key]>>
=============================================================================
