----------------------------- MODULE ConsoleProofs -----------------------------
(***************************************************************************)
(* The console for every user, screen, line and command: the decoder stays *)
(* within its bytes, the shell within its line and the screen, and what is *)
(* typed is what stands behind the prompt.                                 *)
(***************************************************************************)
EXTENDS Console, SequenceTheorems, FiniteSetTheorems, NaturalsInduction,
        WellFoundedInduction, TLAPS

-----------------------------------------------------------------------------
(* The decoder.                                                            *)

Modifiers == {"shift", "alt", "control", "function", "gui"}
Toggles == {"caps_lock", "num_lock", "scroll_lock"}

Codes ==
  {scancode_set_2[b] : b \in DOMAIN scancode_set_2}
  \cup {e_scancode_set_2[b] : b \in DOMAIN e_scancode_set_2}
  \cup {"ESC", "PRINTSCR", "PAUSE"}

Ascii ==
  {lower_ascii[k] : k \in DOMAIN lower_ascii}
  \cup {upper_ascii[k] : k \in DOMAIN upper_ascii} \cup {NUL}

KeyPresses == [code : Codes, released : BOOLEAN, ascii : Ascii,
               modifiers : SUBSET Modifiers, toggles : SUBSET Toggles]

Decoders == [bytes : Seq(Nat), modifiers : SUBSET Modifiers, toggles : SUBSET Toggles,
             press : {NoPress} \cup KeyPresses, overrun : BOOLEAN]

\* Every byte string has a keycode.
LEMMA CodesTyped == ASSUME NEW b PROVE scanset2_to_keycode(b) \in Codes
BY DEF scanset2_to_keycode, LookUp, Codes

LEMMA AsciiTyped == ASSUME NEW code, NEW d PROVE keycode_to_ascii(code, d) \in Ascii
BY DEF keycode_to_ascii, LookUp, Ascii

\* A key changes the modifiers and the toggles, and nothing else of the decoder.
LEMMA SpecialKeysTyped ==
  ASSUME NEW code, NEW released \in BOOLEAN, NEW d \in Decoders,
         NEW e, e = update_special_keys(code, released, d)
  PROVE  e \in Decoders
<1>1. ASSUME code \in DOMAIN ModifierOf PROVE ModifierOf[code] \in Modifiers
  BY <1>1 DEF ModifierOf, Modifiers
<1>2. ASSUME code \in DOMAIN ToggleOf PROVE ToggleOf[code] \in Toggles
  BY <1>2 DEF ToggleOf, Toggles
<1> QED BY <1>1, <1>2 DEF update_special_keys, Decoders

\* What one byte does: the decoder waits for more, or the key is complete, or there is
\* no room for it.
LEMMA OnKeyPressedEffect ==
  ASSUME NEW d \in Decoders, Len(d.bytes) <= ScancodeSize, NEW scancode \in Nat,
         NEW e, e = on_key_pressed(d, scancode)
  PROVE  /\ e \in Decoders /\ Len(e.bytes) <= ScancodeSize
         /\ Len(d.bytes) < ScancodeSize =>
              /\ e.overrun = d.overrun
              /\ e.bytes = IF continue_scan(Append(d.bytes, scancode))
                             THEN Append(d.bytes, scancode) ELSE <<>>
<1>1. PICK b : b = Append(d.bytes, scancode)
  OBVIOUS
<1>2. b \in Seq(Nat) /\ Len(b) = Len(d.bytes) + 1 /\ Len(d.bytes) \in Nat
  BY <1>1 DEF Decoders
<1>3. PICK code : code = scanset2_to_keycode(b)
  OBVIOUS
<1>4. PICK released : released = ((Len(b) > 1 /\ b[1] = \hF0) \/ (Len(b) > 2 /\ b[2] = \hF0))
  OBVIOUS
<1>5. PICK updated : updated = update_special_keys(code, released, d)
  OBVIOUS
<1>6. updated \in Decoders
  BY <1>4, <1>5, SpecialKeysTyped
<1>7. PICK press : press = [code |-> code, released |-> released,
                            ascii |-> keycode_to_ascii(code, updated),
                            modifiers |-> updated.modifiers, toggles |-> updated.toggles]
  OBVIOUS
<1>8. press \in KeyPresses
  BY <1>3, <1>4, <1>6, <1>7, CodesTyped, AsciiTyped DEF KeyPresses, Decoders
<1>9. updated.overrun = d.overrun
  BY <1>5 DEF update_special_keys, Decoders
<1>10. CASE Len(b) > ScancodeSize
  <2>1. e = [d EXCEPT !.overrun = TRUE, !.press = NoPress]
    BY <1>1, <1>2, <1>10 DEF on_key_pressed, ScancodeSize
  <2>2. e \in Decoders /\ e.bytes = d.bytes
    BY <2>1 DEF Decoders
  <2>3. ~ (Len(d.bytes) < ScancodeSize)
    BY <1>2, <1>10 DEF ScancodeSize
  <2> QED BY <2>2, <2>3
<1>11. CASE Len(b) <= ScancodeSize /\ continue_scan(b)
  <2>1. e = [d EXCEPT !.bytes = b, !.press = NoPress]
    BY <1>1, <1>2, <1>11 DEF on_key_pressed, ScancodeSize
  <2> QED BY <1>1, <1>2, <1>11, <2>1 DEF Decoders, ScancodeSize
<1>12. CASE Len(b) <= ScancodeSize /\ ~continue_scan(b)
  <2>1. ~ (Len(b) > ScancodeSize)
    BY <1>2, <1>12 DEF ScancodeSize
  <2>2. e = [updated EXCEPT !.bytes = <<>>, !.press = press]
    BY <1>1, <1>3, <1>4, <1>5, <1>7, <1>12, <2>1, Zenon DEF on_key_pressed
  <2>3. press \in {NoPress} \cup KeyPresses
    BY <1>8
  <2>4. <<>> \in Seq(Nat) /\ Len(<<>>) = 0
    OBVIOUS
  <2>5. e \in Decoders
    BY <1>6, <2>2, <2>3, <2>4 DEF Decoders
  <2>6. e.bytes = <<>> /\ e.overrun = updated.overrun
    BY <1>6, <2>2 DEF Decoders
  <2> QED BY <1>1, <1>9, <1>12, <2>4, <2>5, <2>6 DEF ScancodeSize
<1> QED BY <1>2, <1>10, <1>11, <1>12 DEF ScancodeSize

-----------------------------------------------------------------------------
(* The wire.  But for those of Pause, scancodes have no more than two      *)
(* prefixes in a row, and a byte that is none behind them.                 *)

PrefixBytes == {\hE0, \hE1, \hF0}

Tame(w) ==
  /\ w \in Seq(Nat)
  /\ \A i \in 1..Len(w) : w[i] # \hE1
  /\ \A i \in 1..Len(w) : w[i] \in PrefixBytes =>
       /\ i < Len(w)
       /\ w[i + 1] \in PrefixBytes => i + 1 < Len(w) /\ w[i + 2] \notin PrefixBytes

\* Behind three bytes there is room for the two prefixes and the byte after them.
Room(b, w) ==
  Len(b) > 3 =>
    /\ Len(b) <= 5 /\ w # <<>>
    /\ Len(b) = 5 => w[1] \notin PrefixBytes
    /\ Len(b) = 4 => w[1] \notin PrefixBytes \/ w[2] \notin PrefixBytes

LEMMA TameTail ==
  ASSUME NEW w, Tame(w), w # <<>>
  PROVE  Tame(Tail(w))
<1>1. PICK n \in Nat : n = Len(w)
  BY DEF Tame
<1>2. n > 0
  BY <1>1 DEF Tame
<1>3. PICK t : t = Tail(w)
  OBVIOUS
<1>4. t \in Seq(Nat) /\ Len(t) = n - 1 /\ \A i \in 1..n - 1 : t[i] = w[i + 1]
  BY <1>1, <1>2, <1>3 DEF Tame
<1>5. \A i \in 1..n - 1 : i + 1 \in 1..n
  BY <1>1
<1>6. ASSUME NEW i \in 1..n - 1, t[i] \in PrefixBytes
      PROVE  /\ i < n - 1
             /\ t[i + 1] \in PrefixBytes => i + 1 < n - 1 /\ t[i + 2] \notin PrefixBytes
  <2>1. w[i + 1] \in PrefixBytes
    BY <1>4, <1>6
  <2>2. /\ i + 1 < n
        /\ w[i + 2] \in PrefixBytes => i + 2 < n /\ w[i + 3] \notin PrefixBytes
    BY <1>1, <1>5, <2>1 DEF Tame
  <2>3. t[i + 1] = w[i + 2]
    BY <1>4, <2>2
  <2>4. i + 2 < n => t[i + 2] = w[i + 3]
    BY <1>4
  <2> QED BY <2>2, <2>3, <2>4
<1>7. \A i \in 1..n - 1 : t[i] # \hE1
  BY <1>1, <1>4, <1>5 DEF Tame
<1> QED BY <1>3, <1>4, <1>6, <1>7 DEF Tame

LEMMA TameConcat ==
  ASSUME NEW u, NEW v, Tame(u), Tame(v)
  PROVE  Tame(u \o v)
<1>1. PICK m \in Nat : m = Len(u)
  BY DEF Tame
<1>2. PICK n \in Nat : n = Len(v)
  BY DEF Tame
<1>3. PICK w : w = u \o v
  OBVIOUS
<1>4. /\ w \in Seq(Nat) /\ Len(w) = m + n
      /\ \A i \in 1..m : w[i] = u[i]
      /\ \A i \in m + 1..m + n : w[i] = v[i - m]
  BY <1>1, <1>2, <1>3 DEF Tame
<1>5. \A i \in m + 1..m + n : i - m \in 1..n
  OBVIOUS
<1>6. ASSUME NEW i \in 1..m, w[i] \in PrefixBytes
      PROVE  /\ i < m + n
             /\ w[i + 1] \in PrefixBytes => i + 1 < m + n /\ w[i + 2] \notin PrefixBytes
  <2>1. /\ i < m
        /\ u[i + 1] \in PrefixBytes => i + 1 < m /\ u[i + 2] \notin PrefixBytes
    BY <1>1, <1>4, <1>6 DEF Tame
  <2>2. w[i + 1] = u[i + 1] /\ (i + 1 < m => w[i + 2] = u[i + 2])
    <3>1. i + 1 \in 1..m /\ (i + 1 < m => i + 2 \in 1..m)
      BY <2>1
    <3> QED BY <1>4, <3>1
  <2> QED BY <2>1, <2>2
<1>7. ASSUME NEW i \in m + 1..m + n, w[i] \in PrefixBytes
      PROVE  /\ i < m + n
             /\ w[i + 1] \in PrefixBytes => i + 1 < m + n /\ w[i + 2] \notin PrefixBytes
  <2>1. PICK j \in 1..n : j = i - m
    BY <1>5
  <2>2. /\ j < n
        /\ v[j + 1] \in PrefixBytes => j + 1 < n /\ v[j + 2] \notin PrefixBytes
    BY <1>2, <1>4, <1>7, <2>1 DEF Tame
  <2>3. i + 1 \in m + 1..m + n /\ i + 1 - m = j + 1
    BY <2>1, <2>2
  <2>4. w[i + 1] = v[j + 1]
    BY <1>4, <2>3
  <2>5. ASSUME j + 1 < n PROVE i + 1 < m + n /\ w[i + 2] = v[j + 2]
    <3>1. i + 2 \in m + 1..m + n /\ i + 2 - m = j + 2
      BY <2>1, <2>5
    <3>2. i + 1 < m + n
      BY <3>1
    <3>3. w[i + 2] = v[i + 2 - m]
      BY <1>4, <3>1
    <3> QED BY <3>1, <3>2, <3>3
  <2> QED BY <2>1, <2>2, <2>4, <2>5
<1>8. ASSUME NEW i \in 1..m + n
      PROVE  /\ w[i] # \hE1
             /\ w[i] \in PrefixBytes =>
                  /\ i < m + n
                  /\ w[i + 1] \in PrefixBytes => i + 1 < m + n /\ w[i + 2] \notin PrefixBytes
  <2>1. CASE i \in 1..m
    <3>1. w[i] # \hE1
      BY <1>1, <1>4, <2>1 DEF Tame
    <3> QED BY <1>6, <2>1, <3>1
  <2>2. CASE i \in m + 1..m + n
    <3>1. w[i] # \hE1
      BY <1>2, <1>4, <1>5, <2>2 DEF Tame
    <3> QED BY <1>7, <2>2, <3>1
  <2>3. i \in 1..m \/ i \in m + 1..m + n
    OBVIOUS
  <2> QED BY <2>1, <2>2, <2>3
<1>9. Tame(w)
  <2>1. w \in Seq(Nat) /\ Len(w) = m + n
    BY <1>4
  <2> QED BY <1>8, <2>1 DEF Tame
<1> QED BY <1>3, <1>9

\* The bytes of the keys' own codes are no prefixes.
LEMMA TableBytes ==
  /\ \A p \in KeyBytes : p[2] \in 1..131
  /\ \A p \in EKeyBytes : p[2] \in 1..131 /\ p[1] # "PRINTSCR" /\ p[1] # "PAUSE"
<1>1. \A p \in FunctionRow : p[2] \in 1..131
  BY DEF FunctionRow
<1>2. \A p \in DigitRow : p[2] \in 1..131
  BY DEF DigitRow
<1>3. \A p \in LetterRows : p[2] \in 1..131
  BY DEF LetterRows
<1>4. \A p \in LowerRows : p[2] \in 1..131
  BY DEF LowerRows
<1>5. \A p \in Pad : p[2] \in 1..131
  BY DEF Pad
<1>6. \A p \in ShiftedAround : p[2] \in 1..131 /\ p[1] # "PRINTSCR" /\ p[1] # "PAUSE"
  BY DEF ShiftedAround
<1>7. \A p \in OtherExtended : p[2] \in 1..131 /\ p[1] # "PRINTSCR" /\ p[1] # "PAUSE"
  BY DEF OtherExtended
<1> QED BY <1>1, <1>2, <1>3, <1>4, <1>5, <1>6, <1>7 DEF KeyBytes, EKeyBytes

LEMMA CodeOfKey ==
  ASSUME NEW pairs, NEW key \in DOMAIN BytesOf(pairs)
  PROVE  \E p \in pairs : p[1] = key /\ BytesOf(pairs)[key] = p[2]
<1>1. \E p \in pairs : p[1] = key
  BY DEF BytesOf
<1>2. PICK p : p = CHOOSE q \in pairs : q[1] = key
  OBVIOUS
<1>3. p \in pairs /\ p[1] = key
  BY <1>1, <1>2
<1>4. BytesOf(pairs)[key] = p[2]
  BY <1>1, <1>2 DEF BytesOf
<1> QED BY <1>3, <1>4

LEMMA KeysHaveBytes ==
  /\ \A key \in DOMAIN KeyByte : KeyByte[key] \in 1..131
  /\ \A key \in DOMAIN EByte : EByte[key] \in 1..131 /\ key # "PRINTSCR" /\ key # "PAUSE"
BY TableBytes, CodeOfKey DEF KeyByte, EByte

\* What the keyboard sends for any key but Pause is tame.
LEMMA KeyCodesTame ==
  ASSUME NEW key \in Keys, key # "PAUSE", NEW shifted
  PROVE  Tame(MakeCode(key, shifted)) /\ Tame(BreakCode(key, shifted))
<1>1. ASSUME NEW b \in 1..131
      PROVE  /\ Tame(<<b>>) /\ Tame(<<\hF0, b>>) /\ Tame(<<\hE0, b>>)
             /\ Tame(<<\hE0, \hF0, b>>)
  BY <1>1 DEF Tame, PrefixBytes
<1>2. Tame(<<>>)
  BY DEF Tame
<1>3. CASE key = "PRINTSCR"
  <2>1. MakeCode(key, shifted) =
          (IF shifted THEN <<>> ELSE <<\hE0, \h12>>) \o <<\hE0, \h7C>>
    BY <1>3, KeysHaveBytes DEF MakeCode
  <2>2. BreakCode(key, shifted) =
          <<\hE0, \hF0, \h7C>> \o (IF shifted THEN <<>> ELSE <<\hE0, \hF0, \h12>>)
    BY <1>3, KeysHaveBytes DEF BreakCode
  <2>3. \h12 \in 1..131 /\ \h7C \in 1..131
    OBVIOUS
  <2>4. Tame(<<\hE0, \h12>>) /\ Tame(<<\hE0, \hF0, \h12>>)
    BY <1>1, <2>3
  <2>5. Tame(<<\hE0, \h7C>>) /\ Tame(<<\hE0, \hF0, \h7C>>)
    BY <1>1, <2>3
  <2> QED BY <1>2, <2>1, <2>2, <2>4, <2>5, TameConcat
<1>4. CASE key \in DOMAIN EByte
  <2>1. EByte[key] \in 1..131 /\ key # "PRINTSCR"
    BY <1>4, KeysHaveBytes
  <2>2. PICK b \in 1..131 : b = EByte[key]
    BY <2>1
  <2>3. MakeCode(key, shifted) =
          (IF shifted /\ key \in MiddleBlock THEN <<\hE0, \hF0, \h12>> ELSE <<>>)
          \o <<\hE0, b>>
    BY <1>4, <2>1, <2>2 DEF MakeCode
  <2>4. BreakCode(key, shifted) =
          <<\hE0, \hF0, b>>
          \o (IF shifted /\ key \in MiddleBlock THEN <<\hE0, \h12>> ELSE <<>>)
    BY <1>4, <2>1, <2>2 DEF BreakCode
  <2>5. \h12 \in 1..131
    OBVIOUS
  <2>6. Tame(<<\hE0, \hF0, \h12>>) /\ Tame(<<\hE0, \h12>>)
    BY <1>1, <2>5
  <2>7. Tame(<<\hE0, b>>) /\ Tame(<<\hE0, \hF0, b>>)
    BY <1>1
  <2>8. PICK before : before = IF shifted /\ key \in MiddleBlock THEN <<\hE0, \hF0, \h12>> ELSE <<>>
    OBVIOUS
  <2>9. PICK after : after = IF shifted /\ key \in MiddleBlock THEN <<\hE0, \h12>> ELSE <<>>
    OBVIOUS
  <2>10. Tame(before) /\ Tame(after)
    BY <1>2, <2>6, <2>8, <2>9
  <2>11. Tame(before \o <<\hE0, b>>) /\ Tame(<<\hE0, \hF0, b>> \o after)
    BY <2>7, <2>10, TameConcat
  <2> QED BY <2>3, <2>4, <2>8, <2>9, <2>11
<1>5. CASE key # "PRINTSCR" /\ key \notin DOMAIN EByte
  <2>1. key \in DOMAIN KeyByte
    BY <1>5 DEF Keys
  <2>2. KeyByte[key] \in 1..131
    BY <2>1, KeysHaveBytes
  <2>3. MakeCode(key, shifted) = <<KeyByte[key]>> /\ BreakCode(key, shifted) = <<\hF0, KeyByte[key]>>
    BY <1>5 DEF MakeCode, BreakCode
  <2>4. Tame(<<KeyByte[key]>>) /\ Tame(<<\hF0, KeyByte[key]>>)
    BY <1>1, <2>2
  <2> QED BY <2>3, <2>4, Zenon
<1> QED BY <1>3, <1>4, <1>5

LEMMA CodesAreBytes ==
  ASSUME NEW key \in Keys, NEW shifted
  PROVE  MakeCode(key, shifted) \in Seq(Nat) /\ BreakCode(key, shifted) \in Seq(Nat)
<1>1. CASE key = "PAUSE"
  <2>1. "PAUSE" \notin DOMAIN EByte
    BY KeysHaveBytes
  <2>2. MakeCode(key, shifted) = scancode_set_2_pause /\ BreakCode(key, shifted) = <<>>
    BY <1>1, <2>1 DEF MakeCode, BreakCode
  <2> QED BY <2>2 DEF scancode_set_2_pause
<1> QED BY <1>1, KeyCodesTame DEF Tame

\* While Pause is not hit a scancode ends by its sixth byte.
LEMMA ScancodesEnd ==
  ASSUME NEW d \in Decoders, ~d.overrun,
         d.bytes # <<>> => d.bytes[1] # \hE1,
         NEW w, Tame(w), w # <<>>, Room(d.bytes, w), Len(d.bytes) <= ScancodeSize,
         NEW e, e = on_key_pressed(d, Head(w))
  PROVE  /\ ~e.overrun
         /\ e.bytes # <<>> => e.bytes[1] # \hE1
         /\ Room(e.bytes, Tail(w))
<1>1. PICK n \in Nat : n = Len(d.bytes)
  BY DEF Decoders
<1>2. Len(w) \in Nat /\ Len(w) > 0 /\ Head(w) = w[1] /\ w[1] \in Nat /\ w[1] # \hE1
  BY DEF Tame
<1>3. n <= 5
  BY <1>1 DEF Room
<1>4. PICK b : b = Append(d.bytes, w[1])
  OBVIOUS
<1>5. /\ b \in Seq(Nat) /\ Len(b) = n + 1 /\ b[n + 1] = w[1]
      /\ n > 0 => b[1] = d.bytes[1] /\ d.bytes # <<>>
  BY <1>1, <1>2, <1>4 DEF Decoders
<1>6. b[1] # \hE1 /\ b # <<>>
  BY <1>2, <1>5
<1>7. /\ ~e.overrun
      /\ e.bytes = IF continue_scan(b) THEN b ELSE <<>>
  BY <1>1, <1>2, <1>3, <1>4, OnKeyPressedEffect DEF ScancodeSize
<1>8. CASE w[1] \in PrefixBytes
  <2>1. Last(b) = w[1]
    BY <1>5 DEF Last
  <2>2. e.bytes = b
    BY <1>7, <1>8, <2>1 DEF continue_scan, PrefixBytes
  <2>3. ASSUME n = 5 PROVE FALSE
    <3>1. Len(d.bytes) > 3 /\ Len(d.bytes) = 5
      BY <1>1, <2>3
    <3> QED BY <1>8, <3>1 DEF Room
  <2>4. /\ 1 < Len(w)
        /\ w[2] \in PrefixBytes => 2 < Len(w) /\ w[3] \notin PrefixBytes
    BY <1>2, <1>8 DEF Tame
  <2>5. ASSUME n = 4 PROVE w[2] \notin PrefixBytes
    <3>1. Len(d.bytes) > 3 /\ Len(d.bytes) = 4
      BY <1>1, <2>5
    <3> QED BY <1>8, <3>1 DEF Room
  <2>6. /\ Tail(w) # <<>> /\ Tail(w)[1] = w[2]
        /\ 2 < Len(w) => Tail(w)[2] = w[3]
    <3>1. w \in Seq(Nat) /\ Len(w) \in Nat
      BY DEF Tame
    <3>2. \A i \in 1..Len(w) - 1 : Tail(w)[i] = w[i + 1]
      BY <1>2, <3>1
    <3>3. Len(Tail(w)) = Len(w) - 1
      BY <1>2, <3>1, SMTT(30)
    <3>4. 1 \in 1..Len(w) - 1 /\ (2 < Len(w) => 2 \in 1..Len(w) - 1)
      BY <2>4, <3>1
    <3>5. Tail(w)[1] = w[1 + 1] /\ (2 < Len(w) => Tail(w)[2] = w[2 + 1])
      BY <3>2, <3>4
    <3>6. Tail(w) # <<>>
      BY <2>4, <3>1, <3>3, SMTT(30)
    <3> QED BY <3>5, <3>6
  <2>7. Room(b, Tail(w))
    BY <1>3, <1>5, <2>3, <2>4, <2>5, <2>6, SMTT(30) DEF Room
  <2> QED BY <1>6, <1>7, <2>2, <2>7
<1>9. CASE w[1] \notin PrefixBytes
  <2>1. ASSUME n >= 3 PROVE ~continue_scan(b)
    <3>1. Last(b) \notin PrefixBytes
      BY <1>5, <1>9 DEF Last
    <3>2. Len(b) # 2 /\ Len(b) # 3
      BY <1>5, <2>1
    <3>3. ASSUME IsPrefix(b, scancode_set_2_pause) PROVE FALSE
      <4>1. SubSeq(b, 1, Len(b)) = SubSeq(scancode_set_2_pause, 1, Len(b)) /\ Len(b) <= 8
        BY <3>3 DEF IsPrefix, scancode_set_2_pause
      <4>2. SubSeq(b, 1, Len(b))[1] = b[1]
        BY <1>5
      <4>3. SubSeq(scancode_set_2_pause, 1, Len(b))[1] = \hE1
        BY <1>5, <4>1 DEF scancode_set_2_pause
      <4> QED BY <1>6, <4>1, <4>2, <4>3
    <3> QED BY <3>1, <3>2, <3>3 DEF continue_scan, PrefixBytes
  <2>2. e.bytes = <<>> \/ (e.bytes = b /\ Len(b) <= 3)
    BY <1>5, <1>7, <2>1
  <2>3. Len(<<>>) = 0
    OBVIOUS
  <2> QED BY <1>6, <1>7, <2>2, <2>3 DEF Room
<1> QED BY <1>8, <1>9

\* The decoder and the wire.
WireInv ==
  /\ desk \in Desks
  /\ wire \in Seq(Nat)
  /\ decoder \in Decoders /\ Len(decoder.bytes) <= ScancodeSize
  /\ ~paused =>
       /\ ~decoder.overrun
       /\ Tame(wire)
       /\ decoder.bytes # <<>> => decoder.bytes[1] # \hE1
       /\ Room(decoder.bytes, wire)

LEMMA WireInit == ConsoleInit => WireInv
<1> SUFFICES ASSUME ConsoleInit PROVE WireInv
  OBVIOUS
<1>1. /\ decoder = Decoder0 /\ wire = <<>> /\ desk \in Desks
  BY DEF ConsoleInit
<1>2. Decoder0 \in Decoders /\ Decoder0.bytes = <<>> /\ ~Decoder0.overrun
  BY DEF Decoder0, Decoders
<1>3. Tame(<<>>) /\ <<>> \in Seq(Nat) /\ Len(<<>>) = 0
  BY DEF Tame
<1> QED BY <1>1, <1>2, <1>3 DEF WireInv, Room, ScancodeSize

\* The wire is silent: the keyboard sends a code.
LEMMA SendKeepsWire ==
  ASSUME WireInv, NEW key \in desk.keys, NEW kind, NEW code, NEW reports,
         Send(key, kind, code, reports), code \in Seq(Nat), key # "PAUSE" => Tame(code)
  PROVE  WireInv'
<1>1. /\ wire = <<>> /\ wire' = code /\ decoder' = decoder /\ desk' = desk
      /\ paused' = (paused \/ key = "PAUSE")
  BY DEF Send
<1>2. ASSUME ~paused' PROVE Tame(wire') /\ ~paused
  BY <1>1, <1>2
<1>3. ASSUME ~paused PROVE Room(decoder'.bytes, wire')
  BY <1>1, <1>3 DEF WireInv, Room
<1> QED BY <1>1, <1>2, <1>3 DEF WireInv

LEMMA WireNext == WireInv /\ [ConsoleNext]_consoleVars => WireInv'
<1> SUFFICES ASSUME WireInv, [ConsoleNext]_consoleVars PROVE WireInv'
  OBVIOUS
<1>1. ASSUME NEW key \in desk.keys, NEW shifted
      PROVE  /\ MakeCode(key, shifted) \in Seq(Nat) /\ BreakCode(key, shifted) \in Seq(Nat)
             /\ key # "PAUSE" => Tame(MakeCode(key, shifted)) /\ Tame(BreakCode(key, shifted))
  <2>1. key \in Keys
    BY ConsoleAssumption DEF WireInv
  <2> QED BY <2>1, CodesAreBytes, KeyCodesTame
<1>2. ASSUME NEW key \in desk.keys, Press(key) PROVE WireInv'
  BY <1>1, <1>2, SendKeepsWire DEF Press
<1>3. ASSUME NEW key \in desk.keys, Typematic(key) PROVE WireInv'
  BY <1>1, <1>3, SendKeepsWire DEF Typematic
<1>4. ASSUME NEW key \in desk.keys, Release(key) PROVE WireInv'
  BY <1>1, <1>4, SendKeepsWire DEF Release
<1>5. ASSUME NEW key \in desk.keys, Stroke(key) PROVE WireInv'
  <2>1. PICK code : code = MakeCode(key, FALSE) \o BreakCode(key, FALSE)
    OBVIOUS
  <2>2. code \in Seq(Nat)
    <3>1. MakeCode(key, FALSE) \in Seq(Nat) /\ BreakCode(key, FALSE) \in Seq(Nat)
      BY <1>1
    <3> QED BY <2>1, <3>1, ConcatProperties
  <2>3. ASSUME key # "PAUSE" PROVE Tame(code)
    <3>1. Tame(MakeCode(key, FALSE)) /\ Tame(BreakCode(key, FALSE))
      BY <1>1, <2>3
    <3> QED BY <2>1, <3>1, TameConcat
  <2> QED BY <1>5, <2>1, <2>2, <2>3, SendKeepsWire DEF Stroke
<1>6. CASE KeyInterrupt
  <2>1. /\ wire # <<>> /\ wire' = Tail(wire) /\ decoder' = on_key_pressed(decoder, Head(wire))
        /\ desk' = desk /\ paused' = paused
    BY <1>6 DEF KeyInterrupt, keyboardVars
  <2>2. Tail(wire) \in Seq(Nat) /\ Head(wire) \in Nat
    BY <2>1 DEF WireInv
  <2>3. decoder' \in Decoders /\ Len(decoder'.bytes) <= ScancodeSize
    BY <2>1, <2>2, OnKeyPressedEffect DEF WireInv
  <2>4. ASSUME ~paused
        PROVE  /\ ~decoder'.overrun
               /\ Tame(Tail(wire))
               /\ decoder'.bytes # <<>> => decoder'.bytes[1] # \hE1
               /\ Room(decoder'.bytes, Tail(wire))
    BY <2>1, <2>4, ScancodesEnd, TameTail DEF WireInv
  <2> QED BY <2>1, <2>2, <2>3, <2>4 DEF WireInv
<1>7. CASE StartShell \/ HandleEvent \/ UNCHANGED consoleVars
  BY <1>7 DEF StartShell, HandleEvent, keyboardVars, consoleVars, WireInv
<1> QED BY <1>2, <1>3, <1>4, <1>5, <1>6, <1>7 DEF ConsoleNext

LEMMA WireTame == ConsoleSpec => []WireInv
BY WireInit, WireNext, PTL DEF ConsoleSpec

\* Whatever keys are hit, held and let go, in whatever order: as long as Pause is not
\* among them, on_key_pressed never writes behind the eight bytes of scancode_bytes.
THEOREM ScancodesStayInBounds == ConsoleSpec => []ScancodesInBounds
<1>1. WireInv => ScancodesInBounds
  BY DEF WireInv, ScancodesInBounds, Room, Decoders
<1> QED BY <1>1, WireTame, PTL

-----------------------------------------------------------------------------
(* Folds.  What FoldLeft computes comes from its equation, and that the    *)
(* equation has a solution from the induction over how long a text is.     *)

LEMMA LeastElement ==
  ASSUME NEW S \in SUBSET Nat, S # {}
  PROVE  \E n \in S : \A m \in S : n <= m
<1>1. PICK n \in S : \A m \in S : ~ (<<m, n>> \in OpToRel(<, Nat))
  BY NatLessThanWellFounded, WFMin
<1>2. ASSUME NEW m \in S PROVE n <= m
  <2>1. ~ (m < n)
    BY <1>1 DEF OpToRel
  <2> QED BY <2>1
<1> QED BY <1>2

\* Induction over an interval, for a set instead of a predicate.
LEMMA IntervalInduction ==
  ASSUME NEW n \in Nat, NEW S, 0 \in S, \A i \in 0..n - 1 : i \in S => i + 1 \in S
  PROVE  \A i \in 0..n : i \in S
<1>1. SUFFICES ASSUME NEW k \in 0..n, k \notin S PROVE FALSE
  OBVIOUS
<1>2. PICK missing : missing = {i \in 0..n : i \notin S}
  OBVIOUS
<1>3. PICK i \in missing : \A j \in missing : i <= j
  BY <1>1, <1>2, LeastElement
<1>4. i \in 0..n /\ i \notin S /\ i # 0
  BY <1>2, <1>3
<1>5. i - 1 \in 0..n - 1 /\ i - 1 \in 0..n
  BY <1>4
<1>6. i - 1 \in S
  BY <1>2, <1>3, <1>5
<1> QED BY <1>4, <1>5, <1>6

\* The sets a fold takes apart, by their greatest element.
LEMMA GreatestOfInterval ==
  ASSUME NEW n \in Nat, NEW t \in SUBSET (1..n + 1), n + 1 \in t
  PROVE  Max(t) = n + 1 /\ t \ {n + 1} \in SUBSET (1..n)
<1>1. \A x \in t : n + 1 >= x /\ x \in Int
  OBVIOUS
<1>2. \E x \in t : \A y \in t : x >= y
  BY <1>1
<1>3. Max(t) \in t /\ \A y \in t : Max(t) >= y
  BY <1>2 DEF Max
<1>4. Max(t) = n + 1
  <2>1. Max(t) >= n + 1 /\ n + 1 >= Max(t) /\ Max(t) \in Int
    BY <1>1, <1>3
  <2> QED BY <2>1
<1>5. \A x \in t \ {n + 1} : x \in 1..n
  OBVIOUS
<1> QED BY <1>4, <1>5

\* A text on the screen goes from one screen to the next, a character at a time.
Screens(r, s, text, n) ==
  /\ r[0] = s
  /\ \A i \in 0..n - 1 : r[i + 1] = vga_putc(r[i], text[i + 1])
  /\ Write(s, text) = r[n]

LEMMA WriteIterates ==
  ASSUME NEW n \in Nat, NEW s, NEW text, DOMAIN text = 1..n
  PROVE  \E r : Screens(r, s, text, n)
<1> DEFINE Solves(g, m) ==
      g = [t \in SUBSET (1..m) |->
             IF t = {} THEN s ELSE vga_putc(g[t \ {Max(t)}], text[Max(t)])]
<1>1. PICK solved : solved = {m \in 0..n : \E g : Solves(g, m)}
  OBVIOUS
<1>2. 0 \in solved
  <2>1. PICK g : g = [t \in SUBSET (1..0) |-> s]
    OBVIOUS
  <2>2. \A t \in SUBSET (1..0) : t = {}
    OBVIOUS
  <2>3. Solves(g, 0)
    BY <2>1, <2>2
  <2> QED BY <1>1, <2>3
<1>3. ASSUME NEW m \in 0..n - 1, m \in solved PROVE m + 1 \in solved
  <2>1. PICK g : Solves(g, m)
    BY <1>1, <1>3
  <2> HIDE DEF Solves
  <2>2. PICK h : h = [t \in SUBSET (1..m + 1) |->
                        IF m + 1 \in t THEN vga_putc(g[t \ {m + 1}], text[m + 1]) ELSE g[t]]
    OBVIOUS
  <2>3. ASSUME NEW t \in SUBSET (1..m + 1)
        PROVE  h[t] = IF t = {} THEN s ELSE vga_putc(h[t \ {Max(t)}], text[Max(t)])
    <3>1. CASE m + 1 \in t
      <4>1. Max(t) = m + 1 /\ t \ {m + 1} \in SUBSET (1..m)
        BY <3>1, GreatestOfInterval
      <4>2. h[t \ {m + 1}] = g[t \ {m + 1}]
        BY <2>2, <4>1
      <4> QED BY <2>2, <3>1, <4>1, <4>2
    <3>2. CASE m + 1 \notin t
      <4>1. t \in SUBSET (1..m)
        BY <3>2
      <4>2. h[t] = g[t] /\ h[t \ {Max(t)}] = g[t \ {Max(t)}]
        BY <2>2, <3>2
      <4> QED BY <2>1, <4>1, <4>2 DEF Solves
    <3> QED BY <3>1, <3>2
  <2>4. Solves(h, m + 1)
    BY <2>2, <2>3 DEF Solves
  <2> QED BY <1>1, <2>4
<1>4. \E g : Solves(g, n)
  <2>1. \A i \in 0..n : i \in solved
    BY <1>2, <1>3, IntervalInduction
  <2>2. n \in solved
    BY <2>1
  <2> QED BY <1>1, <2>2
<1>5. PICK iter : Write(s, text) = iter[1..n] /\ iter = CHOOSE g : Solves(g, n)
  BY DEF Write, FoldLeft, MapThenFoldSet
<1>6. Solves(iter, n)
  BY <1>4, <1>5
<1>7. PICK r : r = [i \in 0..n |-> iter[1..i]]
  OBVIOUS
<1>8. r[0] = s
  BY <1>6, <1>7
<1>9. ASSUME NEW i \in 0..n - 1 PROVE r[i + 1] = vga_putc(r[i], text[i + 1])
  <2>1. /\ 1..i + 1 \in SUBSET (1..n) /\ 1..i \in SUBSET (1..n) /\ i + 1 \in 1..i + 1
        /\ i \in 0..n /\ i + 1 \in 0..n /\ i \in Nat
    OBVIOUS
  <2>2. Max(1..i + 1) = i + 1
    BY <2>1, GreatestOfInterval
  <2>3. (1..i + 1) \ {i + 1} = 1..i
    BY <2>1
  <2>4. iter[1..i + 1] = vga_putc(iter[1..i], text[i + 1])
    BY <1>6, <2>1, <2>2, <2>3
  <2> QED BY <1>7, <2>1, <2>4
<1>10. r[n] = iter[1..n]
  BY <1>7
<1> QED BY <1>5, <1>8, <1>9, <1>10 DEF Screens

-----------------------------------------------------------------------------
(* The screen.  A text that stands before the cursor stays there while     *)
(* characters are put behind it, where it wraps and where it scrolls.      *)

Letters ==
  Ascii \cup {hexchars[i] : i \in 1..16} \cup {"NUL", "NL", " ", ">", "?", "[", "]", "<", "x"}

Rows == [cells : [Cells -> Letters], x : 0..ScreenWidth - 1, y : 0..ScreenHeight - 1,
         shown : Nat, outside : BOOLEAN]

RestBlank(s) == \A i \in Cells : i >= s.shown => s.cells[i] = "NUL"

IsScreen(s) == s \in Rows /\ s.shown = s.y * ScreenWidth + s.x /\ RestBlank(s)

\* The last characters before the cursor.
Behind(s, text) ==
  /\ Len(text) <= s.shown
  /\ \A i \in 1..Len(text) : s.cells[s.shown - Len(text) + i - 1] = text[i]

LEMMA RowsOrdered ==
  ASSUME NEW m \in Nat, NEW n \in Nat, NEW w \in Nat, m <= n
  PROVE  m * w \in Nat /\ n * w \in Nat /\ m * w <= n * w
<1>1. PICK k \in Nat : n = m + k
  <2>1. n - m \in Nat /\ n = m + (n - m)
    OBVIOUS
  <2> QED BY <2>1
<1>2. n * w = m * w + k * w
  BY <1>1
<1>3. m * w \in Nat /\ k * w \in Nat
  OBVIOUS
<1> QED BY <1>2, <1>3

\* Where the cursor may be, and the cells before it and in its row.
LEMMA CursorInBuffer ==
  ASSUME NEW x \in 0..ScreenWidth - 1, NEW y \in 0..ScreenHeight - 1
  PROVE  /\ ScreenWidth \in Nat \ {0} /\ ScreenHeight \in Nat \ {0}
         /\ ScreenWidth * ScreenHeight \in Nat /\ y * ScreenWidth \in Nat
         /\ y * ScreenWidth + ScreenWidth <= ScreenWidth * ScreenHeight
         /\ y * ScreenWidth + x \in Cells
         /\ (y + 1) * ScreenWidth = y * ScreenWidth + ScreenWidth
         /\ (y - 1) * ScreenWidth = y * ScreenWidth - ScreenWidth
         /\ y = ScreenHeight - 1 =>
              y * ScreenWidth + ScreenWidth = ScreenWidth * ScreenHeight
<1>1. ScreenWidth \in Nat /\ ScreenWidth # 0 /\ ScreenHeight \in Nat /\ ScreenHeight # 0
  BY ScreenAssumption
<1>2. PICK w \in Nat : w = ScreenWidth /\ w # 0
  BY <1>1
<1>3. PICK h \in Nat : h = ScreenHeight /\ h # 0
  BY <1>1
<1>4. x \in 0..w - 1 /\ y \in 0..h - 1
  BY <1>2, <1>3
<1>5. y + 1 \in Nat /\ y + 1 <= h
  BY <1>3, <1>4
<1>6. (y + 1) * w <= h * w /\ h * w \in Nat
  BY <1>2, <1>3, <1>5, RowsOrdered
<1>7. (y + 1) * w = y * w + w /\ (y - 1) * w = y * w - w /\ h * w = w * h
  BY <1>2, <1>3, <1>4
<1>8. y * w \in Nat /\ y * w + x \in 0..w * h - 1
  BY <1>2, <1>3, <1>4, <1>6, <1>7
<1>9. ASSUME y = h - 1 PROVE y * w + w = w * h
  <2>1. y + 1 = h
    BY <1>3, <1>9
  <2> QED BY <1>7, <2>1
<1> QED BY <1>2, <1>3, <1>6, <1>7, <1>8, <1>9 DEF Cells

\* The end of putc: the line wraps, the screen scrolls, the cursor is shown.
Settled(m) ==
  LET wrapped == IF m.x >= ScreenWidth THEN [m EXCEPT !.x = 0, !.y = @ + 1] ELSE m
  IN update_cursor(IF wrapped.y >= ScreenHeight THEN vga_scrollback(wrapped, 1) ELSE wrapped)

\* The cursor moved on and is not wrapped yet: nothing stands behind it.
Place(m) == m.y * ScreenWidth + (IF m.x <= ScreenWidth THEN m.x ELSE ScreenWidth)

Moved(m) ==
  /\ m \in [cells : [Cells -> Letters], x : Nat, y : 0..ScreenHeight, shown : Nat,
            outside : BOOLEAN]
  /\ m.y = ScreenHeight => m.x = 0
  /\ \A i \in Cells : i >= Place(m) => m.cells[i] = "NUL"

LEMMA SettledEffect ==
  ASSUME NEW m, Moved(m), NEW t, t = Settled(m)
  PROVE  /\ IsScreen(t) /\ t.outside = m.outside
         /\ \E shift \in {0, ScreenWidth} :
              /\ t.shown = Place(m) - shift
              /\ shift # 0 => t.shown = ScreenWidth * (ScreenHeight - 1)
              /\ \A i \in Cells : i + shift \in Cells => t.cells[i] = m.cells[i + shift]
<1>1. /\ m.x \in Nat /\ m.y \in 0..ScreenHeight /\ m.cells \in [Cells -> Letters]
      /\ m.outside \in BOOLEAN
  BY DEF Moved
<1>2. ScreenWidth \in Nat \ {0} /\ ScreenHeight \in Nat \ {0}
  BY ScreenAssumption
<1>3. PICK N \in Nat : N = ScreenWidth * ScreenHeight
  BY <1>2
<1>4. Cells = 0..N - 1
  BY <1>3 DEF Cells
<1>5. CASE m.x < ScreenWidth /\ m.y < ScreenHeight
  <2>1. t = [m EXCEPT !.shown = m.y * ScreenWidth + m.x]
    BY <1>1, <1>2, <1>5 DEF Settled, update_cursor
  <2>2. m.x \in 0..ScreenWidth - 1 /\ m.y \in 0..ScreenHeight - 1
    BY <1>1, <1>2, <1>5
  <2>3. m.y * ScreenWidth + m.x \in Nat
    BY <1>1, <2>2, CursorInBuffer
  <2>4. PICK q \in Nat : q = m.y * ScreenWidth + m.x
    BY <2>3
  <2>5. /\ t \in Rows /\ t.shown = q /\ t.x = m.x /\ t.y = m.y /\ t.cells = m.cells
        /\ t.outside = m.outside
    BY <2>1, <2>2, <2>4 DEF Moved, Rows
  <2>6. Place(m) = q
    BY <1>1, <1>2, <1>5, <2>4 DEF Place
  <2>7. RestBlank(t)
    BY <2>5, <2>6 DEF RestBlank, Moved
  <2>8. \A i \in Cells : i + 0 = i
    BY <1>4
  <2>9. q - 0 = q
    BY <2>4
  <2> QED BY <2>4, <2>5, <2>6, <2>7, <2>8, <2>9 DEF IsScreen
<1>6. CASE m.x >= ScreenWidth /\ m.y < ScreenHeight - 1
  <2>1. PICK q : q = (m.y + 1) * ScreenWidth + 0
    OBVIOUS
  <2>2. t = [m EXCEPT !.x = 0, !.y = m.y + 1, !.shown = q]
    <3>1. PICK wrapped : wrapped = [m EXCEPT !.x = 0, !.y = @ + 1]
      OBVIOUS
    <3>2. wrapped = [m EXCEPT !.x = 0, !.y = m.y + 1]
      BY <3>1 DEF Moved
    <3>3. wrapped.x = 0 /\ wrapped.y = m.y + 1
      BY <3>2 DEF Moved
    <3>4. ~ (wrapped.y >= ScreenHeight)
      BY <1>1, <1>2, <1>6, <3>3
    <3>5. t = update_cursor(wrapped)
      BY <1>6, <3>1, <3>4 DEF Settled
    <3> QED BY <2>1, <3>2, <3>3, <3>5 DEF update_cursor
  <2>3. 0 \in 0..ScreenWidth - 1 /\ m.y \in 0..ScreenHeight - 1 /\ m.y + 1 \in 0..ScreenHeight - 1
    BY <1>1, <1>2, <1>6
  <2>4. /\ (m.y + 1) * ScreenWidth = m.y * ScreenWidth + ScreenWidth
        /\ m.y * ScreenWidth \in Nat
    BY <2>3, CursorInBuffer
  <2>5. q \in Nat /\ q = m.y * ScreenWidth + ScreenWidth
    BY <1>2, <2>1, <2>4
  <2>6. /\ t \in Rows /\ t.shown = q /\ t.x = 0 /\ t.y = m.y + 1 /\ t.cells = m.cells
        /\ t.outside = m.outside
    BY <2>2, <2>3, <2>5 DEF Moved, Rows
  <2>7. Place(m) = q
    <3>1. (IF m.x <= ScreenWidth THEN m.x ELSE ScreenWidth) = ScreenWidth
      BY <1>1, <1>2, <1>6
    <3> QED BY <2>5, <3>1 DEF Place
  <2>8. RestBlank(t)
    BY <2>6, <2>7 DEF RestBlank, Moved
  <2>9. \A i \in Cells : i + 0 = i
    BY <1>4
  <2>10. q - 0 = q
    BY <2>5
  <2> QED BY <2>1, <2>5, <2>6, <2>7, <2>8, <2>9, <2>10 DEF IsScreen
<1>7. CASE m.y = ScreenHeight \/ (m.x >= ScreenWidth /\ m.y = ScreenHeight - 1)
  <2>1. PICK last : last = ScreenHeight - 1
    OBVIOUS
  <2>2. 0 \in 0..ScreenWidth - 1 /\ last \in 0..ScreenHeight - 1
    BY <1>2, <2>1
  <2>3. /\ last * ScreenWidth + ScreenWidth = N /\ last * ScreenWidth \in Nat
        /\ (last + 1) * ScreenWidth = last * ScreenWidth + ScreenWidth
    BY <1>3, <2>1, <2>2, CursorInBuffer
  <2>4. PICK q \in Nat : q = last * ScreenWidth /\ q = N - ScreenWidth
    BY <1>2, <2>3
  <2>5. PICK cells : cells = [i \in Cells |-> IF i + ScreenWidth \in Cells
                                              THEN m.cells[i + ScreenWidth] ELSE "NUL"]
    OBVIOUS
  <2>6. PICK wrapped : wrapped = IF m.x >= ScreenWidth THEN [m EXCEPT !.x = 0, !.y = @ + 1]
                                 ELSE m
    OBVIOUS
  <2>7. /\ wrapped \in [cells : [Cells -> Letters], x : Nat, y : Nat, shown : Nat,
                        outside : BOOLEAN]
        /\ wrapped.cells = m.cells /\ wrapped.outside = m.outside
        /\ wrapped.x = 0 /\ wrapped.y = last + 1
    <3>1. CASE m.y = ScreenHeight
      <4>1. m.x = 0 /\ m.y = last + 1 /\ ~ (m.x >= ScreenWidth)
        BY <1>2, <2>1, <3>1 DEF Moved
      <4>2. wrapped = m
        BY <2>6, <4>1
      <4>3. last + 1 \in Nat
        BY <1>2, <2>1
      <4> QED BY <4>1, <4>2, <4>3 DEF Moved
    <3>2. CASE m.x >= ScreenWidth /\ m.y = last
      <4>1. wrapped = [m EXCEPT !.x = 0, !.y = last + 1] /\ last + 1 \in Nat
        BY <1>2, <2>1, <2>6, <3>2 DEF Moved
      <4> QED BY <4>1 DEF Moved
    <3> QED BY <1>7, <2>1, <3>1, <3>2
  <2>8. vga_scrollback(wrapped, 1) = update_cursor([wrapped EXCEPT !.cells = cells, !.y = last])
    <3>1. 1 * ScreenWidth = ScreenWidth /\ wrapped.y - 1 = last
      BY <1>2, <2>1, <2>7
    <3>2. vga_scrollback(wrapped, 1) =
            update_cursor([wrapped EXCEPT
              !.cells = [i \in Cells |-> IF i + 1 * ScreenWidth \in Cells
                                         THEN wrapped.cells[i + 1 * ScreenWidth] ELSE "NUL"],
              !.y = wrapped.y - 1])
      BY <2>7 DEF vga_scrollback
    <3> QED BY <2>5, <2>7, <3>1, <3>2
  <2>9. t = [wrapped EXCEPT !.cells = cells, !.y = last, !.shown = last * ScreenWidth + 0]
    <3>1. wrapped.y >= ScreenHeight
      BY <1>2, <2>1, <2>7
    <3>2. t = update_cursor(vga_scrollback(wrapped, 1))
      <4>1. CASE m.x >= ScreenWidth
        <5>1. wrapped = [m EXCEPT !.x = 0, !.y = @ + 1]
          BY <2>6, <4>1
        <5> QED BY <3>1, <4>1, <5>1 DEF Settled
      <4>2. CASE ~ (m.x >= ScreenWidth)
        <5>1. wrapped = m
          BY <2>6, <4>2
        <5> QED BY <3>1, <4>2, <5>1 DEF Settled
      <4> QED BY <4>1, <4>2
    <3> QED BY <2>7, <2>8, <3>2 DEF update_cursor
  <2>10. cells \in [Cells -> Letters]
    <3>1. "NUL" \in Letters
      BY DEF Letters
    <3> QED BY <1>1, <2>5, <3>1
  <2>11. /\ t \in Rows /\ t.shown = q /\ t.x = 0 /\ t.y = last /\ t.cells = cells
         /\ t.outside = m.outside
    <3>1. t = [wrapped EXCEPT !.cells = cells, !.y = last, !.shown = q]
      <4>1. last * ScreenWidth + 0 = q
        BY <2>4
      <4> QED BY <2>9, <4>1
    <3> QED BY <2>2, <2>4, <2>7, <2>10, <3>1 DEF Rows
  <2>12. \A i \in Cells : i >= q => i + ScreenWidth \notin Cells
    BY <1>2, <1>4, <2>4
  <2>13. RestBlank(t)
    BY <2>5, <2>11, <2>12 DEF RestBlank
  <2>14. Place(m) = q + ScreenWidth
    <3>1. CASE m.y = ScreenHeight
      <4>1. m.x = 0 /\ m.y = last + 1
        BY <1>2, <2>1, <3>1 DEF Moved
      <4> QED BY <1>2, <2>3, <2>4, <4>1 DEF Place
    <3>2. CASE m.x >= ScreenWidth /\ m.y = last
      <4>1. (IF m.x <= ScreenWidth THEN m.x ELSE ScreenWidth) = ScreenWidth
        BY <1>1, <1>2, <3>2
      <4> QED BY <2>4, <3>2, <4>1 DEF Place
    <3> QED BY <1>7, <2>1, <3>1, <3>2
  <2>15. q = Place(m) - ScreenWidth /\ q = ScreenWidth * (ScreenHeight - 1)
    <3>1. ScreenWidth * (ScreenHeight - 1) = last * ScreenWidth
      BY <1>2, <2>1
    <3> QED BY <1>2, <2>4, <2>14, <3>1
  <2>16. \A i \in Cells : i + ScreenWidth \in Cells => t.cells[i] = m.cells[i + ScreenWidth]
    BY <2>5, <2>11
  <2>17. IsScreen(t)
    <3>1. t.shown = t.y * ScreenWidth + t.x
      BY <2>4, <2>11
    <3> QED BY <2>11, <2>13, <3>1 DEF IsScreen
  <2> QED BY <2>11, <2>15, <2>16, <2>17
<1> QED BY <1>1, <1>2, <1>5, <1>6, <1>7

LEMMA PutSettles ==
  ASSUME NEW s, NEW c, c # "CR"
  PROVE  /\ c \notin {"NL", "TAB", "BS"} =>
              vga_putc(s, c) = Settled([set_char(s, s.x, s.y, c) EXCEPT !.x = @ + 1])
         /\ c = "NL" => vga_putc(s, c) = Settled([s EXCEPT !.y = @ + 1, !.x = 0])
         /\ c = "TAB" => vga_putc(s, c) = Settled([s EXCEPT !.x = @ + 4 - ((@ + 4) % 4)])
         /\ c = "BS" => vga_putc(s, c) = Settled(Backspace(s))
<1>1. vga_putc(s, c) =
        Settled(CASE c = "NL" -> [s EXCEPT !.y = @ + 1, !.x = 0]
                  [] c = "CR" -> [s EXCEPT !.x = 0]
                  [] c = "TAB" -> [s EXCEPT !.x = @ + 4 - ((@ + 4) % 4)]
                  [] c = "BS" -> Backspace(s)
                  [] OTHER -> [set_char(s, s.x, s.y, c) EXCEPT !.x = @ + 1])
  BY Zenon DEF vga_putc, put_char, Settled
<1> QED BY <1>1

LEMMA ScreenShape ==
  ASSUME NEW s, IsScreen(s)
  PROVE  /\ s \in Rows /\ s.x \in 0..ScreenWidth - 1 /\ s.y \in 0..ScreenHeight - 1
         /\ s.x \in Nat /\ s.y \in Nat /\ s.cells \in [Cells -> Letters]
         /\ s.shown \in Nat /\ s.shown \in Cells /\ s.shown = s.y * ScreenWidth + s.x
         /\ s.y * ScreenWidth \in Nat
<1>1. /\ s \in Rows /\ s.x \in 0..ScreenWidth - 1 /\ s.y \in 0..ScreenHeight - 1
      /\ s.cells \in [Cells -> Letters] /\ s.shown = s.y * ScreenWidth + s.x
      /\ s.shown \in Nat
  BY DEF IsScreen, Rows
<1>2. s.shown \in Cells /\ s.y * ScreenWidth \in Nat
  BY <1>1, CursorInBuffer
<1> QED BY <1>1, <1>2

\* A character that is no control character.
LEMMA PrintEffect ==
  ASSUME NEW s, IsScreen(s), NEW c \in Letters, c \notin {"CR", "NL", "TAB", "BS"},
         NEW t, t = vga_putc(s, c)
  PROVE  /\ IsScreen(t) /\ t.outside = s.outside
         /\ \A text \in Seq(Letters) :
              Behind(s, text) /\ Len(text) < ScreenWidth * (ScreenHeight - 1)
                => Behind(t, Append(text, c))
<1>1. PICK p \in Cells : p = s.shown
  BY ScreenShape
<1>2. PICK N \in Nat : N = ScreenWidth * ScreenHeight /\ Cells = 0..N - 1
  BY ScreenAssumption DEF Cells
<1>3. PICK m : m = [set_char(s, s.x, s.y, c) EXCEPT !.x = @ + 1]
  OBVIOUS
<1>4. m = [s EXCEPT !.cells = [s.cells EXCEPT ![p] = c], !.x = s.x + 1]
  BY <1>1, <1>3, ScreenShape DEF set_char, Rows
<1>5. [s.cells EXCEPT ![p] = c] \in [Cells -> Letters]
  BY <1>1, ScreenShape
<1>6. /\ m.cells = [s.cells EXCEPT ![p] = c] /\ m.x = s.x + 1 /\ m.y = s.y
      /\ m.outside = s.outside
      /\ m \in [cells : [Cells -> Letters], x : Nat, y : 0..ScreenHeight - 1, shown : Nat,
                outside : BOOLEAN]
  <2>1. s.x + 1 \in Nat /\ s \in Rows
    BY ScreenShape
  <2> QED BY <1>4, <1>5, <2>1 DEF Rows
<1>7. Place(m) = p + 1
  BY <1>1, <1>6, ScreenShape, ScreenAssumption DEF Place
<1>8. Moved(m)
  <2>1. ASSUME NEW i \in Cells, i >= p + 1 PROVE m.cells[i] = "NUL"
    <3>1. i # p /\ i >= p
      BY <1>2, <2>1
    <3> QED BY <1>1, <1>6, <3>1, ScreenShape DEF IsScreen, RestBlank
  <2>2. ScreenHeight \in Nat
    BY ScreenAssumption
  <2>3. m.y \in 0..ScreenHeight - 1
    BY <1>6
  <2>4. m.y # ScreenHeight /\ m.y \in 0..ScreenHeight
    BY <2>2, <2>3
  <2>5. m \in [cells : [Cells -> Letters], x : Nat, y : 0..ScreenHeight, shown : Nat,
               outside : BOOLEAN]
    BY <1>6, <2>4
  <2> QED BY <1>7, <2>1, <2>4, <2>5 DEF Moved
<1>9. t = Settled(m)
  BY <1>3, PutSettles
<1>10. PICK shift \in {0, ScreenWidth} :
         /\ t.shown = Place(m) - shift
         /\ shift # 0 => t.shown = ScreenWidth * (ScreenHeight - 1)
         /\ \A i \in Cells : i + shift \in Cells => t.cells[i] = m.cells[i + shift]
  BY <1>8, <1>9, SettledEffect
<1>11. IsScreen(t) /\ t.outside = s.outside
  BY <1>6, <1>8, <1>9, SettledEffect
<1>12. ASSUME NEW text \in Seq(Letters), Behind(s, text),
              Len(text) < ScreenWidth * (ScreenHeight - 1)
       PROVE  Behind(t, Append(text, c))
  <2>1. PICK n \in Nat : n = Len(text)
    OBVIOUS
  <2>2. PICK longer : longer = Append(text, c)
    OBVIOUS
  <2>3. /\ Len(longer) = n + 1 /\ longer[n + 1] = c
        /\ \A i \in 1..n : longer[i] = text[i]
    BY <2>1, <2>2
  <2>4. PICK q \in Nat : q = t.shown
    BY <1>11, ScreenShape
  <2>5. shift \in Nat /\ q = p + 1 - shift /\ p \in Nat /\ p < N
    BY <1>1, <1>2, <1>7, <1>10, <2>4, ScreenAssumption
  <2>6. n + 1 <= q
    <3>1. CASE shift = 0
      BY <1>1, <1>12, <2>1, <2>5, <3>1 DEF Behind
    <3>2. CASE shift # 0
      <4>1. ScreenWidth * (ScreenHeight - 1) \in Int
        BY ScreenAssumption
      <4> QED BY <1>10, <1>12, <2>1, <2>4, <3>2, <4>1
    <3> QED BY <3>1, <3>2
  <2>7. ASSUME NEW i \in 1..n + 1 PROVE t.cells[q - (n + 1) + i - 1] = longer[i]
    <3>1. PICK j \in Nat : j = q - (n + 1) + i - 1
      BY <2>6
    <3>2. j + shift = p - n + i - 1 /\ j \in 0..N - 1 /\ j + shift \in 0..N - 1
      BY <2>5, <2>6, <3>1
    <3>3. t.cells[j] = m.cells[j + shift]
      BY <1>2, <1>10, <3>2
    <3>4. CASE i = n + 1
      <4>1. j + shift = p
        BY <2>5, <3>2, <3>4
      <4> QED BY <1>6, <2>3, <3>1, <3>3, <3>4, <4>1, ScreenShape
    <3>5. CASE i \in 1..n
      <4>1. j + shift # p
        BY <2>5, <3>2, <3>5
      <4>2. m.cells[j + shift] = s.cells[j + shift]
        BY <1>2, <1>6, <3>2, <4>1, ScreenShape
      <4>3. s.cells[p - n + i - 1] = text[i]
        BY <1>1, <1>12, <2>1, <3>5 DEF Behind
      <4> QED BY <2>3, <3>1, <3>2, <3>3, <3>5, <4>2, <4>3
    <3> QED BY <3>4, <3>5
  <2> QED BY <2>2, <2>3, <2>4, <2>6, <2>7 DEF Behind
<1> QED BY <1>11, <1>12

LEMMA NewLineEffect ==
  ASSUME NEW s, IsScreen(s), NEW t, t = vga_putc(s, "NL")
  PROVE  IsScreen(t) /\ t.outside = s.outside
<1>1. PICK m : m = [s EXCEPT !.y = s.y + 1, !.x = 0]
  OBVIOUS
<1>2. t = Settled(m)
  BY <1>1, PutSettles, ScreenShape DEF Rows
<1>3. s.y + 1 \in 0..ScreenHeight
  BY ScreenShape, ScreenAssumption
<1>4. /\ m.x = 0 /\ m.y = s.y + 1 /\ m.cells = s.cells /\ m.outside = s.outside
      /\ m \in [cells : [Cells -> Letters], x : Nat, y : 0..ScreenHeight, shown : Nat,
                outside : BOOLEAN]
  <2>1. s \in Rows /\ 0 \in Nat
    BY ScreenShape
  <2> QED BY <1>1, <1>3, <2>1 DEF Rows
<1>5. Place(m) = s.y * ScreenWidth + ScreenWidth
  <2>1. Place(m) = (s.y + 1) * ScreenWidth + 0 /\ ScreenWidth \in Nat
    BY <1>4, ScreenAssumption DEF Place
  <2>2. (s.y + 1) * ScreenWidth = s.y * ScreenWidth + ScreenWidth
    BY ScreenShape, CursorInBuffer
  <2> QED BY <2>1, <2>2, ScreenShape
<1>6. ASSUME NEW i \in Cells, i >= Place(m) PROVE m.cells[i] = "NUL"
  <2>1. i >= s.shown
    BY <1>5, <1>6, ScreenShape, ScreenAssumption, SMTT(30) DEF Cells
  <2> QED BY <1>4, <2>1 DEF IsScreen, RestBlank
<1>7. Moved(m)
  BY <1>4, <1>6 DEF Moved
<1> QED BY <1>2, <1>4, <1>7, SettledEffect

LEMMA TabEffect ==
  ASSUME NEW s, IsScreen(s), NEW t, t = vga_putc(s, "TAB")
  PROVE  IsScreen(t) /\ t.outside = s.outside
<1>1. PICK to : to = s.x + 4 - ((s.x + 4) % 4)
  OBVIOUS
<1>2. to \in Nat /\ to > s.x
  BY <1>1, ScreenShape
<1>3. PICK m : m = [s EXCEPT !.x = to]
  OBVIOUS
<1>4. t = Settled(m)
  <2>1. m = [s EXCEPT !.x = @ + 4 - ((@ + 4) % 4)]
    BY <1>1, <1>3, ScreenShape DEF Rows
  <2> QED BY <2>1, PutSettles
<1>5. s.y \in 0..ScreenHeight /\ s.y # ScreenHeight
  BY ScreenShape, ScreenAssumption
<1>6. /\ m.x = to /\ m.y = s.y /\ m.cells = s.cells /\ m.outside = s.outside
      /\ m \in [cells : [Cells -> Letters], x : Nat, y : 0..ScreenHeight, shown : Nat,
                outside : BOOLEAN]
  BY <1>2, <1>3, <1>5, ScreenShape DEF Rows
<1>7. ASSUME NEW i \in Cells, i >= Place(m) PROVE m.cells[i] = "NUL"
  <2>1. PICK step : step = IF to <= ScreenWidth THEN to ELSE ScreenWidth
    OBVIOUS
  <2>2. step \in Nat /\ step > s.x
    BY <1>2, <2>1, ScreenShape, ScreenAssumption
  <2>3. Place(m) = s.y * ScreenWidth + step
    BY <1>6, <2>1 DEF Place
  <2>4. i \in Int
    BY ScreenAssumption DEF Cells
  <2>5. i >= s.shown
    BY <1>7, <2>2, <2>3, <2>4, ScreenShape
  <2> QED BY <1>6, <2>5 DEF IsScreen, RestBlank
<1>8. Moved(m)
  BY <1>5, <1>6, <1>7 DEF Moved
<1> QED BY <1>4, <1>6, <1>8, SettledEffect

LEMMA GreatestElement ==
  ASSUME NEW n \in Nat, NEW S \in SUBSET (0..n), S # {}
  PROVE  \E k \in S : \A i \in S : i <= k
<1>1. PICK T : T = {n - i : i \in S}
  OBVIOUS
<1>2. T \in SUBSET Nat /\ T # {}
  <2>1. \A i \in S : n - i \in Nat
    OBVIOUS
  <2> QED BY <1>1, <2>1
<1>3. PICK j \in T : \A i \in T : j <= i
  BY <1>2, LeastElement
<1>4. PICK k \in S : j = n - k
  BY <1>1, <1>3
<1>5. ASSUME NEW i \in S PROVE i <= k
  <2>1. j <= n - i
    BY <1>1, <1>3
  <2> QED BY <1>4, <2>1
<1> QED BY <1>5

\* Backspace goes back over the last character before the cursor, or, at the left edge,
\* to behind the last one of the row above.
LEMMA BackspaceEffect ==
  ASSUME NEW s, IsScreen(s), NEW t, t = vga_putc(s, "BS")
  PROVE  /\ IsScreen(t)
         /\ \A text \in Seq(Letters), c \in Letters :
              Behind(s, Append(text, c)) /\ c # "NUL"
                => Behind(t, text) /\ t.outside = s.outside
<1>1. /\ s.x \in 0..ScreenWidth - 1 /\ s.y \in 0..ScreenHeight - 1 /\ s \in Rows
      /\ s.x \in Nat /\ s.y \in Nat /\ s.cells \in [Cells -> Letters]
      /\ ScreenWidth \in Nat \ {0} /\ ScreenHeight \in Nat \ {0}
  BY ScreenShape, ScreenAssumption
<1>2. PICK N \in Nat : N = ScreenWidth * ScreenHeight /\ Cells = 0..N - 1
  BY ScreenAssumption DEF Cells
<1>3. PICK p \in Cells : p = s.shown
  BY ScreenShape
<1>4. t = Settled(Backspace(s))
  BY PutSettles
<1>5. CASE s.x = 0 /\ s.y = 0
  <2>1. PICK m : m = [s EXCEPT !.outside = TRUE]
    OBVIOUS
  <2>2. Backspace(s) = m
    BY <1>5, <2>1 DEF Backspace
  <2>3. 0 \in 0..ScreenHeight /\ 0 # ScreenHeight /\ 0 <= ScreenWidth
    BY <1>1
  <2>4. /\ m.x = 0 /\ m.y = 0 /\ m.cells = s.cells
        /\ m \in [cells : [Cells -> Letters], x : Nat, y : 0..ScreenHeight, shown : Nat,
                  outside : BOOLEAN]
    BY <1>1, <1>5, <2>1, <2>3 DEF Rows
  <2>5. p = 0 /\ Place(m) = 0
    BY <1>1, <1>3, <1>5, <2>3, <2>4, ScreenShape DEF Place
  <2>6. Moved(m)
    BY <1>3, <2>3, <2>4, <2>5 DEF Moved, IsScreen, RestBlank
  <2>7. IsScreen(t)
    BY <1>4, <2>2, <2>6, SettledEffect
  <2>8. ASSUME NEW text \in Seq(Letters), NEW c \in Letters, Behind(s, Append(text, c))
        PROVE  FALSE
    BY <1>3, <2>5, <2>8 DEF Behind
  <2> QED BY <2>7, <2>8
<1>6. CASE ~ (s.x = 0 /\ s.y = 0)
  <2>1. PICK row : row = s.y - 1
    OBVIOUS
  <2>2. PICK written : written = {x \in 0..ScreenWidth - 1 : get_char(s, x, row) # "NUL"}
    OBVIOUS
  <2>3. PICK last : last = IF written = {} THEN 0
                           ELSE CHOOSE x \in written : \A z \in written : z <= x
    OBVIOUS
  <2>4. PICK back : back = IF s.x > 0 THEN [s EXCEPT !.x = s.x - 1]
                           ELSE [s EXCEPT !.y = row,
                                          !.x = IF written = {} THEN 0
                                                ELSE IF last < ScreenWidth - 1 THEN last + 1
                                                ELSE last]
    OBVIOUS
  <2>5. PICK m : m = set_char(back, back.x, back.y, "NUL")
    OBVIOUS
  <2>6. t = Settled(m)
    <3>1. Backspace(s) = m
      BY <1>1, <1>6, <2>1, <2>2, <2>3, <2>4, <2>5 DEF Backspace, Rows
    <3> QED BY <1>4, <3>1
  <2>7. PICK place : place = back.y * ScreenWidth + back.x
    OBVIOUS
  <2>8. /\ back \in Rows /\ back.cells = s.cells /\ back.outside = s.outside
        /\ back.x \in 0..ScreenWidth - 1 /\ back.y \in 0..ScreenHeight - 1
        /\ place \in Nat
        /\ \A i \in Cells : i > place => s.cells[i] = "NUL"
        /\ p - 1 \in Cells /\ (s.cells[p - 1] # "NUL" => place = p - 1)
    <3>1. CASE s.x > 0
      <4>1. back = [s EXCEPT !.x = s.x - 1] /\ s.x - 1 \in 0..ScreenWidth - 1
        BY <1>1, <2>4, <3>1
      <4>2. /\ back \in Rows /\ back.cells = s.cells /\ back.outside = s.outside
            /\ back.x = s.x - 1 /\ back.y = s.y
        BY <1>1, <4>1 DEF Rows
      <4>3. place = p - 1 /\ place \in Nat /\ p \in Nat
        BY <1>1, <1>3, <2>7, <3>1, <4>2, ScreenShape
      <4>4. ASSUME NEW i \in Cells, i > place PROVE s.cells[i] = "NUL"
        <5>1. i >= p
          BY <1>2, <4>3, <4>4
        <5> QED BY <1>3, <5>1 DEF IsScreen, RestBlank
      <4>5. p - 1 \in Cells
        BY <1>2, <4>3
      <4> QED BY <1>1, <4>1, <4>2, <4>3, <4>4, <4>5
    <3>2. CASE s.x = 0 /\ s.y > 0
      <4>1. row \in 0..ScreenHeight - 1 /\ row \in Nat
        BY <1>1, <2>1, <3>2
      <4>2. row * ScreenWidth = p - ScreenWidth /\ row * ScreenWidth \in Nat /\ p \in Nat
        <5>1. row * ScreenWidth = s.y * ScreenWidth - ScreenWidth
          BY <1>1, <2>1, CursorInBuffer
        <5>2. row * ScreenWidth \in Nat
          BY <1>1, <4>1
        <5> QED BY <1>1, <1>3, <3>2, <5>1, <5>2, ScreenShape
      <4>3. ASSUME NEW x \in 0..ScreenWidth - 1
            PROVE  x \in written <=> s.cells[row * ScreenWidth + x] # "NUL"
        BY <2>2 DEF get_char
      <4>4. ASSUME written # {}
            PROVE  last \in written /\ \A z \in written : z <= last
        <5>1. written \in SUBSET (0..ScreenWidth - 1) /\ ScreenWidth - 1 \in Nat
          BY <1>1, <2>2
        <5>2. \E x \in written : \A z \in written : z <= x
          BY <4>4, <5>1, GreatestElement
        <5> QED BY <2>3, <4>4, <5>2
      <4>5. PICK to : to = IF written = {} THEN 0
                           ELSE IF last < ScreenWidth - 1 THEN last + 1 ELSE last
        OBVIOUS
      <4>6. /\ to \in 0..ScreenWidth - 1
            /\ \A x \in 0..ScreenWidth - 1 : x > to => x \notin written
            /\ ScreenWidth - 1 \in written => to = ScreenWidth - 1
        <5>1. CASE written = {}
          BY <1>1, <4>5, <5>1
        <5>2. CASE written # {}
          <6>1. last \in 0..ScreenWidth - 1 /\ \A z \in written : z <= last
            BY <2>2, <4>4, <5>2
          <6>2. written \in SUBSET (0..ScreenWidth - 1)
            BY <2>2
          <6> QED BY <1>1, <4>5, <5>2, <6>1, <6>2
        <5> QED BY <5>1, <5>2
      <4>7. back = [s EXCEPT !.y = row, !.x = to]
        BY <2>4, <3>2, <4>5
      <4>8. /\ back \in Rows /\ back.cells = s.cells /\ back.outside = s.outside
            /\ back.x = to /\ back.y = row
        BY <1>1, <4>1, <4>6, <4>7 DEF Rows
      <4>9. place = p - ScreenWidth + to /\ place \in Nat
        BY <1>1, <2>7, <4>2, <4>6, <4>8
      <4>10. ASSUME NEW i \in Cells, i > place PROVE s.cells[i] = "NUL"
        <5>1. CASE i >= p
          BY <1>3, <5>1 DEF IsScreen, RestBlank
        <5>2. CASE i < p
          <6>1. PICK x \in 0..ScreenWidth - 1 : x = i - (p - ScreenWidth) /\ x > to
            BY <1>1, <1>2, <4>2, <4>6, <4>9, <4>10, <5>2
          <6>2. row * ScreenWidth + x = i
            BY <1>1, <1>2, <4>2, <6>1
          <6> QED BY <4>3, <4>6, <6>1, <6>2
        <5> QED BY <1>2, <4>2, <5>1, <5>2
      <4>11. p - 1 \in Cells /\ row * ScreenWidth + (ScreenWidth - 1) = p - 1
        BY <1>1, <1>2, <4>2
      <4>12. ASSUME s.cells[p - 1] # "NUL" PROVE place = p - 1
        <5>1. ScreenWidth - 1 \in 0..ScreenWidth - 1
          BY <1>1
        <5>2. to = ScreenWidth - 1
          BY <4>3, <4>6, <4>11, <4>12, <5>1
        <5> QED BY <1>1, <4>2, <4>9, <5>2
      <4> QED BY <4>1, <4>6, <4>8, <4>9, <4>10, <4>11, <4>12
    <3> QED BY <1>1, <1>6, <3>1, <3>2
  <2>9. place \in Cells /\ place < N
    BY <1>2, <2>7, <2>8, CursorInBuffer
  <2>10. m = [back EXCEPT !.cells = [s.cells EXCEPT ![place] = "NUL"]]
    BY <2>5, <2>7, <2>8 DEF set_char, Rows
  <2>11. [s.cells EXCEPT ![place] = "NUL"] \in [Cells -> Letters]
    BY <1>1, <2>9 DEF Letters
  <2>12. back.y \in 0..ScreenHeight /\ back.y # ScreenHeight
    BY <1>1, <2>8
  <2>13. /\ m.cells = [s.cells EXCEPT ![place] = "NUL"] /\ m.x = back.x /\ m.y = back.y
         /\ m.outside = s.outside
         /\ m \in [cells : [Cells -> Letters], x : Nat, y : 0..ScreenHeight, shown : Nat,
                   outside : BOOLEAN]
    BY <2>8, <2>10, <2>11, <2>12 DEF Rows
  <2>14. Place(m) = place
    BY <1>1, <2>7, <2>8, <2>13 DEF Place
  <2>15. Moved(m)
    <3>1. ASSUME NEW i \in Cells, i >= place PROVE m.cells[i] = "NUL"
      <4>1. i = place \/ i > place
        BY <1>2, <2>8, <3>1
      <4> QED BY <1>1, <2>8, <2>9, <2>13, <4>1
    <3> QED BY <2>12, <2>13, <2>14, <3>1 DEF Moved
  <2>16. IsScreen(t) /\ t.outside = s.outside
    BY <2>6, <2>13, <2>15, SettledEffect
  <2>17. PICK shift \in {0, ScreenWidth} :
           /\ t.shown = Place(m) - shift
           /\ shift # 0 => t.shown = ScreenWidth * (ScreenHeight - 1)
           /\ \A i \in Cells : i + shift \in Cells => t.cells[i] = m.cells[i + shift]
    BY <2>6, <2>15, SettledEffect
  <2>18. shift = 0
    <3>1. ScreenWidth * (ScreenHeight - 1) = N - ScreenWidth
      BY <1>1, <1>2
    <3> QED BY <1>1, <1>2, <2>9, <2>14, <2>17, <3>1
  <2>19. t.shown = place /\ \A i \in Cells : t.cells[i] = m.cells[i]
    <3>1. \A i \in Cells : i + 0 = i
      BY <1>2
    <3>2. place - 0 = place
      BY <2>8
    <3> QED BY <2>14, <2>17, <2>18, <3>1, <3>2
  <2>20. ASSUME NEW text \in Seq(Letters), NEW c \in Letters, Behind(s, Append(text, c)),
                c # "NUL"
         PROVE  Behind(t, text)
    <3>1. PICK n \in Nat : n = Len(text)
      OBVIOUS
    <3>2. PICK longer : longer = Append(text, c)
      OBVIOUS
    <3>3. /\ Len(longer) = n + 1 /\ longer[n + 1] = c
          /\ \A i \in 1..n : longer[i] = text[i]
      BY <3>1, <3>2
    <3>4. n + 1 <= p /\ \A i \in 1..n + 1 : s.cells[p - (n + 1) + i - 1] = longer[i]
      BY <1>3, <2>20, <3>2, <3>3 DEF Behind
    <3>5. p \in Nat /\ p < N
      BY <1>2
    <3>6. n + 1 \in 1..n + 1 /\ p - (n + 1) + (n + 1) - 1 = p - 1
      BY <3>5
    <3>7. s.cells[p - 1] = c
      BY <3>3, <3>4, <3>6
    <3>8. place = p - 1 /\ n <= place
      BY <2>8, <2>20, <3>4, <3>5, <3>7
    <3>9. ASSUME NEW i \in 1..n PROVE t.cells[place - n + i - 1] = text[i]
      <4>1. PICK j \in Cells : j = place - n + i - 1 /\ j # place
        BY <1>2, <3>5, <3>8
      <4>2. t.cells[j] = s.cells[j]
        BY <1>1, <2>13, <2>19, <4>1
      <4>3. j = p - (n + 1) + i - 1 /\ i \in 1..n + 1
        BY <3>5, <3>8, <4>1
      <4> QED BY <3>3, <3>4, <4>1, <4>2, <4>3
    <3> QED BY <2>19, <3>1, <3>8, <3>9 DEF Behind
  <2> QED BY <2>16, <2>20
<1> QED BY <1>5, <1>6

-----------------------------------------------------------------------------
(* Texts on the screen.                                                    *)

\* Characters that only go forward.
Onward == Letters \ {"CR", "BS"}

LEMMA WriteKeepsScreen ==
  ASSUME NEW s, IsScreen(s), NEW text \in Seq(Onward)
  PROVE  IsScreen(Write(s, text)) /\ Write(s, text).outside = s.outside
<1>1. PICK n \in Nat : n = Len(text) /\ DOMAIN text = 1..n
  OBVIOUS
<1>2. PICK r : Screens(r, s, text, n)
  <2>1. DOMAIN text = 1..n
    BY <1>1
  <2> QED BY <2>1, WriteIterates
<1>3. PICK good : good = {i \in 0..n : IsScreen(r[i]) /\ r[i].outside = s.outside}
  OBVIOUS
<1>4. 0 \in good
  BY <1>1, <1>2, <1>3 DEF Screens
<1>5. ASSUME NEW i \in 0..n - 1, i \in good PROVE i + 1 \in good
  <2>1. IsScreen(r[i]) /\ r[i].outside = s.outside /\ i + 1 \in 0..n /\ i + 1 \in 1..n
    BY <1>1, <1>3, <1>5
  <2>2. PICK c \in Onward : c = text[i + 1]
    BY <1>1, <2>1
  <2>3. r[i + 1] = vga_putc(r[i], c)
    BY <1>2, <2>2 DEF Screens
  <2>4. c \in Letters /\ c \notin {"CR", "BS"}
    BY DEF Onward
  <2>5. IsScreen(r[i + 1]) /\ r[i + 1].outside = s.outside
    <3>1. CASE c = "NL"
      BY <2>1, <2>3, <3>1, NewLineEffect
    <3>2. CASE c = "TAB"
      BY <2>1, <2>3, <3>2, TabEffect
    <3>3. CASE c \notin {"NL", "TAB"}
      BY <2>1, <2>3, <2>4, <3>3, PrintEffect
    <3> QED BY <3>1, <3>2, <3>3
  <2> QED BY <1>3, <2>1, <2>5
<1>6. \A i \in 0..n : i \in good
  BY <1>4, <1>5, IntervalInduction
<1>7. n \in good
  BY <1>6
<1> QED BY <1>2, <1>3, <1>7 DEF Screens

LEMMA WriteOne ==
  ASSUME NEW s, NEW c
  PROVE  Write(s, <<c>>) = vga_putc(s, c)
<1>1. PICK text : text = <<c>>
  OBVIOUS
<1>2. PICK n \in Nat : n = 1
  OBVIOUS
<1>3. DOMAIN text = 1..n
  BY <1>1, <1>2
<1>4. PICK r : Screens(r, s, text, n)
  BY <1>3, WriteIterates
<1>5. 0 \in 0..n - 1 /\ 0 + 1 = 1
  BY <1>2
<1>6. r[1] = vga_putc(r[0], text[1])
  BY <1>4, <1>5 DEF Screens
<1> QED BY <1>1, <1>2, <1>4, <1>6 DEF Screens

LEMMA WriteTwo ==
  ASSUME NEW s, NEW c, NEW d
  PROVE  Write(s, <<c, d>>) = vga_putc(vga_putc(s, c), d)
<1>1. PICK text : text = <<c, d>>
  OBVIOUS
<1>2. PICK n \in Nat : n = 2
  OBVIOUS
<1>3. DOMAIN text = 1..n
  BY <1>1, <1>2
<1>4. PICK r : Screens(r, s, text, n)
  BY <1>3, WriteIterates
<1>5. 0 \in 0..n - 1 /\ 0 + 1 = 1 /\ 1 \in 0..n - 1 /\ 1 + 1 = 2
  BY <1>2
<1>6. r[1] = vga_putc(r[0], text[1]) /\ r[2] = vga_putc(r[1], text[2])
  BY <1>4, <1>5 DEF Screens
<1> QED BY <1>1, <1>2, <1>4, <1>6 DEF Screens

LEMMA WriteThree ==
  ASSUME NEW s, NEW b, NEW c, NEW d
  PROVE  Write(s, <<b, c, d>>) = vga_putc(vga_putc(vga_putc(s, b), c), d)
<1>1. PICK text : text = <<b, c, d>>
  OBVIOUS
<1>2. PICK n \in Nat : n = 3
  OBVIOUS
<1>3. DOMAIN text = 1..n
  BY <1>1, <1>2
<1>4. PICK r : Screens(r, s, text, n)
  BY <1>3, WriteIterates
<1>5. 0 \in 0..n - 1 /\ 0 + 1 = 1 /\ 1 \in 0..n - 1 /\ 1 + 1 = 2 /\ 2 \in 0..n - 1 /\ 2 + 1 = 3
  BY <1>2
<1>6. r[1] = vga_putc(r[0], text[1]) /\ r[2] = vga_putc(r[1], text[2]) /\ r[3] = vga_putc(r[2], text[3])
  BY <1>4, <1>5 DEF Screens
<1> QED BY <1>1, <1>2, <1>4, <1>6 DEF Screens

LEMMA AppendPair == ASSUME NEW S, NEW c \in S, NEW d \in S PROVE Append(<<c>>, d) = <<c, d>>
<1>1. PICK u : u = Append(<<c>>, d)
  OBVIOUS
<1>2. PICK v : v = <<c, d>>
  OBVIOUS
<1>3. u \in Seq(S) /\ Len(u) = 2 /\ u[1] = c /\ u[2] = d
  BY <1>1
<1>4. v \in Seq(S) /\ Len(v) = 2 /\ v[1] = c /\ v[2] = d
  BY <1>2
<1>5. \A i \in 1..2 : u[i] = v[i]
  BY <1>3, <1>4
<1>6. u = v
  BY <1>3, <1>4, <1>5, SeqEqual
<1> QED BY <1>1, <1>2, <1>6

\* The prompt stands before the cursor.
LEMMA PromptShown ==
  ASSUME NEW s, IsScreen(s), 2 <= ScreenWidth * (ScreenHeight - 1)
  PROVE  /\ IsScreen(Write(s, Prompt)) /\ Write(s, Prompt).outside = s.outside
         /\ Behind(Write(s, Prompt), Prompt)
         /\ Write(s, Prompt) = vga_putc(vga_putc(s, ">"), " ")
<1>1. PICK c : c = ">"
  OBVIOUS
<1>2. PICK d : d = " "
  OBVIOUS
<1>3. c \in Letters /\ d \in Letters
  BY <1>1, <1>2 DEF Letters
<1>4. c \notin {"CR", "NL", "TAB", "BS"} /\ d \notin {"CR", "NL", "TAB", "BS"}
  BY <1>1, <1>2
<1>5. Prompt = <<c, d>>
  BY <1>1, <1>2 DEF Prompt
<1>6. PICK t : t = vga_putc(s, c)
  OBVIOUS
<1>7. PICK u : u = vga_putc(t, d)
  OBVIOUS
<1>8. u = Write(s, Prompt)
  BY <1>5, <1>6, <1>7, WriteTwo
<1>9. PICK none : none = <<>>
  OBVIOUS
<1>10. none \in Seq(Letters) /\ Len(none) = 0
  BY <1>9
<1>11. PICK one : one = <<c>>
  OBVIOUS
<1>12. one \in Seq(Letters) /\ Len(one) = 1 /\ one = Append(none, c) /\ Append(one, d) = <<c, d>>
  <2>1. <<c>> \in Seq(Letters) /\ Len(<<c>>) = 1
    BY <1>3
  <2>2. <<c>> = Append(<<>>, c)
    OBVIOUS
  <2>3. Append(<<c>>, d) = <<c, d>>
    BY <1>3, AppendPair
  <2> QED BY <1>9, <1>11, <2>1, <2>2, <2>3
<1>13. Behind(s, none)
  BY <1>10, ScreenShape DEF Behind
<1>14. ScreenWidth * (ScreenHeight - 1) \in Int
  BY ScreenAssumption
<1>15. IsScreen(t) /\ t.outside = s.outside /\ Behind(t, one)
  <2>1. Len(none) < ScreenWidth * (ScreenHeight - 1)
    BY <1>10, <1>14
  <2> QED BY <1>3, <1>4, <1>6, <1>10, <1>12, <1>13, <2>1, PrintEffect
<1>16. IsScreen(u) /\ u.outside = t.outside /\ Behind(u, Append(one, d))
  <2>1. Len(one) < ScreenWidth * (ScreenHeight - 1)
    BY <1>12, <1>14
  <2> QED BY <1>3, <1>4, <1>7, <1>12, <1>15, <2>1, PrintEffect
<1>17. Behind(u, Prompt)
  BY <1>5, <1>12, <1>16
<1> QED BY <1>1, <1>2, <1>6, <1>7, <1>8, <1>15, <1>16, <1>17

LEMMA LinePrompt ==
  ASSUME NEW s
  PROVE  Write(s, <<"NL">> \o Prompt) = Write(vga_putc(s, "NL"), Prompt)
<1>1. PICK b : b = "NL"
  OBVIOUS
<1>2. PICK c : c = ">"
  OBVIOUS
<1>3. PICK d : d = " "
  OBVIOUS
<1>4. Prompt = <<c, d>>
  BY <1>2, <1>3 DEF Prompt
<1>5. PICK chars : chars = {b, c, d}
  OBVIOUS
<1>6. PICK u : u = <<b>> \o <<c, d>>
  OBVIOUS
<1>7. <<b>> \in Seq(chars) /\ <<c, d>> \in Seq(chars) /\ Len(<<b>>) = 1 /\ Len(<<c, d>>) = 2
  BY <1>5
<1>8. u \in Seq(chars) /\ Len(u) = 3
  BY <1>6, <1>7, ConcatProperties
<1>9. u[1] = b /\ u[2] = c /\ u[3] = d
  <2>1. u[1] = <<b>>[1] /\ u[2] = <<c, d>>[1] /\ u[3] = <<c, d>>[2]
    BY <1>6, <1>7
  <2> QED BY <2>1
<1>10. PICK v : v = <<b, c, d>>
  OBVIOUS
<1>11. v \in Seq(chars) /\ Len(v) = 3 /\ v[1] = b /\ v[2] = c /\ v[3] = d
  BY <1>5, <1>10
<1>12. \A i \in 1..3 : u[i] = v[i]
  BY <1>9, <1>11
<1>13. u = v
  BY <1>8, <1>11, <1>12, SeqEqual
<1>14. Write(s, u) = vga_putc(vga_putc(vga_putc(s, b), c), d)
  BY <1>10, <1>13, WriteThree
<1>15. Write(vga_putc(s, b), Prompt) = vga_putc(vga_putc(vga_putc(s, b), c), d)
  BY <1>4, WriteTwo
<1> QED BY <1>1, <1>4, <1>6, <1>14, <1>15

\* What a table of characters gives is one of them.
LEMMA CharactersFrom ==
  ASSUME NEW keys, NEW chars, NEW k \in DOMAIN Characters(keys, chars)
  PROVE  \E i \in DOMAIN keys : Characters(keys, chars)[k] = chars[i]
<1>1. \E i \in DOMAIN keys : keys[i] = k
  BY DEF Characters, ToSet
<1>2. PICK i \in DOMAIN keys : i = CHOOSE j \in DOMAIN keys : keys[j] = k
  BY <1>1
<1> QED BY <1>2 DEF Characters

Tuple(u, n) == u = [i \in 1..n |-> u[i]]

LEMMA TupleSequence ==
  ASSUME NEW n \in Nat, NEW u, Tuple(u, n), NEW S, \A i \in 1..n : u[i] \in S
  PROVE  u \in Seq(S) /\ Len(u) = n
BY DEF Tuple

LEMMA TableWithoutReturn ==
  ASSUME NEW m \in Nat, NEW n \in Nat,
         NEW keys, NEW more, Tuple(keys, m), Tuple(more, n),
         NEW chars, NEW others, Tuple(chars, m), Tuple(others, n),
         \A i \in 1..m : chars[i] # "CR", \A i \in 1..n : others[i] # "CR",
         NEW k, k \in DOMAIN Characters(keys \o more, chars \o others)
  PROVE  Characters(keys \o more, chars \o others)[k] # "CR"
<1>1. PICK all : all = keys \o more
  OBVIOUS
<1>2. PICK out : out = chars \o others
  OBVIOUS
<1>3. PICK names : names = {keys[i] : i \in 1..m} \cup {more[i] : i \in 1..n}
  OBVIOUS
<1>4. keys \in Seq(names) /\ Len(keys) = m /\ more \in Seq(names) /\ Len(more) = n
  <2>1. (\A i \in 1..m : keys[i] \in names) /\ \A i \in 1..n : more[i] \in names
    BY <1>3
  <2> QED BY <2>1, TupleSequence
<1>5. PICK signs : signs = {chars[i] : i \in 1..m} \cup {others[i] : i \in 1..n}
  OBVIOUS
<1>6. chars \in Seq(signs) /\ Len(chars) = m /\ others \in Seq(signs) /\ Len(others) = n
  BY <1>5, TupleSequence
<1>7. DOMAIN all = 1..m + n
  <2>1. all \in Seq(names) /\ Len(all) = m + n
    BY <1>1, <1>4, ConcatProperties
  <2> QED BY <2>1
<1>8. \E i \in DOMAIN all : Characters(all, out)[k] = out[i]
  <2>1. k \in DOMAIN Characters(all, out)
    BY <1>1, <1>2
  <2> QED BY <2>1, CharactersFrom
<1>9. PICK i \in 1..m + n : Characters(all, out)[k] = out[i]
  BY <1>7, <1>8
<1>10. CASE i \in 1..m
  <2>1. out[i] = chars[i]
    BY <1>2, <1>6, <1>10
  <2> QED BY <1>1, <1>2, <1>9, <1>10, <2>1
<1>11. CASE i \in m + 1..m + n
  <2>1. i - m \in 1..n /\ i > m
    BY <1>11
  <2>2. out[i] = others[i - m]
    <3>1. \A j \in 1..Len(chars) + Len(others) :
            (chars \o others)[j] = IF j <= Len(chars) THEN chars[j] ELSE others[j - Len(chars)]
      BY <1>6, ConcatProperties
    <3>2. i \in 1..Len(chars) + Len(others) /\ ~ (i <= Len(chars))
      BY <1>6, <1>11, <2>1
    <3>3. out[i] = others[i - Len(chars)]
      BY <1>2, <3>1, <3>2
    <3> QED BY <1>6, <3>3
  <2> QED BY <1>1, <1>2, <1>9, <2>1, <2>2
<1> QED BY <1>10, <1>11

\* No key has the character of a carriage return.
LEMMA NoReturn == "CR" \notin Ascii
<1>1. Tuple(LowerPrinting, 47) /\ Tuple(UpperPrinting, 47) /\ Tuple(Printing, 47)
  BY DEF LowerPrinting, UpperPrinting, Printing, Tuple
<1>2. Tuple(OnBothLevels, 19) /\ Tuple(SameCharacters, 19)
  BY DEF OnBothLevels, SameCharacters, Tuple
<1>3. \A i \in 1..47 : LowerPrinting[i] # "CR"
  <2>1. PICK low : low = LowerPrinting
    OBVIOUS
  <2>2. "CR" \notin {low[1], low[2], low[3], low[4], low[5], low[6], low[7], low[8], low[9],
          low[10], low[11], low[12], low[13], low[14], low[15], low[16], low[17],
          low[18], low[19], low[20], low[21], low[22], low[23], low[24], low[25],
          low[26], low[27], low[28], low[29], low[30], low[31], low[32], low[33],
          low[34], low[35], low[36], low[37], low[38], low[39], low[40], low[41],
          low[42], low[43], low[44], low[45], low[46], low[47]}
    BY <2>1 DEF LowerPrinting, GRAVE, BACKSLASH, APOSTROPHE
  <2>3. \A i \in 1..47 : low[i] # "CR"
    BY <2>2
  <2> QED BY <2>1, <2>3
<1>4. \A i \in 1..47 : UpperPrinting[i] # "CR"
  <2>1. PICK up : up = UpperPrinting
    OBVIOUS
  <2>2. "CR" \notin {up[1], up[2], up[3], up[4], up[5], up[6], up[7], up[8], up[9], up[10],
          up[11], up[12], up[13], up[14], up[15], up[16], up[17], up[18], up[19],
          up[20], up[21], up[22], up[23], up[24], up[25], up[26], up[27], up[28],
          up[29], up[30], up[31], up[32], up[33], up[34], up[35], up[36], up[37],
          up[38], up[39], up[40], up[41], up[42], up[43], up[44], up[45], up[46],
          up[47]}
    BY <2>1 DEF UpperPrinting, QUOTE
  <2>3. \A i \in 1..47 : up[i] # "CR"
    BY <2>2
  <2> QED BY <2>1, <2>3
<1>5. \A i \in 1..19 : SameCharacters[i] # "CR"
  <2>1. PICK same : same = SameCharacters
    OBVIOUS
  <2>2. "CR" \notin {same[1], same[2], same[3], same[4], same[5], same[6], same[7], same[8],
          same[9], same[10], same[11], same[12], same[13], same[14], same[15],
          same[16], same[17], same[18], same[19]}
    BY <2>1 DEF SameCharacters, BS, TAB, NL
  <2>3. \A i \in 1..19 : same[i] # "CR"
    BY <2>2
  <2> QED BY <2>1, <2>3
<1>6. 19 \in Nat /\ 47 \in Nat
  OBVIOUS
<1>7. ASSUME NEW k \in DOMAIN lower_ascii PROVE lower_ascii[k] # "CR"
  BY <1>1, <1>2, <1>3, <1>5, <1>6, TableWithoutReturn, Zenon DEF lower_ascii
<1>8. ASSUME NEW k \in DOMAIN upper_ascii PROVE upper_ascii[k] # "CR"
  BY <1>1, <1>2, <1>4, <1>5, <1>6, TableWithoutReturn, Zenon DEF upper_ascii
<1> QED BY <1>7, <1>8 DEF Ascii, NUL

-----------------------------------------------------------------------------
(* Printed numbers.                                                        *)

LEMMA PowerOfTwo == ASSUME NEW n \in Nat PROVE 2^n \in Nat \ {0}
<1>1. IsFiniteSet(1..n) /\ Cardinality(1..n) = n
  BY FS_Interval
<1>2. IsFiniteSet(SUBSET (1..n)) /\ Cardinality(SUBSET (1..n)) = 2^n
  BY <1>1, FS_SUBSET
<1>3. {} \in SUBSET (1..n)
  OBVIOUS
<1>4. Cardinality(SUBSET (1..n)) \in Nat /\ Cardinality(SUBSET (1..n)) # 0
  BY <1>2, <1>3, FS_CardinalityType, FS_EmptySet
<1> QED BY <1>2, <1>4

\* The characters of the digits.
LEMMA HexCharacters == \A i \in 1..16 : hexchars[i] \in Onward
<1>1. PICK chars : chars = hexchars
  OBVIOUS
<1>2. /\ "CR" \notin {chars[1], chars[2], chars[3], chars[4], chars[5], chars[6], chars[7],
          chars[8], chars[9], chars[10], chars[11], chars[12], chars[13], chars[14], chars[15],
          chars[16]}
      /\ "BS" \notin {chars[1], chars[2], chars[3], chars[4], chars[5], chars[6], chars[7],
          chars[8], chars[9], chars[10], chars[11], chars[12], chars[13], chars[14], chars[15],
          chars[16]}
  BY <1>1 DEF hexchars
<1>3. \A i \in 1..16 : chars[i] # "CR" /\ chars[i] # "BS"
  BY <1>2
<1> QED BY <1>1, <1>3 DEF Onward, Letters

\* Its equation has a solution, and that is a sequence of digits.
LEMMA DigitsTyped ==
  ASSUME NEW n \in Nat
  PROVE  Digits(n, 16) \in Seq(Onward)
<1> DEFINE Solves(f, k) ==
      f = [m \in 0..k |-> IF m < 16 THEN <<hexchars[m + 1]>>
                          ELSE Append(f[m \div 16], hexchars[(m % 16) + 1])]
<1>1. PICK solved : solved = {k \in 0..n : \E f : Solves(f, k)}
  OBVIOUS
<1>2. 0 \in solved
  <2>1. PICK f : f = [m \in 0..0 |-> <<hexchars[m + 1]>>]
    OBVIOUS
  <2>2. \A m \in 0..0 : m < 16
    OBVIOUS
  <2>3. Solves(f, 0)
    BY <2>1, <2>2
  <2> QED BY <1>1, <2>3
<1>3. ASSUME NEW k \in 0..n - 1, k \in solved PROVE k + 1 \in solved
  <2>1. PICK f : Solves(f, k)
    BY <1>1, <1>3
  <2> HIDE DEF Solves
  <2>2. PICK last : last = IF k + 1 < 16 THEN <<hexchars[k + 1 + 1]>>
                           ELSE Append(f[(k + 1) \div 16], hexchars[((k + 1) % 16) + 1])
    OBVIOUS
  <2>3. PICK h : h = [m \in 0..k + 1 |-> IF m = k + 1 THEN last ELSE f[m]]
    OBVIOUS
  <2>4. ASSUME NEW m \in 0..k + 1
        PROVE  h[m] = IF m < 16 THEN <<hexchars[m + 1]>>
                      ELSE Append(h[m \div 16], hexchars[(m % 16) + 1])
    <3>1. m >= 16 => m \div 16 \in 0..k + 1 /\ m \div 16 < m
      OBVIOUS
    <3>2. CASE m = k + 1
      <4>1. m >= 16 => h[m \div 16] = f[m \div 16]
        BY <2>3, <3>1, <3>2
      <4> QED BY <2>2, <2>3, <3>2, <4>1
    <3>3. CASE m # k + 1
      <4>1. m \in 0..k
        BY <3>3
      <4>2. h[m] = f[m] /\ (m >= 16 => h[m \div 16] = f[m \div 16])
        BY <2>3, <3>1, <3>3
      <4>3. f[m] = IF m < 16 THEN <<hexchars[m + 1]>>
                   ELSE Append(f[m \div 16], hexchars[(m % 16) + 1])
        BY <2>1, <4>1 DEF Solves
      <4> QED BY <4>1, <4>2, <4>3
    <3> QED BY <3>2, <3>3
  <2>5. Solves(h, k + 1)
    BY <2>3, <2>4 DEF Solves
  <2> QED BY <1>1, <2>5
<1>4. \E f : Solves(f, n)
  <2>1. \A k \in 0..n : k \in solved
    BY <1>2, <1>3, IntervalInduction
  <2>2. n \in solved
    BY <2>1
  <2> QED BY <1>1, <2>2
<1>5. PICK digits : Digits(n, 16) = digits[n] /\ digits = CHOOSE f : Solves(f, n)
  BY DEF Digits
<1>6. Solves(digits, n)
  BY <1>4, <1>5
<1>7. PICK typed : typed = {k \in 0..n : \A m \in 0..k : digits[m] \in Seq(Onward)}
  OBVIOUS
<1>8. ASSUME NEW m \in 0..n, m >= 16 => digits[m \div 16] \in Seq(Onward)
      PROVE  digits[m] \in Seq(Onward)
  <2>1. CASE m < 16
    <3>1. digits[m] = <<hexchars[m + 1]>> /\ m + 1 \in 1..16
      BY <1>6, <2>1
    <3> QED BY <3>1, HexCharacters
  <2>2. CASE ~ (m < 16)
    <3>1. digits[m] = Append(digits[m \div 16], hexchars[(m % 16) + 1])
      BY <1>6, <2>2
    <3>2. (m % 16) + 1 \in 1..16 /\ m >= 16
      BY <2>2
    <3>3. digits[m \div 16] \in Seq(Onward)
      BY <1>8, <3>2
    <3>4. hexchars[(m % 16) + 1] \in Onward
      BY <3>2, HexCharacters
    <3> QED BY <3>1, <3>3, <3>4
  <2> QED BY <2>1, <2>2
<1> HIDE DEF Solves
<1>9. 0 \in typed
  <2>1. 0 \in 0..n /\ ~ (0 >= 16)
    OBVIOUS
  <2>2. digits[0] \in Seq(Onward)
    BY <1>8, <2>1
  <2> QED BY <1>7, <2>2
<1>10. ASSUME NEW k \in 0..n - 1, k \in typed PROVE k + 1 \in typed
  <2>1. k + 1 \in 0..n /\ (k + 1 >= 16 => (k + 1) \div 16 \in 0..k)
    OBVIOUS
  <2>2. \A m \in 0..k : digits[m] \in Seq(Onward)
    BY <1>7, <1>10
  <2>3. digits[k + 1] \in Seq(Onward)
    BY <1>8, <2>1, <2>2
  <2>4. \A m \in 0..k + 1 : m \in 0..k \/ m = k + 1
    OBVIOUS
  <2> QED BY <1>7, <2>1, <2>2, <2>3, <2>4
<1>11. \A k \in 0..n : k \in typed
  BY <1>9, <1>10, IntervalInduction
<1>12. n \in typed
  BY <1>11
<1>13. digits[n] \in Seq(Onward)
  BY <1>7, <1>12
<1> QED BY <1>5, <1>13

\* The same for the characters of a format, and for the digits of a number: a fold is an
\* operator of its step, which no lemma can leave open.
States(r, s, text, n) ==
  /\ r[0] = s
  /\ \A i \in 0..n - 1 : r[i + 1] = FormatChar(r[i], text[i + 1])
  /\ FoldLeft(FormatChar, s, text) = r[n]

LEMMA FormatIterates ==
  ASSUME NEW n \in Nat, NEW s, NEW text, DOMAIN text = 1..n
  PROVE  \E r : States(r, s, text, n)
<1> DEFINE Solves(g, m) ==
      g = [t \in SUBSET (1..m) |->
             IF t = {} THEN s ELSE FormatChar(g[t \ {Max(t)}], text[Max(t)])]
<1>1. PICK solved : solved = {m \in 0..n : \E g : Solves(g, m)}
  OBVIOUS
<1>2. 0 \in solved
  <2>1. PICK g : g = [t \in SUBSET (1..0) |-> s]
    OBVIOUS
  <2>2. \A t \in SUBSET (1..0) : t = {}
    OBVIOUS
  <2>3. Solves(g, 0)
    BY <2>1, <2>2
  <2> QED BY <1>1, <2>3
<1>3. ASSUME NEW m \in 0..n - 1, m \in solved PROVE m + 1 \in solved
  <2>1. PICK g : Solves(g, m)
    BY <1>1, <1>3
  <2> HIDE DEF Solves
  <2>2. PICK h : h = [t \in SUBSET (1..m + 1) |->
                        IF m + 1 \in t THEN FormatChar(g[t \ {m + 1}], text[m + 1]) ELSE g[t]]
    OBVIOUS
  <2>3. ASSUME NEW t \in SUBSET (1..m + 1)
        PROVE  h[t] = IF t = {} THEN s ELSE FormatChar(h[t \ {Max(t)}], text[Max(t)])
    <3>1. CASE m + 1 \in t
      <4>1. Max(t) = m + 1 /\ t \ {m + 1} \in SUBSET (1..m)
        BY <3>1, GreatestOfInterval
      <4>2. h[t \ {m + 1}] = g[t \ {m + 1}]
        BY <2>2, <4>1
      <4> QED BY <2>2, <3>1, <4>1, <4>2
    <3>2. CASE m + 1 \notin t
      <4>1. t \in SUBSET (1..m)
        BY <3>2
      <4>2. h[t] = g[t] /\ h[t \ {Max(t)}] = g[t \ {Max(t)}]
        BY <2>2, <3>2
      <4> QED BY <2>1, <4>1, <4>2 DEF Solves
    <3> QED BY <3>1, <3>2
  <2>4. Solves(h, m + 1)
    BY <2>2, <2>3 DEF Solves
  <2> QED BY <1>1, <2>4
<1>4. \E g : Solves(g, n)
  <2>1. \A i \in 0..n : i \in solved
    BY <1>2, <1>3, IntervalInduction
  <2>2. n \in solved
    BY <2>1
  <2> QED BY <1>1, <2>2
<1>5. PICK iter : FoldLeft(FormatChar, s, text) = iter[1..n] /\ iter = CHOOSE g : Solves(g, n)
  BY DEF FoldLeft, MapThenFoldSet
<1>6. Solves(iter, n)
  BY <1>4, <1>5
<1>7. PICK r : r = [i \in 0..n |-> iter[1..i]]
  OBVIOUS
<1>8. r[0] = s
  BY <1>6, <1>7
<1>9. ASSUME NEW i \in 0..n - 1 PROVE r[i + 1] = FormatChar(r[i], text[i + 1])
  <2>1. /\ 1..i + 1 \in SUBSET (1..n) /\ 1..i \in SUBSET (1..n) /\ i + 1 \in 1..i + 1
        /\ i \in 0..n /\ i + 1 \in 0..n /\ i \in Nat
    OBVIOUS
  <2>2. Max(1..i + 1) = i + 1
    BY <2>1, GreatestOfInterval
  <2>3. (1..i + 1) \ {i + 1} = 1..i
    BY <2>1
  <2>4. iter[1..i + 1] = FormatChar(iter[1..i], text[i + 1])
    BY <1>6, <2>1, <2>2, <2>3
  <2> QED BY <1>7, <2>1, <2>4
<1>10. r[n] = iter[1..n]
  BY <1>7
<1> QED BY <1>5, <1>8, <1>9, <1>10 DEF States

Values(r, s, text, n) ==
  /\ r[0] = s
  /\ \A i \in 0..n - 1 : r[i + 1] = (r[i] * 16 + text[i + 1]) % 2^WordBits
  /\ FoldLeft(LAMBDA v, d : (v * 16 + d) % 2^WordBits, s, text) = r[n]

LEMMA ValueIterates ==
  ASSUME NEW n \in Nat, NEW s, NEW text, DOMAIN text = 1..n
  PROVE  \E r : Values(r, s, text, n)
<1> DEFINE Solves(g, m) ==
      g = [t \in SUBSET (1..m) |->
             IF t = {} THEN s ELSE (g[t \ {Max(t)}] * 16 + text[Max(t)]) % 2^WordBits]
<1>1. PICK solved : solved = {m \in 0..n : \E g : Solves(g, m)}
  OBVIOUS
<1>2. 0 \in solved
  <2>1. PICK g : g = [t \in SUBSET (1..0) |-> s]
    OBVIOUS
  <2>2. \A t \in SUBSET (1..0) : t = {}
    OBVIOUS
  <2>3. Solves(g, 0)
    BY <2>1, <2>2
  <2> QED BY <1>1, <2>3
<1>3. ASSUME NEW m \in 0..n - 1, m \in solved PROVE m + 1 \in solved
  <2>1. PICK g : Solves(g, m)
    BY <1>1, <1>3
  <2> HIDE DEF Solves
  <2>2. PICK h : h = [t \in SUBSET (1..m + 1) |->
                        IF m + 1 \in t THEN (g[t \ {m + 1}] * 16 + text[m + 1]) % 2^WordBits ELSE g[t]]
    OBVIOUS
  <2>3. ASSUME NEW t \in SUBSET (1..m + 1)
        PROVE  h[t] = IF t = {} THEN s ELSE (h[t \ {Max(t)}] * 16 + text[Max(t)]) % 2^WordBits
    <3>1. CASE m + 1 \in t
      <4>1. Max(t) = m + 1 /\ t \ {m + 1} \in SUBSET (1..m)
        BY <3>1, GreatestOfInterval
      <4>2. h[t \ {m + 1}] = g[t \ {m + 1}]
        BY <2>2, <4>1
      <4> QED BY <2>2, <3>1, <4>1, <4>2
    <3>2. CASE m + 1 \notin t
      <4>1. t \in SUBSET (1..m)
        BY <3>2
      <4>2. h[t] = g[t] /\ h[t \ {Max(t)}] = g[t \ {Max(t)}]
        BY <2>2, <3>2
      <4> QED BY <2>1, <4>1, <4>2 DEF Solves
    <3> QED BY <3>1, <3>2
  <2>4. Solves(h, m + 1)
    BY <2>2, <2>3 DEF Solves
  <2> QED BY <1>1, <2>4
<1>4. \E g : Solves(g, n)
  <2>1. \A i \in 0..n : i \in solved
    BY <1>2, <1>3, IntervalInduction
  <2>2. n \in solved
    BY <2>1
  <2> QED BY <1>1, <2>2
<1>5. PICK iter : FoldLeft(LAMBDA v, d : (v * 16 + d) % 2^WordBits, s, text) = iter[1..n] /\ iter = CHOOSE g : Solves(g, n)
  BY DEF FoldLeft, MapThenFoldSet
<1>6. Solves(iter, n)
  BY <1>4, <1>5
<1>7. PICK r : r = [i \in 0..n |-> iter[1..i]]
  OBVIOUS
<1>8. r[0] = s
  BY <1>6, <1>7
<1>9. ASSUME NEW i \in 0..n - 1 PROVE r[i + 1] = (r[i] * 16 + text[i + 1]) % 2^WordBits
  <2>1. /\ 1..i + 1 \in SUBSET (1..n) /\ 1..i \in SUBSET (1..n) /\ i + 1 \in 1..i + 1
        /\ i \in 0..n /\ i + 1 \in 0..n /\ i \in Nat
    OBVIOUS
  <2>2. Max(1..i + 1) = i + 1
    BY <2>1, GreatestOfInterval
  <2>3. (1..i + 1) \ {i + 1} = 1..i
    BY <2>1
  <2>4. iter[1..i + 1] = (iter[1..i] * 16 + text[i + 1]) % 2^WordBits
    BY <1>6, <2>1, <2>2, <2>3
  <2> QED BY <1>7, <2>1, <2>4
<1>10. r[n] = iter[1..n]
  BY <1>7
<1> QED BY <1>5, <1>8, <1>9, <1>10 DEF Values

\* A number as %#x prints it: 0x and its digits.
LEMMA PrintNumTyped ==
  ASSUME NEW num \in Int
  PROVE  print_num(num, 16, 0, -1, FALSE, {"#"}) \in Seq(Onward)
<1>1. PICK digits : digits = Digits(IF FALSE /\ num < 0 THEN -num ELSE num % 2^LongBits, 16)
  OBVIOUS
<1>2. PICK signs : signs = CASE FALSE /\ num < 0 -> <<"-">>
                             [] FALSE /\ num >= 0 /\ "+" \in {"#"} -> <<"+">>
                             [] OTHER -> IF " " \in {"#"} THEN <<" ">> ELSE <<>>
  OBVIOUS
<1>3. PICK prefix : prefix = CASE "#" \in {"#"} /\ 16 = 8 /\ num = 0 -> <<"0">>
                               [] "#" \in {"#"} /\ 16 = 16 -> <<"0", "x">>
                               [] OTHER -> <<>>
  OBVIOUS
<1>4. PICK padding : padding = 0 - MaxOf(Len(digits), -1)
  OBVIOUS
<1>5. PICK number : number = Repeat("0", -1 - Len(digits))
                             \o (IF -1 # 0 \/ num # 0 THEN digits ELSE <<>>)
  OBVIOUS
<1>6. PICK rest : rest = padding - Len(signs) - Len(prefix)
  OBVIOUS
<1>7. PICK padChar : padChar = IF "0" \in {"#"} THEN "0" ELSE " "
  OBVIOUS
<1>8. digits \in Seq(Onward) /\ Len(digits) \in Nat
  <2>1. 2^LongBits \in Nat \ {0}
    BY LongBitsAssumption, PowerOfTwo
  <2>2. PICK base \in Nat \ {0} : base = 2^LongBits
    BY <2>1
  <2>3. num % base \in Nat
    BY <2>2
  <2>4. digits = Digits(num % base, 16)
    BY <1>1, <2>2
  <2> QED BY <2>3, <2>4, DigitsTyped
<1>9. padding \in Int /\ ~ (padding > 0) /\ MaxOf(-1 - Len(digits), 0) = 0
  BY <1>4, <1>8 DEF MaxOf
<1>10. signs = <<>>
  BY <1>2
<1>11. <<>> \in Seq(Onward) /\ Len(<<>>) = 0
  OBVIOUS
<1>12. prefix \in Seq(Onward) /\ Len(prefix) = 2
  <2>1. PICK zero : zero = "0"
    OBVIOUS
  <2>2. PICK hex : hex = "x"
    OBVIOUS
  <2>3. zero \in Onward
    <3>1. hexchars[1] = "0" /\ 1 \in 1..16
      BY DEF hexchars
    <3> QED BY <2>1, <3>1, HexCharacters
  <2>4. hex \in Onward
    BY <2>2 DEF Onward, Letters
  <2>5. prefix = <<zero, hex>>
    BY <1>3, <2>1, <2>2
  <2> QED BY <2>3, <2>4, <2>5
<1>13. \A c, n : MaxOf(n, 0) = 0 => Repeat(c, n) = <<>>
  BY DEF Repeat
<1>14. number = <<>> \o digits
  <2>1. Repeat("0", -1 - Len(digits)) = <<>>
    BY <1>9, <1>13
  <2>2. (IF -1 # 0 \/ num # 0 THEN digits ELSE <<>>) = digits
    OBVIOUS
  <2> QED BY <1>5, <2>1, <2>2, Zenon
<1>15. number \in Seq(Onward)
  BY <1>8, <1>11, <1>14, ConcatProperties
<1>16. Repeat(padChar, rest) = <<>>
  <2>1. MaxOf(rest, 0) = 0
    BY <1>6, <1>9, <1>10, <1>11, <1>12 DEF MaxOf
  <2> QED BY <1>13, <2>1
<1>17. print_num(num, 16, 0, -1, FALSE, {"#"}) =
         signs \o prefix \o number \o Repeat(padChar, rest)
  <2>1. PICK inFront : inFront = ("-" \notin {"#"} /\ padding > 0)
    OBVIOUS
  <2>2. PICK blanks : blanks = padding - Len(signs) - (IF "#" \in {"#"} THEN 2 ELSE 0)
    OBVIOUS
  <2>3. print_num(num, 16, 0, -1, FALSE, {"#"}) =
          CASE inFront /\ padChar = "0" -> signs \o prefix \o Repeat("0", rest) \o number
            [] inFront /\ padChar = " " -> Repeat(" ", blanks) \o signs \o prefix \o number
            [] OTHER -> signs \o prefix \o number \o Repeat(padChar, rest)
    BY <1>1, <1>2, <1>3, <1>4, <1>5, <1>6, <1>7, <2>1, <2>2, Zenon DEF print_num
  <2>4. ~inFront
    BY <1>9, <2>1
  <2> QED BY <2>3, <2>4
<1>18. signs \o prefix \in Seq(Onward)
  BY <1>10, <1>11, <1>12, ConcatProperties
<1>19. signs \o prefix \o number \in Seq(Onward)
  BY <1>15, <1>18, ConcatProperties
<1>20. signs \o prefix \o number \o Repeat(padChar, rest) \in Seq(Onward)
  BY <1>11, <1>16, <1>19, ConcatProperties
<1> QED BY <1>17, <1>20

\* The formatter between two characters of such a format.
Formatted(s, state, flags, out, args) ==
  s \in [state : {state}, flags : {flags}, width : {0}, precision : {-1}, out : {out},
         args : {args}]

LEMMA FormatPlain ==
  ASSUME NEW flags, NEW out, NEW args, NEW c, c # "%",
         NEW s, Formatted(s, "NORMAL", flags, out, args)
  PROVE  Formatted(FormatChar(s, c), "NORMAL", flags, Append(out, c), args)
BY DEF FormatChar, Formatted

LEMMA FormatPercent ==
  ASSUME NEW flags, NEW out, NEW args, NEW s, Formatted(s, "NORMAL", flags, out, args)
  PROVE  Formatted(FormatChar(s, "%"), "FLAGS", flags, out, args)
BY DEF FormatChar, Formatted

LEMMA FormatHash ==
  ASSUME NEW flags, NEW out, NEW args, flags \subseteq {"#"},
         NEW s, Formatted(s, "FLAGS", flags, out, args)
  PROVE  Formatted(FormatChar(s, "#"), "FLAGS", {"#"}, out, args)
<1>1. flags \cup {"#"} = {"#"}
  OBVIOUS
<1> QED BY <1>1 DEF FormatChar, Formatted, FlagChars

LEMMA FormatHex ==
  ASSUME NEW out, NEW args, NEW s, Formatted(s, "FLAGS", {"#"}, out, args)
  PROVE  Formatted(FormatChar(s, "x"), "NORMAL", {"#"},
                   out \o print_num(Head(args), 16, 0, -1, FALSE, {"#"}), Tail(args))
<1>1. /\ s.state = "FLAGS" /\ s.flags = {"#"} /\ s.width = 0 /\ s.precision = -1
      /\ s.out = out /\ s.args = args
  BY DEF Formatted
<1>2. FormatChar(s, "x") = Width(s, "x")
  BY <1>1 DEF FormatChar, FlagChars
<1>3. "x" \notin Decimal
  <2>1. PICK chars : chars = hexchars
    OBVIOUS
  <2>2. "x" \notin {chars[1], chars[2], chars[3], chars[4], chars[5], chars[6], chars[7],
                    chars[8], chars[9], chars[10]}
    BY <2>1 DEF hexchars
  <2>3. \A i \in 1..10 : chars[i] # "x"
    BY <2>2
  <2> QED BY <2>1, <2>3 DEF Decimal
<1>4. Width(s, "x") = Length(s, "x")
  BY <1>3 DEF Width
<1>5. Length(s, "x") = Specifier(s, "x")
  BY DEF Length
<1>6. Specifier(s, "x") =
        Finish(s, print_num(Head(s.args), 16, s.width, s.precision, FALSE, s.flags), TRUE)
  BY DEF Specifier
<1>7. PICK text : text = print_num(Head(args), 16, 0, -1, FALSE, {"#"})
  OBVIOUS
<1>8. Specifier(s, "x") = Finish(s, text, TRUE)
  BY <1>1, <1>6, <1>7
<1>9. Formatted(Finish(s, text, TRUE), "NORMAL", {"#"}, out \o text, Tail(args))
  BY DEF Finish, Formatted
<1> QED BY <1>2, <1>4, <1>5, <1>7, <1>8, <1>9

\* What the port commands print: two numbers in brackets.
LEMMA ReportTyped ==
  ASSUME NEW d \in {"<", ">"}, NEW a \in Int, NEW b \in Int
  PROVE  format_print(<<"[", "%", "#", "x", "]", d, "%", "#", "x", "NL">>, <<a, b>>)
           \in Seq(Onward)
<1>1. PICK fmt : fmt = <<"[", "%", "#", "x", "]", d, "%", "#", "x", "NL">>
  OBVIOUS
<1>2. PICK n \in Nat : n = 10
  OBVIOUS
<1>3. DOMAIN fmt = 1..n
  BY <1>1, <1>2
<1>4. PICK start : start = FormatStart(<<a, b>>)
  OBVIOUS
<1>5. PICK r : States(r, start, fmt, n)
  BY <1>3, FormatIterates
<1>6. /\ r[0] = start
      /\ \A i \in 0..n - 1 : r[i + 1] = FormatChar(r[i], fmt[i + 1])
      /\ FoldLeft(FormatChar, start, fmt) = r[n]
  BY <1>5 DEF States
<1>7. /\ 0 \in 0..n - 1 /\ 1 \in 0..n - 1 /\ 2 \in 0..n - 1 /\ 3 \in 0..n - 1
      /\ 4 \in 0..n - 1 /\ 5 \in 0..n - 1 /\ 6 \in 0..n - 1 /\ 7 \in 0..n - 1
      /\ 8 \in 0..n - 1 /\ 9 \in 0..n - 1
  BY <1>2
<1>8. /\ r[0 + 1] = FormatChar(r[0], fmt[0 + 1]) /\ r[1 + 1] = FormatChar(r[1], fmt[1 + 1])
      /\ r[2 + 1] = FormatChar(r[2], fmt[2 + 1]) /\ r[3 + 1] = FormatChar(r[3], fmt[3 + 1])
      /\ r[4 + 1] = FormatChar(r[4], fmt[4 + 1]) /\ r[5 + 1] = FormatChar(r[5], fmt[5 + 1])
      /\ r[6 + 1] = FormatChar(r[6], fmt[6 + 1]) /\ r[7 + 1] = FormatChar(r[7], fmt[7 + 1])
      /\ r[8 + 1] = FormatChar(r[8], fmt[8 + 1]) /\ r[9 + 1] = FormatChar(r[9], fmt[9 + 1])
  BY <1>6, <1>7, Zenon
<1>9. /\ r[1] = FormatChar(r[0], fmt[1]) /\ r[2] = FormatChar(r[1], fmt[2])
      /\ r[3] = FormatChar(r[2], fmt[3]) /\ r[4] = FormatChar(r[3], fmt[4])
      /\ r[5] = FormatChar(r[4], fmt[5]) /\ r[6] = FormatChar(r[5], fmt[6])
      /\ r[7] = FormatChar(r[6], fmt[7]) /\ r[8] = FormatChar(r[7], fmt[8])
      /\ r[9] = FormatChar(r[8], fmt[9]) /\ r[10] = FormatChar(r[9], fmt[10])
  BY <1>8
<1>10. /\ fmt[1] = "[" /\ fmt[2] = "%" /\ fmt[3] = "#" /\ fmt[4] = "x" /\ fmt[5] = "]"
       /\ fmt[6] = d /\ fmt[7] = "%" /\ fmt[8] = "#" /\ fmt[9] = "x" /\ fmt[10] = "NL"
  BY <1>1
<1>11. PICK args : args = <<a, b>>
  OBVIOUS
<1>12. PICK rest : rest = Tail(args)
  OBVIOUS
<1>13. Head(args) = a /\ Head(rest) = b
  BY <1>11, <1>12
<1>14. "[" \in Onward /\ "]" \in Onward /\ d \in Onward /\ "NL" \in Onward /\ d # "%"
  BY DEF Onward, Letters
<1>15. PICK o0 : o0 = <<>>
  OBVIOUS
<1>16. Formatted(r[0], "NORMAL", {}, o0, args) /\ o0 \in Seq(Onward)
  BY <1>4, <1>6, <1>11, <1>15 DEF FormatStart, Formatted
<1>17. PICK o1 : o1 = Append(o0, "[")
  OBVIOUS
<1>18. Formatted(r[1], "NORMAL", {}, o1, args) /\ o1 \in Seq(Onward)
  BY <1>9, <1>10, <1>14, <1>16, <1>17, FormatPlain
<1>19. Formatted(r[2], "FLAGS", {}, o1, args)
  BY <1>9, <1>10, <1>18, FormatPercent
<1>20. Formatted(r[3], "FLAGS", {"#"}, o1, args)
  BY <1>9, <1>10, <1>19, FormatHash
<1>21. PICK p : p = print_num(a, 16, 0, -1, FALSE, {"#"})
  OBVIOUS
<1>22. PICK o2 : o2 = o1 \o p
  OBVIOUS
<1>23. Formatted(r[4], "NORMAL", {"#"}, o2, rest)
  BY <1>9, <1>10, <1>12, <1>13, <1>20, <1>21, <1>22, FormatHex
<1>24. o2 \in Seq(Onward)
  BY <1>18, <1>21, <1>22, PrintNumTyped, ConcatProperties
<1>25. PICK o3 : o3 = Append(o2, "]")
  OBVIOUS
<1>26. Formatted(r[5], "NORMAL", {"#"}, o3, rest) /\ o3 \in Seq(Onward)
  BY <1>9, <1>10, <1>14, <1>23, <1>24, <1>25, FormatPlain
<1>27. PICK o4 : o4 = Append(o3, d)
  OBVIOUS
<1>28. Formatted(r[6], "NORMAL", {"#"}, o4, rest) /\ o4 \in Seq(Onward)
  BY <1>9, <1>10, <1>14, <1>26, <1>27, FormatPlain
<1>29. Formatted(r[7], "FLAGS", {"#"}, o4, rest)
  BY <1>9, <1>10, <1>28, FormatPercent
<1>30. Formatted(r[8], "FLAGS", {"#"}, o4, rest)
  BY <1>9, <1>10, <1>29, FormatHash
<1>31. PICK q : q = print_num(b, 16, 0, -1, FALSE, {"#"})
  OBVIOUS
<1>32. PICK o5 : o5 = o4 \o q
  OBVIOUS
<1>33. Formatted(r[9], "NORMAL", {"#"}, o5, Tail(rest))
  BY <1>9, <1>10, <1>13, <1>30, <1>31, <1>32, FormatHex
<1>34. o5 \in Seq(Onward)
  BY <1>28, <1>31, <1>32, PrintNumTyped, ConcatProperties
<1>35. PICK o6 : o6 = Append(o5, "NL")
  OBVIOUS
<1>36. Formatted(r[10], "NORMAL", {"#"}, o6, Tail(rest)) /\ o6 \in Seq(Onward)
  BY <1>9, <1>10, <1>14, <1>33, <1>34, <1>35, FormatPlain
<1>37. format_print(fmt, args) = o6
  BY <1>2, <1>4, <1>6, <1>11, <1>36 DEF format_print, Formatted
<1> QED BY <1>1, <1>11, <1>36, <1>37

-----------------------------------------------------------------------------
(* The shell reads numbers from the line.                                  *)

Line == [0..CommandSize - 1 -> Onward]

LEMMA HexValueTyped == ASSUME NEW c \in HexDigit PROVE HexValue(c) \in Nat
<1>1. CASE c \in ToSet(hexchars)
  <2>1. \E i \in 1..16 : hexchars[i] = c
    <3>1. DOMAIN hexchars = 1..16
      BY DEF hexchars
    <3> QED BY <1>1, <3>1 DEF ToSet
  <2>2. DigitValue(c) \in Nat
    BY <2>1 DEF DigitValue
  <2> QED BY <1>1, <2>2 DEF HexValue
<1>2. CASE c \notin ToSet(hexchars)
  <2>1. DOMAIN hexchars = 1..16
    BY DEF hexchars
  <2>2. c \in {"a", "b", "c", "d", "e", "f"}
    BY <1>2, <2>1 DEF HexDigit, ToSet
  <2>3. PICK low : low = <<"a", "b", "c", "d", "e", "f">>
    OBVIOUS
  <2>4. c \in {low[0 + 1], low[1 + 1], low[2 + 1], low[3 + 1], low[4 + 1], low[5 + 1]}
    BY <2>2, <2>3
  <2>5. \E i \in 0..5 : low[i + 1] = c
    BY <2>4
  <2>6. (CHOOSE i \in 0..5 : low[i + 1] = c) \in 0..5
    BY <2>5
  <2>7. HexValue(c) = 10 + (CHOOSE i \in 0..5 : low[i + 1] = c)
    BY <1>2, <2>3 DEF HexValue
  <2>8. PICK i \in 0..5 : i = CHOOSE j \in 0..5 : low[j + 1] = c
    BY <2>6
  <2>9. HexValue(c) = 10 + i
    BY <2>7, <2>8
  <2> QED BY <2>9
<1> QED BY <1>1, <1>2

LEMMA ValueTyped ==
  ASSUME NEW n \in Nat, NEW digits \in [1..n -> Nat]
  PROVE  FoldLeft(LAMBDA v, d : (v * 16 + d) % 2^WordBits, 0, digits) \in Nat
<1>1. PICK base \in Nat \ {0} : base = 2^WordBits
  BY ShellAssumption, PowerOfTwo
<1>2. DOMAIN digits = 1..n
  OBVIOUS
<1>3. PICK r : Values(r, 0, digits, n)
  BY <1>2, ValueIterates
<1>4. PICK good : good = {i \in 0..n : r[i] \in Nat}
  OBVIOUS
<1>5. 0 \in good
  <2>1. r[0] = 0
    BY <1>3 DEF Values
  <2> QED BY <1>4, <2>1
<1>6. ASSUME NEW i \in 0..n - 1, i \in good PROVE i + 1 \in good
  <2>1. r[i] \in Nat /\ i + 1 \in 0..n /\ digits[i + 1] \in Nat
    BY <1>4, <1>6
  <2>2. r[i + 1] = (r[i] * 16 + digits[i + 1]) % base
    BY <1>1, <1>3 DEF Values
  <2>3. r[i] * 16 + digits[i + 1] \in Int
    BY <2>1
  <2>4. r[i + 1] \in Nat
    BY <2>2, <2>3
  <2> QED BY <1>4, <2>1, <2>4
<1>7. \A i \in 0..n : i \in good
  BY <1>5, <1>6, IntervalInduction
<1>8. n \in good
  BY <1>7
<1>9. r[n] \in Nat
  BY <1>4, <1>8
<1> QED BY <1>3, <1>9 DEF Values

\* What digits are worth.
Folded(digits) == FoldLeft(LAMBDA v, d : (v * 16 + d) % 2^WordBits, 0, digits)

\* A number ends before the end of the line, and no later than any character that is no
\* digit; it is worth the digits before that.
LEMMA ToIntEffect ==
  ASSUME NEW sh, sh.command \in Line, NEW from \in 0..CommandSize
  PROVE  /\ to_int(sh, from).next \in from..CommandSize
         /\ to_int(sh, from).value \in Nat
         /\ \A k \in from..CommandSize - 1 :
              sh.command[k] \notin HexDigit => to_int(sh, from).next <= k
         /\ \A k \in from..to_int(sh, from).next - 1 : sh.command[k] \in HexDigit
         /\ \/ to_int(sh, from).next = CommandSize
            \/ sh.command[to_int(sh, from).next] \notin HexDigit
         /\ to_int(sh, from).value =
              Folded([j \in 1..to_int(sh, from).next - from |->
                        HexValue(sh.command[from + j - 1])])
<1>1. CommandSize \in Nat /\ from \in Nat
  BY ShellAssumption
<1>2. PICK next : next = CHOOSE k \in from..CommandSize :
                           /\ k = CommandSize \/ Char(sh, k) \notin HexDigit
                           /\ \A j \in from..k - 1 : Char(sh, j) \in HexDigit
  OBVIOUS
<1>3. PICK ends : ends = {k \in from..CommandSize :
                            k = CommandSize \/ Char(sh, k) \notin HexDigit}
  OBVIOUS
<1>4. ends \in SUBSET Nat /\ CommandSize \in ends
  BY <1>1, <1>3
<1>5. PICK end \in ends : \A k \in ends : end <= k
  BY <1>4, LeastElement
<1>6. /\ end \in from..CommandSize
      /\ end = CommandSize \/ Char(sh, end) \notin HexDigit
      /\ \A j \in from..end - 1 : Char(sh, j) \in HexDigit
  BY <1>1, <1>3, <1>5
<1>7. /\ next \in from..CommandSize
      /\ next = CommandSize \/ Char(sh, next) \notin HexDigit
      /\ \A j \in from..next - 1 : Char(sh, j) \in HexDigit
  BY <1>2, <1>6
<1>8. PICK digits : digits = [j \in 1..next - from |-> HexValue(Char(sh, from + j - 1))]
  OBVIOUS
<1>9. next - from \in Nat
  BY <1>1, <1>7
<1>10. ASSUME NEW j \in 1..next - from PROVE HexValue(Char(sh, from + j - 1)) \in Nat
  <2>1. from + j - 1 \in from..next - 1
    BY <1>1, <1>7
  <2> QED BY <1>7, <2>1, HexValueTyped
<1>11. digits \in [1..next - from -> Nat]
  BY <1>8, <1>10
<1>12. FoldLeft(LAMBDA v, d : (v * 16 + d) % 2^WordBits, 0, digits) \in Nat
  BY <1>9, <1>11, ValueTyped
<1>13. to_int(sh, from) =
         [value |-> FoldLeft(LAMBDA v, d : (v * 16 + d) % 2^WordBits, 0, digits), next |-> next]
  BY <1>2, <1>8, Zenon DEF to_int
<1>14. ASSUME NEW k \in from..CommandSize - 1, sh.command[k] \notin HexDigit PROVE next <= k
  <2>1. ~ (k \in from..next - 1)
    BY <1>7, <1>14 DEF Char
  <2> QED BY <1>1, <1>7, <2>1
<1>15. PICK value : value = FoldLeft(LAMBDA v, d : (v * 16 + d) % 2^WordBits, 0, digits)
  OBVIOUS
<1>16. to_int(sh, from) = [value |-> value, next |-> next] /\ value \in Nat
  BY <1>12, <1>13, <1>15, Zenon
<1>17. value = Folded([j \in 1..next - from |-> HexValue(sh.command[from + j - 1])])
  BY <1>8, <1>15, Zenon DEF Folded, Char
<1>18. to_int(sh, from).next = next /\ to_int(sh, from).value = value
  BY <1>16
<1>19. /\ \A k \in from..next - 1 : sh.command[k] \in HexDigit
       /\ next = CommandSize \/ sh.command[next] \notin HexDigit
  BY <1>7 DEF Char
<1> QED BY <1>7, <1>14, <1>16, <1>17, <1>18, <1>19

LEMMA AsIntTyped == ASSUME NEW v \in Nat PROVE AsInt(v) \in Int
<1>1. WordBits - 1 \in Nat /\ WordBits \in Nat
  BY ShellAssumption
<1>2. 2^(WordBits - 1) \in Nat /\ 2^WordBits \in Nat
  BY <1>1, PowerOfTwo
<1> QED BY <1>2 DEF AsInt

-----------------------------------------------------------------------------
(* The shell.                                                              *)

IsShell(sh) ==
  /\ sh \in [command : Line, length : 0..CommandSize, screen : Rows, ran : {sh.ran},
             overrun : BOOLEAN]
  /\ IsScreen(sh.screen)

\* What the array holds where nothing was typed.
Blanks == {"NUL", " "}

\* From index from on command holds no character typed.
BlankFrom(sh, from) ==
  \A i \in 0..CommandSize - 1 : i >= from => sh.command[i] \in Blanks

ShellInv ==
  /\ IsShell(shell)
  /\ queue \in Seq(KeyPresses) /\ (queue # <<>> => ready)
  /\ ready \in BOOLEAN /\ tabbed \in BOOLEAN /\ longest \in Nat
  /\ line \in Seq(Onward) /\ Len(line) <= longest
  /\ ~shell.overrun =>
       /\ Len(line) = shell.length
       /\ \A i \in 1..Len(line) : line[i] = shell.command[i - 1] /\ line[i] # "NUL"
  /\ BlankFrom(shell, longest)
  /\ longest <= CommandSize - 2 => ~shell.overrun
  /\ ~tabbed => ~shell.screen.outside
  /\ ~ready => line = <<>> /\ ~tabbed
  /\ ready /\ Defined /\ ~tabbed => Behind(shell.screen, Prompt \o line)

LEMMA SizesOrdered ==
  /\ CommandSize \in Nat \ {0} /\ WordBits \in Nat \ {0}
  /\ ScreenWidth * (ScreenHeight - 1) \in Int
  /\ CommandSize + 2 <= ScreenWidth * (ScreenHeight - 1)
  /\ \A i \in DOMAIN Words : Len(Words[i]) \in 0..CommandSize - 2
<1>1. Len(Prompt) = 2
  BY DEF Prompt
<1> QED BY <1>1, ShellAssumption, ScreenAssumption

\* A text is printed: nothing but the screen changes.
LEMMA PrintedEffect ==
  ASSUME NEW sh, IsShell(sh), NEW s, IsScreen(s), NEW text, s = Write(sh.screen, text),
         NEW e, e = Printed(sh, text)
  PROVE  /\ IsShell(e) /\ e.screen = s /\ e.ran = sh.ran
         /\ e.command = sh.command /\ e.length = sh.length /\ e.overrun = sh.overrun
<1>1. e = [sh EXCEPT !.screen = s]
  BY DEF Printed, IsShell
<1>2. s \in Rows
  BY DEF IsScreen
<1>3. /\ e.screen = s /\ e.command = sh.command /\ e.length = sh.length
      /\ e.overrun = sh.overrun /\ e.ran = sh.ran
  BY <1>1 DEF IsShell
<1>4. e \in [command : Line, length : 0..CommandSize, screen : Rows, ran : {sh.ran},
             overrun : BOOLEAN]
  BY <1>1, <1>2 DEF IsShell
<1> QED BY <1>3, <1>4 DEF IsShell

LEMMA PrintedOnward ==
  ASSUME NEW sh, IsShell(sh), NEW text \in Seq(Onward), NEW e, e = Printed(sh, text)
  PROVE  /\ IsShell(e) /\ e.screen.outside = sh.screen.outside
         /\ e.command = sh.command /\ e.length = sh.length /\ e.overrun = sh.overrun
<1>1. PICK s : s = Write(sh.screen, text)
  OBVIOUS
<1>2. IsScreen(s) /\ s.outside = sh.screen.outside
  BY <1>1, WriteKeepsScreen DEF IsShell
<1> QED BY <1>1, <1>2, PrintedEffect

\* What it ran is noted.
LEMMA RanEffect ==
  ASSUME NEW sh, IsShell(sh), NEW ran, NEW e, e = [sh EXCEPT !.ran = ran]
  PROVE  /\ IsShell(e) /\ e.screen = sh.screen
         /\ e.command = sh.command /\ e.length = sh.length /\ e.overrun = sh.overrun
         /\ e.ran = ran
<1>1. /\ e.screen = sh.screen /\ e.command = sh.command /\ e.length = sh.length
      /\ e.overrun = sh.overrun /\ e.ran = ran
  BY DEF IsShell
<1>2. e \in [command : Line, length : 0..CommandSize, screen : Rows, ran : {ran},
             overrun : BOOLEAN]
  BY DEF IsShell
<1> QED BY <1>1, <1>2 DEF IsShell

LEMMA OverrunEffect ==
  ASSUME NEW sh, IsShell(sh), NEW e, e = [sh EXCEPT !.overrun = TRUE]
  PROVE  /\ IsShell(e) /\ e.screen = sh.screen
         /\ e.command = sh.command /\ e.length = sh.length /\ e.overrun /\ e.ran = sh.ran
<1>1. /\ e.screen = sh.screen /\ e.command = sh.command /\ e.length = sh.length
      /\ e.overrun /\ e.ran = sh.ran
  BY DEF IsShell
<1>2. e \in [command : Line, length : 0..CommandSize, screen : Rows, ran : {sh.ran},
             overrun : BOOLEAN]
  BY DEF IsShell
<1> QED BY <1>1, <1>2 DEF IsShell

\* A command changes the screen and nothing of the line; it leaves the array only behind
\* a line that comes within two characters of its end.
CommandEffect(sh, e) ==
  /\ IsShell(e) /\ e.screen.outside = sh.screen.outside
  /\ e.command = sh.command /\ e.length = sh.length

\* What each command leaves for a record of it.
EchoRan(sh, from) ==
  [action |-> "echo",
   text |-> IF sh.command[0] = "NUL" THEN <<>>
            ELSE [i \in 1..CommandSize - from |-> sh.command[from + i - 1]]]
OutRan(sh, action, from) ==
  [action |-> action, port |-> to_int(sh, from).value % 2^(WordBits \div 2),
   value |-> to_int(sh, to_int(sh, from).next + 1).value % 2^Bits[action]]
InRan(sh, action, from) ==
  [action |-> action, port |-> to_int(sh, from).value % 2^(WordBits \div 2)]

LEMMA EchoEffect ==
  ASSUME NEW sh, IsShell(sh), NEW from \in 0..CommandSize, NEW e, e = cmd_echo(sh, from)
  PROVE  /\ CommandEffect(sh, e) /\ e.overrun = sh.overrun
         /\ e.ran = EchoRan(sh, from)
<1>1. PICK text : text = [i \in 1..CommandSize - from |-> Char(sh, from + i - 1)]
  OBVIOUS
<1>2. PICK shown : shown = IF Char(sh, 0) = "NUL" THEN <<>> ELSE text
  OBVIOUS
<1>3. CommandSize - from \in Nat /\ CommandSize \in Nat
  BY SizesOrdered
<1>4. ASSUME NEW i \in 1..CommandSize - from PROVE Char(sh, from + i - 1) \in Onward
  <2>1. from + i - 1 \in 0..CommandSize - 1
    BY <1>3
  <2> QED BY <2>1 DEF Char, IsShell, Line
<1>5. text \in Seq(Onward)
  BY <1>1, <1>3, <1>4
<1>6. shown \in Seq(Onward)
  BY <1>2, <1>5
<1>7. PICK nl : nl = "NL"
  OBVIOUS
<1>8. <<nl>> \in Seq(Onward)
  <2>1. nl \in Onward
    BY <1>7 DEF Onward, Letters
  <2> QED BY <2>1
<1>9. shown \o <<nl>> \in Seq(Onward)
  BY <1>6, <1>8, ConcatProperties
<1>10. PICK printed : printed = Printed(sh, shown \o <<nl>>)
  OBVIOUS
<1>11. e = [printed EXCEPT !.ran = [action |-> "echo", text |-> shown]]
  BY <1>1, <1>2, <1>7, <1>10, Zenon DEF cmd_echo
<1>12. /\ IsShell(printed) /\ printed.screen.outside = sh.screen.outside
       /\ printed.command = sh.command /\ printed.length = sh.length
       /\ printed.overrun = sh.overrun
  BY <1>9, <1>10, PrintedOnward
<1>13. PICK ran : ran = [action |-> "echo", text |-> shown]
  OBVIOUS
<1>14. CommandEffect(sh, e) /\ e.overrun = sh.overrun /\ e.ran = ran
  BY <1>11, <1>12, <1>13, RanEffect DEF CommandEffect
<1>15. ran = EchoRan(sh, from)
  BY <1>1, <1>2, <1>13, Zenon DEF Char, EchoRan
<1> QED BY <1>14, <1>15

LEMMA OutEffect ==
  ASSUME NEW sh, IsShell(sh), NEW from \in 0..CommandSize, NEW action,
         NEW e, e = cmd_out(sh, action, from)
  PROVE  /\ CommandEffect(sh, e)
         /\ \A k \in from..CommandSize - 2 :
              sh.command[k] \notin HexDigit => e.overrun = sh.overrun
         /\ ~e.overrun =>
              /\ to_int(sh, from).next + 1 < CommandSize
              /\ e.ran = OutRan(sh, action, from)
<1>1. PICK port : port = to_int(sh, from)
  OBVIOUS
<1>2. PICK value : value = to_int(sh, port.next + 1)
  OBVIOUS
<1>3. PICK report : report =
        format_print(<<"[", "%", "#", "x", "]", "<", "%", "#", "x", "NL">>,
                     <<AsInt(port.value), AsInt(value.value)>>)
  OBVIOUS
<1>4. PICK ran : ran = [action |-> action, port |-> port.value % 2^(WordBits \div 2),
                        value |-> value.value % 2^Bits[action]]
  OBVIOUS
<1>5. e = IF port.next + 1 >= CommandSize THEN [sh EXCEPT !.overrun = TRUE]
          ELSE [Printed(sh, report) EXCEPT !.ran = ran]
  BY <1>1, <1>2, <1>3, <1>4, Zenon DEF cmd_out
<1>6. CommandSize \in Nat /\ sh.command \in Line
  BY SizesOrdered DEF IsShell
<1>7. /\ port.next \in from..CommandSize /\ port.value \in Nat
      /\ \A k \in from..CommandSize - 1 : sh.command[k] \notin HexDigit => port.next <= k
  BY <1>1, <1>6, ToIntEffect
<1>8. CASE port.next + 1 >= CommandSize
  <2>1. e = [sh EXCEPT !.overrun = TRUE]
    BY <1>5, <1>8
  <2>2. CommandEffect(sh, e) /\ e.overrun
    BY <2>1, OverrunEffect DEF CommandEffect
  <2>3. ASSUME NEW k \in from..CommandSize - 2, sh.command[k] \notin HexDigit PROVE FALSE
    <3>1. k \in from..CommandSize - 1
      BY <1>6
    <3>2. port.next <= k
      BY <1>7, <2>3, <3>1
    <3> QED BY <1>6, <1>7, <1>8, <3>2
  <2> QED BY <2>2, <2>3
<1>9. CASE ~ (port.next + 1 >= CommandSize)
  <2>1. port.next + 1 \in 0..CommandSize
    BY <1>6, <1>7, <1>9
  <2>2. value.value \in Nat
    BY <1>2, <1>6, <2>1, ToIntEffect
  <2>3. AsInt(port.value) \in Int /\ AsInt(value.value) \in Int
    BY <1>7, <2>2, AsIntTyped
  <2>4. report \in Seq(Onward)
    BY <1>3, <2>3, ReportTyped
  <2>5. PICK printed : printed = Printed(sh, report)
    OBVIOUS
  <2>6. e = [printed EXCEPT !.ran = ran]
    BY <1>5, <1>9, <2>5
  <2>7. /\ IsShell(printed) /\ printed.screen.outside = sh.screen.outside
        /\ printed.command = sh.command /\ printed.length = sh.length
        /\ printed.overrun = sh.overrun
    BY <2>4, <2>5, PrintedOnward
  <2>8. CommandEffect(sh, e) /\ e.overrun = sh.overrun /\ e.ran = ran
    BY <2>6, <2>7, RanEffect DEF CommandEffect
  <2>9. port.next + 1 < CommandSize
    BY <1>6, <1>7, <1>9
  <2>10. ran = OutRan(sh, action, from)
    BY <1>1, <1>2, <1>4, Zenon DEF OutRan
  <2> QED BY <1>1, <2>8, <2>9, <2>10
<1> QED BY <1>8, <1>9

LEMMA InEffect ==
  ASSUME NEW sh, IsShell(sh), NEW from \in 0..CommandSize, NEW action, NEW byte \in Nat,
         NEW e, e = cmd_in(sh, action, from, byte)
  PROVE  /\ CommandEffect(sh, e) /\ e.overrun = sh.overrun
         /\ e.ran = InRan(sh, action, from)
<1>1. PICK port : port = to_int(sh, from)
  OBVIOUS
<1>2. PICK report : report =
        format_print(<<"[", "%", "#", "x", "]", ">", "%", "#", "x", "NL">>,
                     <<AsInt(port.value), byte>>)
  OBVIOUS
<1>3. PICK ran : ran = [action |-> action, port |-> port.value % 2^(WordBits \div 2)]
  OBVIOUS
<1>4. e = [Printed(sh, report) EXCEPT !.ran = ran]
  BY <1>1, <1>2, <1>3, Zenon DEF cmd_in
<1>5. port.value \in Nat
  BY <1>1, ToIntEffect DEF IsShell
<1>6. report \in Seq(Onward)
  <2>1. AsInt(port.value) \in Int /\ byte \in Int
    BY <1>5, AsIntTyped
  <2> QED BY <1>2, <2>1, ReportTyped
<1>7. PICK printed : printed = Printed(sh, report)
  OBVIOUS
<1>8. /\ IsShell(printed) /\ printed.screen.outside = sh.screen.outside
      /\ printed.command = sh.command /\ printed.length = sh.length
      /\ printed.overrun = sh.overrun
  BY <1>6, <1>7, PrintedOnward
<1>9. CommandEffect(sh, e) /\ e.overrun = sh.overrun /\ e.ran = ran
  BY <1>4, <1>7, <1>8, RanEffect DEF CommandEffect
<1>10. ran = InRan(sh, action, from)
  BY <1>1, <1>3, Zenon DEF InRan
<1> QED BY <1>9, <1>10

\* The words come in an order.
LEMMA WordsNumbered == DOMAIN Words \subseteq Nat
<1>1. DOMAIN Actions = 1..7
  BY DEF Actions
<1> QED BY <1>1, ShellAssumption

\* What a line holds behind the characters typed ends a number.
LEMMA BlanksNoDigits == ASSUME NEW c \in Blanks PROVE c \notin HexDigit
<1>1. PICK digits : digits = {"0", "1", "2", "3", "4", "5", "6", "7", "8", "9",
                              "A", "B", "C", "D", "E", "F", "a", "b", "c", "d", "e", "f"}
  OBVIOUS
<1>2. c \notin digits
  BY <1>1, Zenon DEF Blanks
<1>3. HexDigit \subseteq digits
  <2>1. PICK chars : chars = hexchars
    OBVIOUS
  <2>2. {chars[1], chars[2], chars[3], chars[4], chars[5], chars[6], chars[7], chars[8],
         chars[9], chars[10], chars[11], chars[12], chars[13], chars[14], chars[15], chars[16]}
          \subseteq digits
    BY <1>1, <2>1 DEF hexchars
  <2>3. \A i \in 1..16 : hexchars[i] \in digits
    BY <2>1, <2>2
  <2> QED BY <1>1, <2>3 DEF HexDigit
<1> QED BY <1>2, <1>3

LEMMA InvalidOnward == Invalid \in Seq(Onward)
<1>1. PICK c : c = "?"
  OBVIOUS
<1>2. PICK d : d = "NL"
  OBVIOUS
<1>3. c \in Onward /\ d \in Onward
  BY <1>1, <1>2 DEF Onward, Letters
<1>4. Invalid = <<c, d>>
  BY <1>1, <1>2 DEF Invalid
<1> QED BY <1>3, <1>4

\* The command of a line, whichever it is.
LEMMA RunEffect ==
  ASSUME NEW sh, IsShell(sh), NEW byte \in Nat, NEW e, e = run_command(sh, byte),
         NEW last \in Nat, BlankFrom(sh, last)
  PROVE  /\ CommandEffect(sh, e)
         /\ last <= CommandSize - 2 => e.overrun = sh.overrun
<1>1. PICK matching : matching = {i \in DOMAIN Words : StartsWith(sh, Words[i])}
  OBVIOUS
<1>2. PICK first : first = CHOOSE k \in {i \in DOMAIN Words : StartsWith(sh, Words[i])} :
                             \A j \in {i \in DOMAIN Words : StartsWith(sh, Words[i])} : k <= j
  OBVIOUS
<1>3. PICK from : from = Len(Words[first])
  OBVIOUS
<1>4. PICK action : action = Actions[first]
  OBVIOUS
<1>5. e = IF matching = {} THEN [Printed(sh, Invalid) EXCEPT !.ran = [action |-> "unknown"]]
          ELSE CASE action = "echo" -> cmd_echo(sh, from)
                 [] action \in DOMAIN Bits -> cmd_out(sh, action, from)
                 [] OTHER -> cmd_in(sh, action, from, byte)
  BY <1>1, <1>2, <1>3, <1>4 DEF run_command
<1>6. CASE matching = {}
  <2>1. Invalid \in Seq(Onward)
    BY InvalidOnward
  <2>2. PICK printed : printed = Printed(sh, Invalid)
    OBVIOUS
  <2>3. PICK ran : ran = [action |-> "unknown"]
    OBVIOUS
  <2>4. e = [printed EXCEPT !.ran = ran]
    BY <1>5, <1>6, <2>2, <2>3
  <2>5. /\ IsShell(printed) /\ printed.screen.outside = sh.screen.outside
        /\ printed.command = sh.command /\ printed.length = sh.length
        /\ printed.overrun = sh.overrun
    BY <2>1, <2>2, PrintedOnward
  <2> QED BY <2>4, <2>5, RanEffect DEF CommandEffect
<1>7. CASE matching # {}
  <2>1. matching \in SUBSET Nat
    BY <1>1, WordsNumbered
  <2>2. first \in matching
    <3>1. \E i \in matching : \A j \in matching : i <= j
      BY <1>7, <2>1, LeastElement
    <3>2. \E k \in {i \in DOMAIN Words : StartsWith(sh, Words[i])} :
            \A j \in {i \in DOMAIN Words : StartsWith(sh, Words[i])} : k <= j
      BY <1>1, <3>1
    <3>3. first \in {i \in DOMAIN Words : StartsWith(sh, Words[i])}
      BY <1>2, <3>2, Zenon
    <3> QED BY <1>1, <3>3
  <2>3. from \in 0..CommandSize - 2 /\ from \in 0..CommandSize
    BY <1>1, <1>3, <2>2, SizesOrdered
  <2>4. CASE action = "echo"
    <3>1. e = cmd_echo(sh, from)
      <4>1. action = "echo" /\ action \notin DOMAIN Bits
        BY <2>4 DEF Bits
      <4> QED BY <1>5, <1>7, <4>1
    <3> QED BY <2>3, <3>1, EchoEffect
  <2>5. CASE action # "echo" /\ action \in DOMAIN Bits
    <3>1. e = cmd_out(sh, action, from)
      BY <1>5, <1>7, <2>5
    <3>2. /\ CommandEffect(sh, e)
          /\ \A k \in from..CommandSize - 2 :
               sh.command[k] \notin HexDigit => e.overrun = sh.overrun
      BY <2>3, <3>1, OutEffect
    <3>3. ASSUME last <= CommandSize - 2 PROVE e.overrun = sh.overrun
      <4>1. PICK k \in from..CommandSize - 2 : k >= last
        BY <2>3, <3>3, SizesOrdered
      <4>2. k \in 0..CommandSize - 1
        BY <2>3, <4>1, SizesOrdered
      <4>3. sh.command[k] \in Blanks
        BY <4>1, <4>2 DEF BlankFrom
      <4>4. sh.command[k] \notin HexDigit
        BY <4>3, BlanksNoDigits
      <4> QED BY <3>2, <4>1, <4>4
    <3> QED BY <3>2, <3>3
  <2>6. CASE action # "echo" /\ action \notin DOMAIN Bits
    <3>1. e = cmd_in(sh, action, from, byte)
      BY <1>5, <1>7, <2>6
    <3> QED BY <2>3, <3>1, InEffect
  <2> QED BY <2>4, <2>5, <2>6
<1> QED BY <1>6, <1>7

\* The line is blanked: what was behind it stays.
LEMMA ClearEffect ==
  ASSUME NEW sh, IsShell(sh), NEW e, e = clear_command(sh),
         NEW last \in Nat, BlankFrom(sh, last)
  PROVE  /\ IsShell(e) /\ e.screen = sh.screen /\ BlankFrom(e, last)
         /\ sh.length < CommandSize => e.overrun = sh.overrun
         /\ sh.length >= CommandSize => e.overrun
         /\ ~e.overrun => e.length = 0 /\ e.ran = sh.ran
         /\ ~e.overrun /\ BlankFrom(sh, sh.length) => BlankFrom(e, 0)
<1>1. CommandSize \in Nat \ {0} /\ sh.length \in 0..CommandSize
  BY SizesOrdered DEF IsShell
<1>2. CASE sh.length >= CommandSize
  <2>1. e = [sh EXCEPT !.overrun = TRUE]
    BY <1>2 DEF clear_command
  <2>2. IsShell(e) /\ e.screen = sh.screen /\ e.command = sh.command /\ e.overrun
    BY <2>1, OverrunEffect
  <2>3. BlankFrom(e, last)
    BY <2>2 DEF BlankFrom
  <2>4. ~ (sh.length < CommandSize)
    BY <1>1, <1>2
  <2> QED BY <1>2, <2>2, <2>3, <2>4
<1>3. CASE ~ (sh.length >= CommandSize)
  <2>1. PICK blanks : blanks = [i \in 0..CommandSize - 1 |->
                                 IF i <= sh.length THEN " " ELSE sh.command[i]]
    OBVIOUS
  <2>2. DOMAIN sh.command = 0..CommandSize - 1
    BY DEF IsShell, Line
  <2>3. e = [sh EXCEPT !.command = blanks, !.length = 0]
    BY <1>3, <2>1, <2>2 DEF clear_command, IsShell
  <2>4. blanks \in Line
    <3>1. PICK c : c = " "
      OBVIOUS
    <3>2. c \in Onward
      BY <3>1 DEF Onward, Letters
    <3>3. \A i \in 0..CommandSize - 1 : sh.command[i] \in Onward
      BY DEF IsShell, Line
    <3>4. \A i \in 0..CommandSize - 1 : (IF i <= sh.length THEN c ELSE sh.command[i]) \in Onward
      BY <3>2, <3>3
    <3> QED BY <2>1, <3>1, <3>4 DEF Line
  <2>5. /\ e.command = blanks /\ e.length = 0 /\ e.screen = sh.screen
        /\ e.overrun = sh.overrun /\ e.ran = sh.ran
    BY <2>3 DEF IsShell
  <2>6. e \in [command : Line, length : 0..CommandSize, screen : Rows, ran : {sh.ran},
               overrun : BOOLEAN]
    <3>1. 0 \in 0..CommandSize
      BY <1>1
    <3> QED BY <2>3, <2>4, <3>1 DEF IsShell
  <2>7. IsShell(e)
    BY <2>5, <2>6 DEF IsShell
  <2>8. BlankFrom(e, last)
    <3>1. PICK c : c = " "
      OBVIOUS
    <3>2. c \in Blanks
      BY <3>1, Zenon DEF Blanks
    <3>3. \A i \in 0..CommandSize - 1 :
            blanks[i] = c \/ blanks[i] = sh.command[i]
      BY <2>1, <3>1
    <3>4. \A i \in 0..CommandSize - 1 : i >= last => blanks[i] \in Blanks
      BY <3>2, <3>3 DEF BlankFrom
    <3> QED BY <2>5, <3>4 DEF BlankFrom
  <2>9. ASSUME BlankFrom(sh, sh.length) PROVE BlankFrom(e, 0)
    <3>1. PICK c : c = " "
      OBVIOUS
    <3>2. c \in Blanks
      BY <3>1, Zenon DEF Blanks
    <3>3. ASSUME NEW i \in 0..CommandSize - 1 PROVE blanks[i] \in Blanks
      <4>1. blanks[i] = IF i <= sh.length THEN c ELSE sh.command[i]
        BY <2>1, <3>1
      <4>2. CASE i <= sh.length
        BY <3>2, <4>1, <4>2
      <4>3. CASE ~ (i <= sh.length)
        <5>1. i >= sh.length
          BY <1>1, <4>3
        <5>2. sh.command[i] \in Blanks
          BY <2>9, <5>1 DEF BlankFrom
        <5> QED BY <4>1, <4>3, <5>2
      <4> QED BY <4>2, <4>3
    <3> QED BY <2>5, <3>3 DEF BlankFrom
  <2> QED BY <1>1, <1>3, <2>5, <2>7, <2>8, <2>9
<1> QED BY <1>2, <1>3

LEMMA PromptFits == 2 <= ScreenWidth * (ScreenHeight - 1)
<1>1. PICK room \in Int : room = ScreenWidth * (ScreenHeight - 1)
  BY SizesOrdered
<1> QED BY <1>1, SizesOrdered

\* Enter on a line that may be empty: afterwards there is a prompt at the cursor and
\* nothing behind it.
LEMMA ProcessEffect ==
  ASSUME NEW sh, IsShell(sh), NEW byte \in Nat, NEW e, e = process_command(sh, byte),
         NEW last \in Nat, BlankFrom(sh, last), ~sh.overrun
  PROVE  /\ IsShell(e) /\ e.screen.outside = sh.screen.outside /\ BlankFrom(e, last)
         /\ last <= CommandSize - 2 /\ sh.length <= last => ~e.overrun
         /\ ~e.overrun => e.length = 0 /\ Behind(e.screen, Prompt)
         /\ ~e.overrun /\ BlankFrom(sh, sh.length) => BlankFrom(e, 0)
         /\ sh.length = 0 => e.ran = sh.ran
         /\ ~e.overrun /\ sh.length # 0 =>
              ~run_command(sh, byte).overrun /\ e.ran = run_command(sh, byte).ran
<1>1. CommandSize \in Nat \ {0} /\ sh.length \in 0..CommandSize
  BY SizesOrdered DEF IsShell
<1>2. CASE sh.length = 0
  <2>1. e = Printed(sh, Prompt)
    BY <1>2 DEF process_command
  <2>2. PICK s : s = Write(sh.screen, Prompt)
    OBVIOUS
  <2>3. IsScreen(s) /\ s.outside = sh.screen.outside /\ Behind(s, Prompt)
    BY <2>2, PromptShown, PromptFits DEF IsShell
  <2>4. /\ IsShell(e) /\ e.screen = s /\ e.ran = sh.ran
        /\ e.command = sh.command /\ e.length = sh.length /\ e.overrun = sh.overrun
    BY <2>1, <2>2, <2>3, PrintedEffect
  <2> QED BY <1>2, <2>3, <2>4 DEF BlankFrom
<1>3. CASE sh.length # 0
  <2>1. PICK ran : ran = run_command(sh, byte)
    OBVIOUS
  <2>2. e = IF ran.overrun THEN ran ELSE Printed(clear_command(ran), Prompt)
    BY <1>3, <2>1 DEF process_command
  <2>3. /\ IsShell(ran) /\ ran.screen.outside = sh.screen.outside
        /\ ran.command = sh.command /\ ran.length = sh.length
        /\ last <= CommandSize - 2 => ran.overrun = sh.overrun
    BY <2>1, RunEffect DEF CommandEffect
  <2>4. BlankFrom(ran, last)
    BY <2>3 DEF BlankFrom
  <2>5. CASE ran.overrun
    <3>1. e = ran
      BY <2>2, <2>5
    <3> QED BY <1>3, <2>3, <2>4, <2>5, <3>1
  <2>6. CASE ~ran.overrun
    <3>1. PICK cleared : cleared = clear_command(ran)
      OBVIOUS
    <3>2. /\ IsShell(cleared) /\ cleared.screen = ran.screen /\ BlankFrom(cleared, last)
          /\ ran.length < CommandSize => cleared.overrun = ran.overrun
          /\ ran.length >= CommandSize => cleared.overrun
          /\ ~cleared.overrun => cleared.length = 0 /\ cleared.ran = ran.ran
          /\ ~cleared.overrun /\ BlankFrom(ran, ran.length) => BlankFrom(cleared, 0)
      BY <2>3, <2>4, <3>1, ClearEffect
    <3>3. e = Printed(cleared, Prompt)
      BY <2>2, <2>6, <3>1
    <3>4. PICK s : s = Write(cleared.screen, Prompt)
      OBVIOUS
    <3>5. IsScreen(s) /\ s.outside = cleared.screen.outside /\ Behind(s, Prompt)
      BY <3>2, <3>4, PromptShown, PromptFits DEF IsShell
    <3>6. /\ IsShell(e) /\ e.screen = s /\ e.command = cleared.command /\ e.ran = cleared.ran
          /\ e.length = cleared.length /\ e.overrun = cleared.overrun
      BY <3>2, <3>3, <3>4, <3>5, PrintedEffect
    <3>7. BlankFrom(e, last)
      BY <3>2, <3>6 DEF BlankFrom
    <3>8. last <= CommandSize - 2 /\ sh.length <= last => ~e.overrun
      BY <1>1, <2>3, <2>6, <3>2, <3>6
    <3>9. ~e.overrun /\ BlankFrom(sh, sh.length) => BlankFrom(e, 0)
      <4>1. BlankFrom(sh, sh.length) => BlankFrom(ran, ran.length)
        BY <2>3 DEF BlankFrom
      <4> QED BY <3>2, <3>6, <4>1 DEF BlankFrom
    <3>10. ~e.overrun => e.ran = ran.ran
      BY <3>2, <3>6
    <3> QED BY <1>3, <2>1, <2>3, <2>6, <3>2, <3>5, <3>6, <3>7, <3>8, <3>9, <3>10
  <2> QED BY <2>5, <2>6
<1> QED BY <1>2, <1>3

-----------------------------------------------------------------------------
(* The line behind the prompt.                                             *)

LEMMA PromptLetters == Prompt \in Seq(Letters) /\ Len(Prompt) = 2
<1>1. PICK c : c = ">"
  OBVIOUS
<1>2. PICK d : d = " "
  OBVIOUS
<1>3. c \in Letters
  BY <1>1 DEF Letters
<1>4. d \in Letters
  BY <1>2 DEF Letters
<1>5. Prompt = <<c, d>>
  BY <1>1, <1>2, Zenon DEF Prompt
<1> QED BY <1>3, <1>4, <1>5

\* What a text behind the prompt is made of.
LEMMA PromptJoined ==
  ASSUME NEW text \in Seq(Letters), NEW u, u = Prompt \o text
  PROVE  /\ u \in Seq(Letters) /\ Len(u) = 2 + Len(text)
         /\ \A i \in 1..2 + Len(text) : u[i] = IF i <= 2 THEN Prompt[i] ELSE text[i - 2]
<1>1. /\ u \in Seq(Letters) /\ Len(u) = Len(Prompt) + Len(text)
      /\ \A i \in 1..Len(Prompt) + Len(text) :
           u[i] = IF i <= Len(Prompt) THEN Prompt[i] ELSE text[i - Len(Prompt)]
  BY PromptLetters, ConcatProperties
<1> QED BY <1>1, PromptLetters

LEMMA LineGrows ==
  ASSUME NEW text \in Seq(Onward), NEW c \in Onward
  PROVE  /\ Prompt \o text \in Seq(Letters) /\ Len(Prompt \o text) = 2 + Len(text)
         /\ Prompt \o Append(text, c) = Append(Prompt \o text, c)
<1>1. text \in Seq(Letters) /\ c \in Letters
  BY DEF Onward
<1>2. PICK u : u = Prompt \o text
  OBVIOUS
<1>3. /\ u \in Seq(Letters) /\ Len(u) = 2 + Len(text)
      /\ \A i \in 1..2 + Len(text) : u[i] = IF i <= 2 THEN Prompt[i] ELSE text[i - 2]
  BY <1>1, <1>2, PromptJoined
<1>4. PICK longer : longer = Append(text, c)
  OBVIOUS
<1>5. /\ longer \in Seq(Letters) /\ Len(longer) = Len(text) + 1
      /\ \A i \in 1..Len(text) : longer[i] = text[i]
      /\ longer[Len(text) + 1] = c
  BY <1>1, <1>4
<1>6. PICK v : v = Prompt \o longer
  OBVIOUS
<1>7. /\ v \in Seq(Letters) /\ Len(v) = 2 + Len(longer)
      /\ \A i \in 1..2 + Len(longer) : v[i] = IF i <= 2 THEN Prompt[i] ELSE longer[i - 2]
  BY <1>5, <1>6, PromptJoined
<1>8. PICK w : w = Append(u, c)
  OBVIOUS
<1>9. /\ w \in Seq(Letters) /\ Len(w) = Len(u) + 1
      /\ \A i \in 1..Len(u) : w[i] = u[i]
      /\ w[Len(u) + 1] = c
  BY <1>1, <1>3, <1>8
<1>10. PICK n \in Nat : n = Len(text)
  OBVIOUS
<1>11. ASSUME NEW i \in 1..n + 3 PROVE v[i] = w[i]
  <2>1. CASE i <= 2
    <3>1. i \in 1..Len(u) /\ i \in 1..2 + Len(longer) /\ i \in 1..2 + Len(text)
      BY <1>3, <1>5, <1>10, <2>1
    <3>2. v[i] = Prompt[i]
      BY <1>7, <2>1, <3>1
    <3>3. w[i] = Prompt[i]
      BY <1>3, <1>9, <2>1, <3>1
    <3> QED BY <3>2, <3>3
  <2>2. CASE i > 2 /\ i <= n + 2
    <3>1. i - 2 \in 1..n /\ i \in 1..Len(u) /\ i \in 1..2 + Len(longer) /\ ~ (i <= 2)
      BY <1>3, <1>5, <1>10, <2>2
    <3>2. v[i] = longer[i - 2] /\ longer[i - 2] = text[i - 2]
      BY <1>5, <1>7, <1>10, <3>1
    <3>3. w[i] = u[i] /\ u[i] = text[i - 2]
      BY <1>3, <1>9, <1>10, <2>2, <3>1
    <3> QED BY <3>2, <3>3
  <2>3. CASE i = n + 3
    <3>1. i - 2 = Len(text) + 1 /\ i = Len(u) + 1 /\ i \in 1..2 + Len(longer) /\ ~ (i <= 2)
      BY <1>3, <1>5, <1>10, <2>3
    <3>2. v[i] = c
      BY <1>5, <1>7, <3>1
    <3>3. w[i] = c
      BY <1>9, <3>1
    <3> QED BY <3>2, <3>3
  <2> QED BY <1>10, <2>1, <2>2, <2>3
<1>12. Len(v) = n + 3 /\ Len(w) = n + 3
  BY <1>3, <1>5, <1>7, <1>9, <1>10
<1>13. v = w
  BY <1>7, <1>9, <1>11, <1>12, SeqEqual
<1> QED BY <1>2, <1>3, <1>4, <1>6, <1>8, <1>13

LEMMA LineShrinks ==
  ASSUME NEW text \in Seq(Onward), text # <<>>
  PROVE  /\ Front(text) \in Seq(Onward) /\ Len(Front(text)) = Len(text) - 1
         /\ \A i \in 1..Len(text) - 1 : Front(text)[i] = text[i]
         /\ Last(text) \in Onward /\ Last(text) = text[Len(text)]
         /\ text = Append(Front(text), Last(text))
<1>1. PICK n \in Nat : n = Len(text) /\ n # 0
  OBVIOUS
<1>2. PICK front : front = Front(text)
  OBVIOUS
<1>3. /\ front \in Seq(Onward) /\ Len(front) = n - 1
      /\ \A i \in 1..n - 1 : front[i] = text[i]
  BY <1>1, <1>2 DEF Front
<1>4. PICK end : end = Last(text)
  OBVIOUS
<1>5. end = text[n] /\ end \in Onward
  BY <1>1, <1>4 DEF Last
<1>6. PICK whole : whole = Append(front, end)
  OBVIOUS
<1>7. /\ whole \in Seq(Onward) /\ Len(whole) = n
      /\ \A i \in 1..n - 1 : whole[i] = front[i]
      /\ whole[n] = end
  BY <1>1, <1>3, <1>5, <1>6
<1>8. ASSUME NEW i \in 1..n PROVE whole[i] = text[i]
  <2>1. CASE i = n
    BY <1>5, <1>7, <2>1
  <2>2. CASE i # n
    <3>1. i \in 1..n - 1
      BY <2>2
    <3> QED BY <1>3, <1>7, <3>1
  <2> QED BY <2>1, <2>2
<1>9. whole = text
  BY <1>1, <1>7, <1>8, SeqEqual
<1> QED BY <1>1, <1>2, <1>3, <1>4, <1>5, <1>6, <1>9

LEMMA LengthEffect ==
  ASSUME NEW sh, IsShell(sh), NEW n \in 0..CommandSize, NEW e, e = [sh EXCEPT !.length = n]
  PROVE  /\ IsShell(e) /\ e.screen = sh.screen
         /\ e.command = sh.command /\ e.length = n /\ e.overrun = sh.overrun
         /\ e.ran = sh.ran
<1>1. /\ e.screen = sh.screen /\ e.command = sh.command /\ e.length = n
      /\ e.overrun = sh.overrun /\ e.ran = sh.ran
  BY DEF IsShell
<1>2. e \in [command : Line, length : 0..CommandSize, screen : Rows, ran : {sh.ran},
             overrun : BOOLEAN]
  BY DEF IsShell
<1> QED BY <1>1, <1>2 DEF IsShell

\* Backspace takes the last character off the line and off the screen.
LEMMA EraseEffect ==
  ASSUME NEW sh, IsShell(sh), NEW e, e = Erase(sh)
  PROVE  /\ sh.length = 0 => e = sh
         /\ sh.length > 0 =>
              /\ IsShell(e) /\ e.command = sh.command /\ e.length = sh.length - 1
              /\ e.overrun = sh.overrun /\ e.ran = sh.ran
              /\ \A text \in Seq(Letters), c \in Letters :
                   Behind(sh.screen, Append(text, c)) /\ c # "NUL"
                     => Behind(e.screen, text) /\ e.screen.outside = sh.screen.outside
<1>1. CommandSize \in Nat /\ sh.length \in 0..CommandSize
  BY SizesOrdered DEF IsShell
<1>2. CASE sh.length = 0
  BY <1>2 DEF Erase
<1>3. CASE sh.length > 0
  <2>1. PICK bs : bs = "BS"
    OBVIOUS
  <2>2. PICK s : s = vga_putc(sh.screen, bs)
    OBVIOUS
  <2>3. s = Write(sh.screen, <<bs>>)
    BY <2>2, WriteOne
  <2>4. PICK printed : printed = Printed(sh, <<bs>>)
    OBVIOUS
  <2>5. /\ IsScreen(s)
        /\ \A text \in Seq(Letters), c \in Letters :
             Behind(sh.screen, Append(text, c)) /\ c # "NUL"
               => Behind(s, text) /\ s.outside = sh.screen.outside
    BY <2>1, <2>2, BackspaceEffect DEF IsShell
  <2>6. /\ IsShell(printed) /\ printed.screen = s /\ printed.ran = sh.ran
        /\ printed.command = sh.command /\ printed.length = sh.length
        /\ printed.overrun = sh.overrun
    BY <2>3, <2>4, <2>5, PrintedEffect
  <2>7. PICK n : n = printed.length - 1
    OBVIOUS
  <2>8. e = [printed EXCEPT !.length = n]
    <3>1. e = [Printed(sh, <<"BS">>) EXCEPT !.length = @ - 1]
      BY <1>3 DEF Erase
    <3> QED BY <2>1, <2>4, <2>7, <3>1
  <2>9. n \in 0..CommandSize /\ n = sh.length - 1
    BY <1>1, <1>3, <2>6, <2>7
  <2>10. /\ IsShell(e) /\ e.screen = printed.screen
         /\ e.command = printed.command /\ e.length = n /\ e.overrun = printed.overrun
         /\ e.ran = printed.ran
    BY <2>6, <2>8, <2>9, LengthEffect
  <2> QED BY <1>1, <1>3, <2>5, <2>6, <2>9, <2>10
<1> QED BY <1>1, <1>2, <1>3

\* A character goes on the screen and behind the line, if the array has room for it.
LEMMA InsertEffect ==
  ASSUME NEW sh, IsShell(sh), NEW c \in Onward, c # "NL",
         NEW e, e = Insert(Printed(sh, <<c>>), c)
  PROVE  /\ IsShell(e) /\ e.screen.outside = sh.screen.outside /\ e.ran = sh.ran
         /\ sh.length >= CommandSize => e.overrun /\ e.command = sh.command
         /\ sh.length < CommandSize =>
              /\ e.overrun = sh.overrun /\ e.length = sh.length + 1
              /\ e.command = [sh.command EXCEPT ![sh.length] = c]
         /\ c # "TAB" =>
              \A text \in Seq(Letters) :
                Behind(sh.screen, text) /\ Len(text) < ScreenWidth * (ScreenHeight - 1)
                  => Behind(e.screen, Append(text, c))
<1>1. CommandSize \in Nat /\ sh.length \in 0..CommandSize
  BY SizesOrdered DEF IsShell
<1>2. PICK s : s = vga_putc(sh.screen, c)
  OBVIOUS
<1>3. s = Write(sh.screen, <<c>>)
  BY <1>2, WriteOne
<1>4. IsScreen(s) /\ s.outside = sh.screen.outside
  <2>1. CASE c = "TAB"
    BY <1>2, <2>1, TabEffect DEF IsShell
  <2>2. CASE c # "TAB"
    <3>1. c \in Letters /\ c \notin {"CR", "NL", "TAB", "BS"}
      BY <2>2 DEF Onward
    <3> QED BY <1>2, <3>1, PrintEffect DEF IsShell
  <2> QED BY <2>1, <2>2
<1>5. ASSUME c # "TAB", NEW text \in Seq(Letters), Behind(sh.screen, text),
             Len(text) < ScreenWidth * (ScreenHeight - 1)
      PROVE  Behind(s, Append(text, c))
  <2>1. c \in Letters /\ c \notin {"CR", "NL", "TAB", "BS"}
    BY <1>5 DEF Onward
  <2> QED BY <1>2, <1>5, <2>1, PrintEffect DEF IsShell
<1>6. PICK printed : printed = Printed(sh, <<c>>)
  OBVIOUS
<1>7. /\ IsShell(printed) /\ printed.screen = s /\ printed.ran = sh.ran
      /\ printed.command = sh.command /\ printed.length = sh.length
      /\ printed.overrun = sh.overrun
  BY <1>3, <1>4, <1>6, PrintedEffect
<1>8. CASE sh.length >= CommandSize
  <2>1. e = [printed EXCEPT !.overrun = TRUE]
    BY <1>6, <1>7, <1>8 DEF Insert
  <2>2. /\ IsShell(e) /\ e.screen = printed.screen
        /\ e.command = printed.command /\ e.length = printed.length /\ e.overrun
        /\ e.ran = printed.ran
    BY <1>7, <2>1, OverrunEffect
  <2>3. ~ (sh.length < CommandSize)
    BY <1>1, <1>8
  <2> QED BY <1>4, <1>5, <1>7, <2>2, <2>3
<1>9. CASE ~ (sh.length >= CommandSize)
  <2>1. PICK typed : typed = [sh.command EXCEPT ![sh.length] = c]
    OBVIOUS
  <2>2. typed \in Line
    BY <1>1, <1>9, <2>1 DEF IsShell, Line
  <2>3. PICK n : n = sh.length + 1
    OBVIOUS
  <2>4. n \in 0..CommandSize
    BY <1>1, <1>9, <2>3
  <2>5. e = [printed EXCEPT !.command = typed, !.length = n]
    BY <1>6, <1>7, <1>9, <2>1, <2>3 DEF Insert, IsShell
  <2>6. /\ e.command = typed /\ e.length = n /\ e.screen = s
        /\ e.overrun = sh.overrun /\ e.ran = printed.ran
    BY <1>7, <2>5 DEF IsShell
  <2>7. e \in [command : Line, length : 0..CommandSize, screen : Rows, ran : {printed.ran},
               overrun : BOOLEAN]
    BY <1>7, <2>2, <2>4, <2>5 DEF IsShell
  <2>8. IsShell(e)
    BY <1>4, <2>6, <2>7 DEF IsShell
  <2> QED BY <1>1, <1>4, <1>5, <1>7, <1>9, <2>1, <2>3, <2>6, <2>8
<1> QED BY <1>8, <1>9

-----------------------------------------------------------------------------
(* The shell's invariant.                                                  *)

LEMMA PromptAlone == Prompt \o <<>> = Prompt
BY PromptLetters, ConcatEmptySeq

LEMMA ShellStarts == ConsoleInit => ShellInv
<1> SUFFICES ASSUME ConsoleInit PROVE ShellInv
  OBVIOUS
<1>1. /\ CommandSize \in Nat \ {0} /\ ScreenWidth \in Nat \ {0} /\ ScreenHeight \in Nat \ {0}
  BY SizesOrdered, ScreenAssumption
<1>2. PICK nul : nul = "NUL"
  OBVIOUS
<1>3. nul \in Onward /\ nul \in Letters /\ nul \in Blanks
  BY <1>2, Zenon DEF Onward, Letters, Blanks
<1>4. PICK command : command = [i \in 0..CommandSize - 1 |-> nul]
  OBVIOUS
<1>5. command \in Line
  BY <1>3, <1>4 DEF Line
<1>6. PICK s : s = ClearScreen
  OBVIOUS
<1>7. PICK cells : cells = [i \in Cells |-> nul]
  OBVIOUS
<1>8. cells \in [Cells -> Letters]
  BY <1>3, <1>7
<1>9. s = [cells |-> cells, x |-> 0, y |-> 0, shown |-> 0, outside |-> FALSE]
  BY <1>2, <1>6, <1>7 DEF ClearScreen
<1>10. 0 \in 0..ScreenWidth - 1 /\ 0 \in 0..ScreenHeight - 1 /\ 0 * ScreenWidth + 0 = 0
  BY <1>1
<1>11. s \in Rows
  BY <1>8, <1>9, <1>10 DEF Rows
<1>12. s.shown = s.y * ScreenWidth + s.x /\ ~s.outside
  BY <1>9, <1>10
<1>13. RestBlank(s)
  BY <1>2, <1>7, <1>9 DEF RestBlank
<1>14. shell = [command |-> command, length |-> 0, screen |-> s, ran |-> Nothing,
                overrun |-> FALSE]
  BY <1>2, <1>4, <1>6 DEF ConsoleInit, Shell0
<1>15. shell \in [command : Line, length : 0..CommandSize, screen : Rows, ran : {shell.ran},
                  overrun : BOOLEAN]
  <2>1. 0 \in 0..CommandSize
    BY <1>1
  <2> QED BY <1>5, <1>11, <1>14, <2>1
<1>16. /\ shell.screen = s /\ shell.length = 0 /\ shell.command = command /\ ~shell.overrun
  BY <1>14
<1>17. IsShell(shell)
  BY <1>11, <1>12, <1>13, <1>15, <1>16 DEF IsShell, IsScreen
<1>18. BlankFrom(shell, 0)
  BY <1>3, <1>4, <1>16 DEF BlankFrom
<1>19. /\ line = <<>> /\ queue = <<>> /\ ready = FALSE /\ tabbed = FALSE /\ longest = 0
  BY DEF ConsoleInit
<1>20. queue \in Seq(KeyPresses) /\ line \in Seq(Onward) /\ Len(line) = 0
  BY <1>19
<1>21. BlankFrom(shell, longest) /\ ~shell.screen.outside
  BY <1>12, <1>16, <1>18, <1>19
<1>22. /\ Len(line) = shell.length /\ Len(line) <= longest
       /\ \A i \in 1..Len(line) : line[i] = shell.command[i - 1] /\ line[i] # "NUL"
  BY <1>16, <1>19, <1>20
<1>23. /\ ready \in BOOLEAN /\ tabbed \in BOOLEAN /\ longest \in Nat /\ ~ready /\ ~tabbed
       /\ queue = <<>> /\ line = <<>> /\ ~shell.overrun
  BY <1>16, <1>19
<1> QED BY <1>17, <1>20, <1>21, <1>22, <1>23 DEF ShellInv

\* Nothing of the shell and its line changes, and an event comes only when it is ready.
LEMMA SameShell ==
  ASSUME ShellInv, UNCHANGED <<shell, ready, lineVars>>, decoder.overrun => decoder'.overrun,
         queue' \in Seq(KeyPresses), queue' # <<>> => ready
  PROVE  ShellInv'
<1>1. /\ shell' = shell /\ ready' = ready /\ line' = line /\ tabbed' = tabbed
      /\ longest' = longest
  BY DEF lineVars
<1>2. Defined' => Defined
  BY <1>1 DEF Defined
<1> QED BY <1>1, <1>2 DEF ShellInv

LEMMA SendKeepsShell ==
  ASSUME ShellInv, NEW key, NEW kind, NEW code, NEW reports, Send(key, kind, code, reports)
  PROVE  ShellInv'
<1>1. /\ UNCHANGED <<shell, ready, lineVars>> /\ decoder' = decoder /\ queue' = queue
  BY DEF Send
<1> QED BY <1>1, SameShell DEF ShellInv

LEMMA InterruptKeepsShell ==
  ASSUME ShellInv, WireInv', KeyInterrupt
  PROVE  ShellInv'
<1>1. UNCHANGED <<shell, ready, lineVars>> /\ ~decoder.overrun
  BY DEF KeyInterrupt, Defined
<1>2. PICK press : press = decoder'.press
  OBVIOUS
<1>3. press \in {NoPress} \cup KeyPresses
  BY <1>2 DEF WireInv, Decoders
<1>4. queue' = IF press # NoPress /\ ready THEN Append(queue, press) ELSE queue
  BY <1>2 DEF KeyInterrupt
<1>5. queue' \in Seq(KeyPresses) /\ (queue' # <<>> => ready)
  <2>1. CASE press # NoPress /\ ready
    BY <1>3, <1>4, <2>1 DEF ShellInv
  <2>2. CASE ~ (press # NoPress /\ ready)
    BY <1>4, <2>2 DEF ShellInv
  <2> QED BY <2>1, <2>2
<1> QED BY <1>1, <1>5, SameShell

LEMMA StartKeepsShell ==
  ASSUME ShellInv, StartShell
  PROVE  ShellInv'
<1>1. /\ ready' = TRUE /\ line' = line /\ tabbed' = tabbed /\ longest' = longest
      /\ queue' = queue /\ decoder' = decoder /\ shell' = bash_initialize(shell)
      /\ ~ready /\ Defined
  BY DEF StartShell, lineVars
<1>2. line = <<>> /\ ~tabbed /\ ~shell.overrun /\ ~shell.screen.outside /\ shell.length = 0
  BY <1>1 DEF ShellInv, Defined
<1>3. PICK s : s = vga_putc(shell.screen, "NL")
  OBVIOUS
<1>4. IsShell(shell) /\ IsScreen(s) /\ s.outside = shell.screen.outside
  BY <1>3, NewLineEffect DEF ShellInv, IsShell
<1>5. PICK t : t = Write(s, Prompt)
  OBVIOUS
<1>6. IsScreen(t) /\ t.outside = s.outside /\ Behind(t, Prompt)
  BY <1>4, <1>5, PromptFits, PromptShown
<1>7. PICK text : text = <<"NL">> \o Prompt
  OBVIOUS
<1>8. t = Write(shell.screen, text)
  BY <1>3, <1>5, <1>7, LinePrompt
<1>9. shell' = Printed(shell, text)
  BY <1>1, <1>7 DEF bash_initialize
<1>10. PICK e : e = shell'
  OBVIOUS
<1>11. /\ IsShell(e) /\ e.screen = t /\ e.command = shell.command /\ e.length = shell.length
       /\ e.overrun = shell.overrun
  BY <1>4, <1>6, <1>8, <1>9, <1>10, PrintedEffect
<1>12. BlankFrom(e, longest)
  BY <1>11 DEF ShellInv, BlankFrom
<1>13. Behind(e.screen, Prompt \o line)
  BY <1>2, <1>6, <1>11, PromptAlone
<1>14. /\ queue' \in Seq(KeyPresses) /\ ready' \in BOOLEAN /\ tabbed' \in BOOLEAN
       /\ longest' \in Nat /\ line' \in Seq(Onward) /\ Len(line') <= longest'
  BY <1>1 DEF ShellInv
<1>15. ~shell'.overrun /\ ~shell'.screen.outside /\ Len(line') = shell'.length /\ line' = <<>>
  BY <1>1, <1>2, <1>4, <1>6, <1>10, <1>11
<1>16. IsShell(shell') /\ BlankFrom(shell', longest') /\ Behind(shell'.screen, Prompt \o line')
  BY <1>1, <1>10, <1>11, <1>12, <1>13
<1> QED BY <1>1, <1>14, <1>15, <1>16 DEF ShellInv

\* keypress_handler by the character a key press stands for.
Handled(sh, c, byte, e) ==
  /\ c = "NUL" => e = sh
  /\ c = "BS" => e = Erase(sh)
  /\ c = "NL" => e = process_command(Printed(sh, <<c>>), byte)
  /\ c \notin {"NUL", "BS", "NL"} => e = Insert(Printed(sh, <<c>>), c)

LEMMA KeyHandled ==
  ASSUME NEW event, event.released \in BOOLEAN, NEW byte, NEW sh,
         NEW c, c = IF event.released THEN "NUL" ELSE event.ascii,
         NEW e, e = keypress_handler(sh, event, byte)
  PROVE  Handled(sh, c, byte, e)
<1>1. e = CASE event.ascii = "NUL" \/ event.released -> sh
            [] event.ascii = "BS" /\ ~event.released -> Erase(sh)
            [] event.ascii = "NL" /\ ~event.released ->
                 process_command(Printed(sh, <<event.ascii>>), byte)
            [] OTHER -> Insert(Printed(sh, <<event.ascii>>), event.ascii)
  BY Zenon DEF keypress_handler
<1>2. CASE event.released
  BY <1>1, <1>2 DEF Handled
<1>3. CASE ~event.released
  <2>1. c = event.ascii
    BY <1>3
  <2> QED BY <1>1, <1>3, <2>1 DEF Handled
<1> QED BY <1>2, <1>3

LEMMA KeyLetters ==
  ASSUME NEW event, event.released \in BOOLEAN, event.ascii \in Ascii,
         NEW c, c = IF event.released THEN "NUL" ELSE event.ascii
  PROVE  c \in Letters /\ c # "CR"
<1>1. PICK nul : nul = "NUL"
  OBVIOUS
<1>2. nul \in Letters /\ nul # "CR"
  BY <1>1, Zenon DEF Letters
<1>3. event.ascii \in Letters /\ event.ascii # "CR"
  BY NoReturn DEF Letters
<1> QED BY <1>1, <1>2, <1>3

\* An event changes the shell and the line the same way.
LEMMA EventKeepsShell ==
  ASSUME ShellInv, HandleEvent
  PROVE  ShellInv'
<1>1. /\ Defined /\ queue # <<>> /\ queue' = Tail(queue)
      /\ ready' = ready /\ decoder' = decoder
  BY DEF HandleEvent
<1>2. PICK event : event = Head(queue)
  OBVIOUS
<1>3. PICK c : c = IF event.released THEN "NUL" ELSE event.ascii
  OBVIOUS
<1>4. PICK sh : sh = [shell EXCEPT !.ran = Nothing]
  OBVIOUS
<1>5. \E byte \in PortBytes : shell' = keypress_handler(sh, event, byte)
  BY <1>2, <1>4, Zenon DEF HandleEvent
<1>6. PICK byte \in PortBytes : shell' = keypress_handler(sh, event, byte)
  BY <1>5
<1>7. byte \in Nat
  BY ConsoleAssumption
<1>8. /\ line' = CASE c = "NUL" -> line
                   [] c = "NL" -> <<>>
                   [] c = "BS" -> IF line = <<>> THEN line ELSE Front(line)
                   [] OTHER -> Append(line, c)
      /\ tabbed' = (c = "TAB" \/ (tabbed /\ c # "NL"))
      /\ longest' = MaxOf(longest, Len(line'))
  BY <1>2, <1>3 DEF HandleEvent, NUL, NL, BS, TAB
<1>9. /\ event \in KeyPresses /\ queue' \in Seq(KeyPresses) /\ ready
  BY <1>1, <1>2 DEF ShellInv
<1>10. event.released \in BOOLEAN /\ event.ascii \in Ascii
  BY <1>9 DEF KeyPresses
<1>11. PICK e : e = shell'
  OBVIOUS
<1>12. /\ c = "NUL" => e = sh
       /\ c = "BS" => e = Erase(sh)
       /\ c = "NL" => e = process_command(Printed(sh, <<c>>), byte)
       /\ c \notin {"NUL", "BS", "NL"} => e = Insert(Printed(sh, <<c>>), c)
  <2>1. e = keypress_handler(sh, event, byte)
    BY <1>6, <1>11
  <2>2. event.released \in BOOLEAN
    BY <1>10
  <2>3. Handled(sh, c, byte, e)
    BY <1>3, <2>1, <2>2, KeyHandled
  <2> QED BY <2>3, Zenon DEF Handled
<1>13. c \in Letters /\ c # "CR"
  BY <1>3, <1>10, KeyLetters
<1>14. /\ IsShell(sh) /\ sh.screen = shell.screen
       /\ sh.command = shell.command /\ sh.length = shell.length /\ sh.overrun = shell.overrun
  <2>1. PICK ran : ran = Nothing
    OBVIOUS
  <2>2. sh = [shell EXCEPT !.ran = ran]
    BY <1>4, <2>1
  <2>3. IsShell(shell)
    BY DEF ShellInv
  <2> QED BY <2>2, <2>3, RanEffect
<1>15. /\ ~sh.overrun /\ ~sh.screen.outside /\ Len(line) = sh.length /\ BlankFrom(sh, longest)
       /\ \A i \in 1..Len(line) : line[i] = sh.command[i - 1] /\ line[i] # "NUL"
  BY <1>1, <1>14 DEF ShellInv, Defined, BlankFrom
<1>16. ~tabbed => Behind(sh.screen, Prompt \o line)
  BY <1>1, <1>9, <1>14 DEF ShellInv
<1>17. /\ tabbed \in BOOLEAN /\ longest \in Nat /\ line \in Seq(Onward)
       /\ Len(line) <= longest /\ Len(line) \in Nat
  BY DEF ShellInv
<1>18. /\ CommandSize \in Nat \ {0} /\ sh.length \in 0..CommandSize
       /\ sh.command \in [0..CommandSize - 1 -> Onward]
  BY <1>14, SizesOrdered DEF IsShell, Line
<1>19. SUFFICES /\ IsShell(e)
                /\ line' \in Seq(Onward) /\ longest' \in Nat /\ Len(line') <= longest'
                /\ ~e.overrun =>
                     /\ Len(line') = e.length
                     /\ \A i \in 1..Len(line') :
                          line'[i] = e.command[i - 1] /\ line'[i] # "NUL"
                /\ BlankFrom(e, longest')
                /\ longest' <= CommandSize - 2 => ~e.overrun
                /\ ~tabbed' => ~e.screen.outside
                /\ ~e.overrun /\ ~e.screen.outside /\ ~tabbed' => Behind(e.screen, Prompt \o line')
  <2>1. tabbed' \in BOOLEAN
    BY <1>8
  <2>2. Defined' => ~e.overrun /\ ~e.screen.outside
    BY <1>11 DEF Defined
  <2> QED BY <1>1, <1>9, <1>11, <1>19, <2>1, <2>2 DEF ShellInv
<1>20. CASE c = "NUL"
  <2>1. line' = line /\ longest' = longest /\ (tabbed' => tabbed) /\ (tabbed => tabbed')
    BY <1>8, <1>17, <1>20 DEF MaxOf
  <2>2. e = sh
    BY <1>12, <1>20
  <2> QED BY <1>14, <1>15, <1>16, <1>17, <2>1, <2>2
<1>21. CASE c = "NL"
  <2>1. line' = <<>> /\ Len(line') = 0 /\ longest' = longest
    BY <1>8, <1>17, <1>21 DEF MaxOf
  <2>2. PICK printed : printed = Printed(sh, <<c>>)
    OBVIOUS
  <2>3. PICK s : s = vga_putc(sh.screen, c)
    OBVIOUS
  <2>4. s = Write(sh.screen, <<c>>)
    BY <2>3, WriteOne
  <2>5. IsScreen(s) /\ s.outside = sh.screen.outside
    BY <1>14, <1>21, <2>3, NewLineEffect DEF IsShell
  <2>6. /\ IsShell(printed) /\ printed.screen = s /\ printed.command = sh.command
        /\ printed.length = sh.length /\ printed.overrun = sh.overrun
    BY <1>14, <2>2, <2>4, <2>5, PrintedEffect
  <2>7. BlankFrom(printed, longest) /\ ~printed.overrun
    BY <1>15, <2>6 DEF BlankFrom
  <2>8. e = process_command(printed, byte)
    BY <1>12, <1>21, <2>2
  <2>9. /\ IsShell(e) /\ e.screen.outside = printed.screen.outside /\ BlankFrom(e, longest)
        /\ longest <= CommandSize - 2 /\ printed.length <= longest => ~e.overrun
        /\ ~e.overrun => e.length = 0 /\ Behind(e.screen, Prompt)
    BY <1>7, <1>17, <2>6, <2>7, <2>8, ProcessEffect
  <2>10. ~e.screen.outside
    BY <1>15, <2>5, <2>6, <2>9
  <2>11. longest' <= CommandSize - 2 => ~e.overrun
    BY <1>15, <1>17, <2>1, <2>6, <2>9
  <2>12. ~e.overrun => Behind(e.screen, Prompt \o line')
    BY <2>1, <2>9, PromptAlone
  <2>13. line' \in Seq(Onward) /\ \A i \in 1..Len(line') : FALSE
    BY <2>1
  <2> QED BY <1>17, <2>1, <2>9, <2>10, <2>11, <2>12, <2>13
<1>22. CASE c = "BS" /\ line = <<>>
  <2>1. line' = line /\ longest' = longest /\ (tabbed' => tabbed) /\ (tabbed => tabbed')
    BY <1>8, <1>17, <1>22 DEF MaxOf
  <2>2. sh.length = 0
    BY <1>15, <1>22
  <2>3. e = sh
    BY <1>12, <1>14, <1>22, <2>2, EraseEffect
  <2> QED BY <1>14, <1>15, <1>16, <1>17, <2>1, <2>3
<1>23. CASE c = "BS" /\ line # <<>>
  <2>1. line' = Front(line) /\ (tabbed' => tabbed) /\ (tabbed => tabbed')
    BY <1>8, <1>23
  <2>2. PICK end : end = Last(line)
    OBVIOUS
  <2>3. /\ line' \in Seq(Onward) /\ Len(line') = Len(line) - 1
        /\ \A i \in 1..Len(line) - 1 : line'[i] = line[i]
        /\ end \in Onward /\ end = line[Len(line)] /\ line = Append(line', end)
    BY <1>17, <1>23, <2>1, <2>2, LineShrinks
  <2>4. Len(line) > 0 /\ end # "NUL"
    <3>1. Len(line) > 0
      BY <1>17, <1>23
    <3>2. Len(line) \in 1..Len(line)
      BY <1>17, <3>1
    <3> QED BY <1>15, <2>3, <3>1, <3>2
  <2>5. longest' = longest /\ Len(line') <= longest
    BY <1>8, <1>17, <2>3 DEF MaxOf
  <2>6. e = Erase(sh)
    BY <1>12, <1>23
  <2>7. /\ IsShell(e) /\ e.command = sh.command /\ e.length = sh.length - 1
        /\ e.overrun = sh.overrun
        /\ \A text \in Seq(Letters), d \in Letters :
             Behind(sh.screen, Append(text, d)) /\ d # "NUL"
               => Behind(e.screen, text) /\ e.screen.outside = sh.screen.outside
    BY <1>14, <1>15, <2>4, <2>6, EraseEffect
  <2>8. PICK short : short = Prompt \o line'
    OBVIOUS
  <2>9. short \in Seq(Letters) /\ Prompt \o line = Append(short, end) /\ end \in Letters
    BY <2>3, <2>8, LineGrows DEF Onward
  <2>10. ~tabbed => Behind(e.screen, short) /\ ~e.screen.outside
    BY <1>15, <1>16, <2>4, <2>7, <2>9
  <2>11. BlankFrom(e, longest)
    BY <1>15, <2>7 DEF BlankFrom
  <2>12. Len(line') = e.length /\ ~e.overrun
    BY <1>15, <2>3, <2>7
  <2>13. \A i \in 1..Len(line') : line'[i] = e.command[i - 1] /\ line'[i] # "NUL"
    <3>1. \A i \in 1..Len(line') : i \in 1..Len(line) - 1 /\ i \in 1..Len(line)
      BY <1>17, <2>3
    <3> QED BY <1>15, <2>3, <2>7, <3>1
  <2> QED BY <1>17, <2>1, <2>3, <2>5, <2>7, <2>8, <2>10, <2>11, <2>12, <2>13
<1>24. CASE c \notin {"NUL", "NL", "BS"}
  <2>1. c \in Onward
    BY <1>13, <1>24 DEF Onward
  <2>2. line' = Append(line, c) /\ tabbed' = (c = "TAB" \/ tabbed)
    BY <1>8, <1>24
  <2>3. /\ line' \in Seq(Onward) /\ Len(line') = Len(line) + 1
        /\ \A i \in 1..Len(line) : line'[i] = line[i]
        /\ line'[Len(line) + 1] = c
    BY <1>17, <2>1, <2>2
  <2>4. /\ longest' \in Nat /\ longest' >= longest /\ longest' >= Len(line')
    BY <1>8, <1>17, <2>3 DEF MaxOf
  <2>5. e = Insert(Printed(sh, <<c>>), c) /\ c # "NL"
    BY <1>12, <1>24
  <2>6. /\ IsShell(e) /\ e.screen.outside = sh.screen.outside
        /\ sh.length >= CommandSize => e.overrun /\ e.command = sh.command
        /\ sh.length < CommandSize =>
             /\ e.overrun = sh.overrun /\ e.length = sh.length + 1
             /\ e.command = [sh.command EXCEPT ![sh.length] = c]
        /\ c # "TAB" =>
             \A text \in Seq(Letters) :
               Behind(sh.screen, text) /\ Len(text) < ScreenWidth * (ScreenHeight - 1)
                 => Behind(e.screen, Append(text, c))
    BY <1>14, <2>1, <2>5, InsertEffect
  <2>7. ~e.screen.outside
    BY <1>15, <2>6
  <2>8. CASE sh.length >= CommandSize
    <3>1. e.overrun /\ e.command = sh.command
      BY <2>6, <2>8
    <3>2. BlankFrom(e, longest')
      BY <1>15, <1>17, <2>4, <3>1 DEF BlankFrom
    <3>3. ~ (longest' <= CommandSize - 2)
      BY <1>15, <1>17, <1>18, <2>3, <2>4, <2>8
    <3> QED BY <2>3, <2>4, <2>6, <2>7, <3>1, <3>2, <3>3
  <2>9. CASE sh.length < CommandSize
    <3>1. /\ ~e.overrun /\ e.length = sh.length + 1
          /\ e.command = [sh.command EXCEPT ![sh.length] = c]
      BY <1>15, <2>6, <2>9
    <3>2. sh.length \in 0..CommandSize - 1
      BY <1>18, <2>9
    <3>3. /\ e.command[sh.length] = c
          /\ \A i \in 0..CommandSize - 1 : i # sh.length => e.command[i] = sh.command[i]
      BY <1>18, <3>1, <3>2
    <3>4. BlankFrom(e, longest')
      <4>1. ASSUME NEW i \in 0..CommandSize - 1, i >= longest' PROVE e.command[i] \in Blanks
        <5>1. i # sh.length /\ i >= longest
          BY <1>15, <1>17, <2>3, <2>4, <4>1
        <5>2. e.command[i] = sh.command[i]
          BY <3>3, <5>1
        <5> QED BY <1>15, <5>1, <5>2 DEF BlankFrom
      <4> QED BY <4>1 DEF BlankFrom
    <3>5. Len(line') = e.length
      BY <1>15, <2>3, <3>1
    <3>6. ASSUME NEW i \in 1..Len(line')
          PROVE  line'[i] = e.command[i - 1] /\ line'[i] # "NUL"
      <4>1. CASE i = Len(line) + 1
        <5>1. i - 1 = sh.length
          BY <1>15, <1>17, <4>1
        <5> QED BY <1>24, <2>3, <3>3, <4>1, <5>1
      <4>2. CASE i # Len(line) + 1
        <5>1. i \in 1..Len(line) /\ i - 1 \in 0..CommandSize - 1 /\ i - 1 # sh.length
          <6>1. i \in 1..Len(line) /\ i \in 1..sh.length
            BY <1>15, <1>17, <2>3, <4>2
          <6> QED BY <1>18, <3>2, <6>1
        <5> QED BY <1>15, <2>3, <3>3, <5>1
      <4> QED BY <4>1, <4>2
    <3>7. ~tabbed' => Behind(e.screen, Prompt \o line')
      <4>1. PICK text : text = Prompt \o line
        OBVIOUS
      <4>2. /\ text \in Seq(Letters) /\ Len(text) = 2 + Len(line)
            /\ Prompt \o line' = Append(text, c)
        BY <1>17, <2>1, <2>2, <4>1, LineGrows
      <4>3. Len(text) < ScreenWidth * (ScreenHeight - 1)
        BY <1>15, <1>17, <2>9, <4>2, SizesOrdered
      <4>4. ASSUME ~tabbed' PROVE Behind(e.screen, Append(text, c))
        <5>1. c # "TAB" /\ ~tabbed
          BY <2>2, <4>4
        <5> QED BY <1>16, <2>6, <4>1, <4>2, <4>3, <5>1
      <4> QED BY <4>2, <4>4
    <3> QED BY <2>3, <2>4, <2>6, <2>7, <3>1, <3>4, <3>5, <3>6, <3>7
  <2> QED BY <1>18, <2>8, <2>9
<1> QED BY <1>20, <1>21, <1>22, <1>23, <1>24

LEMMA ShellNext == ShellInv /\ WireInv /\ WireInv' /\ [ConsoleNext]_consoleVars => ShellInv'
<1> SUFFICES ASSUME ShellInv, WireInv', [ConsoleNext]_consoleVars PROVE ShellInv'
  OBVIOUS
<1>1. ASSUME NEW key \in desk.keys, Press(key) PROVE ShellInv'
  BY <1>1, SendKeepsShell DEF Press
<1>2. ASSUME NEW key \in desk.keys, Typematic(key) PROVE ShellInv'
  BY <1>2, SendKeepsShell DEF Typematic
<1>3. ASSUME NEW key \in desk.keys, Release(key) PROVE ShellInv'
  BY <1>3, SendKeepsShell DEF Release
<1>4. ASSUME NEW key \in desk.keys, Stroke(key) PROVE ShellInv'
  BY <1>4, SendKeepsShell DEF Stroke
<1>5. CASE KeyInterrupt
  BY <1>5, InterruptKeepsShell
<1>6. CASE StartShell
  BY <1>6, StartKeepsShell
<1>7. CASE HandleEvent
  BY <1>7, EventKeepsShell
<1>8. CASE UNCHANGED consoleVars
  <2>1. UNCHANGED <<shell, ready, lineVars>> /\ decoder' = decoder /\ queue' = queue
    BY <1>8 DEF consoleVars
  <2> QED BY <2>1, SameShell DEF ShellInv
<1> QED BY <1>1, <1>2, <1>3, <1>4, <1>5, <1>6, <1>7, <1>8 DEF ConsoleNext

LEMMA ShellKept == ConsoleSpec => []ShellInv
<1>1. ConsoleSpec => []WireInv
  BY WireTame
<1> QED BY <1>1, ShellStarts, ShellNext, PTL DEF ConsoleSpec

\* The decoder's sets and its eight bytes, the shell's line and the cursor are what the
\* code's types and tests make them, also where the model ends because an index left an
\* array.
THEOREM ConsoleTyped == ConsoleSpec => []ConsoleTypeOK
<1>1. WireInv /\ ShellInv => ConsoleTypeOK
  <2> SUFFICES ASSUME WireInv, ShellInv PROVE ConsoleTypeOK
    OBVIOUS
  <2>1. /\ decoder.modifiers \subseteq Modifiers /\ decoder.toggles \subseteq Toggles
        /\ Len(decoder.bytes) <= ScancodeSize
    BY DEF WireInv, Decoders
  <2>2. shell.length \in 0..CommandSize /\ DOMAIN shell.command = 0..CommandSize - 1
    BY DEF ShellInv, IsShell, Line
  <2>3. /\ shell.screen.x \in 0..ScreenWidth - 1 /\ shell.screen.y \in 0..ScreenHeight - 1
        /\ DOMAIN shell.screen.cells = Cells
    <3>1. shell.screen \in Rows
      BY DEF ShellInv, IsShell, IsScreen
    <3> QED BY <3>1 DEF Rows
  <2> QED BY <2>1, <2>2, <2>3 DEF ConsoleTypeOK, Modifiers, Toggles
<1> QED BY <1>1, WireTame, ShellKept, PTL

\* Whatever is typed, echoed, run, erased and printed: while no line comes within two
\* characters of the array's end, process_command and keypress_handler stay inside
\* command, and while no Tab is typed no backspace leaves the screen.
THEOREM ShellStaysInBounds == ConsoleSpec => []ShellInBounds
<1>1. ShellInv => ShellInBounds
  BY DEF ShellInv, ShellInBounds
<1> QED BY <1>1, ShellKept, PTL

\* What is typed stands on the screen behind the prompt, with the cursor behind it, and
\* in command: at every width and height, through every wrap, scroll, command and
\* backspace, as long as no Tab is on the line.
THEOREM LineStaysOnScreen == ConsoleSpec => []LineOnScreen
<1>1. ShellInv => LineOnScreen
  <2> SUFFICES ASSUME ShellInv, Defined, ready, ~tabbed PROVE LineOnScreen
    BY DEF LineOnScreen
  <2>1. PICK s : s = shell.screen
    OBVIOUS
  <2>2. PICK n \in Nat : n = shell.length
    BY SizesOrdered DEF ShellInv, IsShell
  <2>3. /\ line \in Seq(Onward) /\ Len(line) = n
        /\ \A i \in 1..n : line[i] = shell.command[i - 1]
    BY <2>2 DEF ShellInv, Defined
  <2>4. /\ IsScreen(s) /\ s.shown \in Nat
        /\ \A i \in Cells : i >= s.shown => s.cells[i] = "NUL"
    BY <2>1, ScreenShape DEF ShellInv, IsShell, IsScreen, RestBlank
  <2>5. PICK text : text = Prompt \o line
    OBVIOUS
  <2>6. line \in Seq(Letters)
    BY <2>3 DEF Onward
  <2>7. /\ text \in Seq(Letters) /\ Len(text) = 2 + n
        /\ \A i \in 1..2 + n : text[i] = IF i <= 2 THEN Prompt[i] ELSE line[i - 2]
    BY <2>3, <2>5, <2>6, PromptJoined
  <2>8. /\ 2 + n <= s.shown
        /\ \A i \in 1..2 + n : s.cells[s.shown - (2 + n) + i - 1] = text[i]
    BY <2>1, <2>5, <2>7 DEF ShellInv, Behind
  <2>9. line = [i \in 1..shell.length |-> shell.command[i - 1]]
    <3>1. PICK copy : copy = [i \in 1..n |-> shell.command[i - 1]]
      OBVIOUS
    <3>2. copy \in Seq(Onward) /\ Len(copy) = n /\ \A i \in 1..n : copy[i] = line[i]
      <4>1. \A i \in 1..n : line[i] \in Onward
        BY <2>3
      <4>2. \A i \in 1..n : shell.command[i - 1] \in Onward
        BY <2>3, <4>1
      <4> QED BY <2>3, <3>1, <4>2
    <3>3. line = copy
      BY <2>3, <3>2, SeqEqual
    <3> QED BY <2>2, <3>1, <3>3
  <2>10. ASSUME NEW i \in 1..n PROVE s.cells[s.shown - n + i - 1] = line[i]
    <3>1. i + 2 \in 1..2 + n /\ ~ (i + 2 <= 2) /\ (i + 2) - 2 = i
      OBVIOUS
    <3>2. s.cells[s.shown - (2 + n) + (i + 2) - 1] = line[i]
      BY <2>7, <2>8, <3>1
    <3>3. s.shown - (2 + n) + (i + 2) - 1 = s.shown - n + i - 1
      BY <2>4
    <3> QED BY <3>2, <3>3
  <2>11. ASSUME NEW i \in 1..2 PROVE s.cells[s.shown - n - 2 + i - 1] = Prompt[i]
    <3>1. i \in 1..2 + n /\ i <= 2
      OBVIOUS
    <3>2. s.cells[s.shown - (2 + n) + i - 1] = Prompt[i]
      BY <2>7, <2>8, <3>1
    <3>3. s.shown - (2 + n) + i - 1 = s.shown - n - 2 + i - 1
      BY <2>4
    <3> QED BY <3>2, <3>3
  <2>12. ASSUME NEW i \in s.shown..ScreenWidth * ScreenHeight - 1 PROVE s.cells[i] = "NUL"
    <3>1. i \in Cells /\ i >= s.shown
      BY <2>4, ScreenAssumption DEF Cells
    <3> QED BY <2>4, <3>1
  <2>13. Len(Prompt) = 2
    BY PromptLetters
  <2>14. /\ \A i \in 1..shell.length :
              shell.screen.cells[shell.screen.shown - shell.length + i - 1] = line[i]
         /\ \A i \in 1..Len(Prompt) :
              shell.screen.cells[shell.screen.shown - shell.length - Len(Prompt) + i - 1]
                = Prompt[i]
         /\ \A i \in shell.screen.shown..ScreenWidth * ScreenHeight - 1 :
              shell.screen.cells[i] = "NUL"
    BY <2>1, <2>2, <2>10, <2>11, <2>12, <2>13
  <2> QED BY <2>9, <2>14, Zenon DEF LineOnScreen, NUL
<1> QED BY <1>1, ShellKept, PTL

-----------------------------------------------------------------------------
(* What is executed.  The line the user means is the one typed, followed   *)
(* by blanks; command holds the same, and NUL where it was never written.  *)

Space == " "
AsBlank(c) == IF c = "NUL" THEN Space ELSE c

Holds(sh, padded) ==
  /\ padded \in Seq(Onward) /\ Len(padded) = CommandSize
  /\ \A i \in 0..CommandSize - 1 : padded[i + 1] = AsBlank(sh.command[i])

LEMMA BlanksAlike ==
  /\ Space \in Blanks /\ Space \in Onward /\ Space # "NUL"
  /\ \A c \in Blanks : AsBlank(c) = Space
  /\ \A c : c # "NUL" => AsBlank(c) = c
  /\ \A c \in Onward : AsBlank(c) \in Onward
  /\ \A c \in Onward : (AsBlank(c) \in HexDigit <=> c \in HexDigit)
                       /\ (c \in HexDigit => AsBlank(c) = c)
<1>1. Space \in Blanks /\ Space # "NUL"
  BY Zenon DEF Space, Blanks
<1>2. Space \in Onward
  BY Zenon DEF Space, Onward, Letters
<1>3. \A c \in Blanks : c = "NUL" \/ c = Space
  BY Zenon DEF Blanks, Space
<1>4. "NUL" \in Blanks
  BY Zenon DEF Blanks
<1>5. "NUL" \notin HexDigit /\ Space \notin HexDigit
  BY <1>1, <1>4, BlanksNoDigits
<1>6. \A c \in Blanks : AsBlank(c) = Space
  BY <1>3 DEF AsBlank
<1>7. \A c : (c # "NUL" => AsBlank(c) = c) /\ (c = "NUL" => AsBlank(c) = Space)
  BY DEF AsBlank
<1> QED BY <1>1, <1>2, <1>5, <1>6, <1>7

LEMMA PaddedTyped ==
  ASSUME NEW text \in Seq(Onward), Len(text) <= CommandSize, NEW p, p = Padded(text)
  PROVE  /\ p \in Seq(Onward) /\ Len(p) = CommandSize
         /\ \A i \in 1..CommandSize : p[i] = IF i <= Len(text) THEN text[i] ELSE Space
<1>1. CommandSize \in Nat /\ Len(text) \in Nat
  BY SizesOrdered
<1>2. PICK m : m = CommandSize - Len(text)
  OBVIOUS
<1>3. m \in Nat
  BY <1>1, <1>2
<1>4. PICK rest : rest = [i \in 1..m |-> Space]
  OBVIOUS
<1>5. rest \in Seq(Onward) /\ Len(rest) = m /\ \A i \in 1..m : rest[i] = Space
  BY <1>3, <1>4, BlanksAlike
<1>6. MaxOf(m, 0) = m
  BY <1>3 DEF MaxOf
<1>7. p = text \o rest
  BY <1>2, <1>4, <1>6, Zenon DEF Padded, Repeat, Space
<1>8. /\ p \in Seq(Onward) /\ Len(p) = Len(text) + m
      /\ \A i \in 1..Len(text) + m : p[i] = IF i <= Len(text) THEN text[i] ELSE rest[i - Len(text)]
  <2>1. /\ text \o rest \in Seq(Onward) /\ Len(text \o rest) = Len(text) + Len(rest)
        /\ \A i \in 1..Len(text) + Len(rest) :
              (text \o rest)[i] = IF i <= Len(text) THEN text[i] ELSE rest[i - Len(text)]
    BY <1>5, ConcatProperties
  <2> QED BY <1>5, <1>7, <2>1
<1>9. ASSUME NEW i \in 1..CommandSize
      PROVE  p[i] = IF i <= Len(text) THEN text[i] ELSE Space
  <2>1. i \in 1..Len(text) + m /\ (~ (i <= Len(text)) => i - Len(text) \in 1..m)
    BY <1>1, <1>2
  <2> QED BY <1>5, <1>8, <2>1
<1> QED BY <1>1, <1>2, <1>8, <1>9

LEMMA LineHeld ==
  ASSUME NEW sh, IsShell(sh), NEW text \in Seq(Onward), Len(text) = sh.length,
         \A i \in 1..Len(text) : text[i] = sh.command[i - 1] /\ text[i] # "NUL",
         BlankFrom(sh, sh.length), NEW p, p = Padded(text)
  PROVE  Holds(sh, p)
<1>1. CommandSize \in Nat /\ sh.length \in 0..CommandSize
  BY SizesOrdered DEF IsShell
<1>2. /\ p \in Seq(Onward) /\ Len(p) = CommandSize
      /\ \A i \in 1..CommandSize : p[i] = IF i <= Len(text) THEN text[i] ELSE Space
  BY <1>1, PaddedTyped
<1>3. ASSUME NEW i \in 0..CommandSize - 1 PROVE p[i + 1] = AsBlank(sh.command[i])
  <2>1. i + 1 \in 1..CommandSize /\ (i + 1) - 1 = i
    BY <1>1
  <2>2. CASE i + 1 <= Len(text)
    <3>1. i + 1 \in 1..Len(text)
      BY <1>1, <2>2
    <3>2. text[i + 1] = sh.command[i] /\ text[i + 1] # "NUL"
      BY <2>1, <3>1
    <3>3. p[i + 1] = sh.command[i] /\ sh.command[i] # "NUL"
      BY <1>2, <2>1, <2>2, <3>2
    <3> QED BY <3>3, BlanksAlike
  <2>3. CASE ~ (i + 1 <= Len(text))
    <3>1. i >= sh.length
      BY <1>1, <2>3
    <3>2. sh.command[i] \in Blanks
      BY <3>1 DEF BlankFrom
    <3>3. p[i + 1] = Space
      BY <1>2, <2>1, <2>3
    <3> QED BY <3>2, <3>3, BlanksAlike
  <2> QED BY <2>2, <2>3
<1> QED BY <1>2, <1>3 DEF Holds

LEMMA PrefixElements ==
  ASSUME NEW S, NEW short \in Seq(S), NEW long \in Seq(S)
  PROVE  IsPrefix(short, long) <=>
           Len(short) <= Len(long) /\ \A i \in 1..Len(short) : short[i] = long[i]
<1>1. PICK n \in Nat : n = Len(short)
  OBVIOUS
<1>2. CASE n <= Len(long)
  <2>1. PICK u : u = SubSeq(short, 1, n)
    OBVIOUS
  <2>2. PICK v : v = SubSeq(long, 1, n)
    OBVIOUS
  <2>3. u \in Seq(S) /\ Len(u) = n /\ \A i \in 1..n : u[i] = short[i]
    BY <1>1, <2>1
  <2>4. v \in Seq(S) /\ Len(v) = n /\ \A i \in 1..n : v[i] = long[i]
    BY <1>1, <1>2, <2>2
  <2>5. u = v <=> \A i \in 1..n : short[i] = long[i]
    <3>1. u = v => \A i \in 1..n : short[i] = long[i]
      BY <2>3, <2>4
    <3>2. ASSUME \A i \in 1..n : short[i] = long[i] PROVE u = v
      <4>1. \A i \in 1..n : u[i] = v[i]
        BY <2>3, <2>4, <3>2
      <4> QED BY <2>3, <2>4, <4>1, SeqEqual
    <3> QED BY <3>1, <3>2
  <2>6. IsPrefix(short, long) <=> u = v
    BY <1>1, <1>2, <2>1, <2>2 DEF IsPrefix
  <2> QED BY <1>1, <1>2, <2>5, <2>6
<1>3. CASE ~ (n <= Len(long))
  BY <1>1, <1>3 DEF IsPrefix
<1> QED BY <1>2, <1>3

\* memcmp finds a word exactly where the line followed by blanks starts with it.
LEMMA WordFound ==
  ASSUME NEW sh, IsShell(sh), NEW text \in Seq(Onward), Len(text) = sh.length,
         \A i \in 1..Len(text) : text[i] = sh.command[i - 1] /\ text[i] # "NUL",
         BlankFrom(sh, sh.length), NEW p, p = Padded(text), EndsOutsideWords(text),
         NEW k \in DOMAIN Words
  PROVE  StartsWith(sh, Words[k]) <=> IsPrefix(Words[k], p)
<1>1. PICK word : word = Words[k]
  OBVIOUS
<1>2. PICK S : S = Onward \cup (STRING \ {"NUL"})
  OBVIOUS
<1>3. word \in Seq(STRING \ {"NUL"}) /\ Len(word) \in 0..CommandSize - 2
  BY <1>1, ShellAssumption
<1>4. word \in Seq(S) /\ text \in Seq(S) /\ \A i \in 1..Len(word) : word[i] # "NUL"
  BY <1>2, <1>3
<1>5. CommandSize \in Nat /\ sh.length \in 0..CommandSize
  BY SizesOrdered DEF IsShell
<1>6. /\ p \in Seq(Onward) /\ Len(p) = CommandSize
      /\ \A i \in 1..CommandSize : p[i] = IF i <= Len(text) THEN text[i] ELSE Space
  BY <1>5, PaddedTyped
<1>7. p \in Seq(S)
  BY <1>2, <1>6
<1>8. IsPrefix(word, p) <=> \A i \in 1..Len(word) : word[i] = p[i]
  <2>1. Len(word) <= Len(p)
    BY <1>3, <1>5, <1>6
  <2> QED BY <1>4, <1>7, <2>1, PrefixElements
<1>9. StartsWith(sh, word) <=> \A i \in 1..Len(word) : sh.command[i - 1] = word[i]
  BY DEF StartsWith, Char
<1>10. CASE Len(word) <= Len(text)
  <2>1. ASSUME NEW i \in 1..Len(word) PROVE sh.command[i - 1] = p[i]
    <3>1. i \in 1..Len(text) /\ i \in 1..CommandSize /\ i <= Len(text)
      BY <1>3, <1>5, <1>10
    <3> QED BY <1>6, <3>1
  <2> QED BY <1>1, <1>8, <1>9, <2>1
<1>11. CASE ~ (Len(word) <= Len(text))
  <2>1. PICK n \in Nat : n = Len(text)
    OBVIOUS
  <2>2. /\ n + 1 \in 1..Len(word) /\ n + 1 \in 1..CommandSize /\ n \in 0..CommandSize - 1
        /\ ~ (n + 1 <= n) /\ (n + 1) - 1 = n
    BY <1>3, <1>5, <1>11, <2>1
  <2>3. Len(text) < Len(word)
    BY <1>3, <1>11
  <2>4. IsPrefix(text, word) => word[n + 1] # Space
    BY <1>1, <2>1, <2>3 DEF EndsOutsideWords, Space
  <2>5. sh.command[n] \in Blanks
    BY <2>1, <2>2 DEF BlankFrom
  <2>6. sh.command[n] = "NUL" \/ sh.command[n] = Space
    BY <2>5, Zenon DEF Blanks, Space
  <2>7. ASSUME \A i \in 1..Len(word) : sh.command[i - 1] = word[i] PROVE FALSE
    <3>1. ASSUME NEW i \in 1..Len(text) PROVE text[i] = word[i]
      <4>1. i \in 1..Len(word)
        BY <1>3, <2>3
      <4> QED BY <2>7, <4>1
    <3>2. IsPrefix(text, word)
      BY <1>4, <2>3, <3>1, PrefixElements
    <3>3. sh.command[n] = word[n + 1]
      BY <2>2, <2>7
    <3> QED BY <1>4, <2>2, <2>4, <2>6, <3>2, <3>3
  <2>8. ASSUME \A i \in 1..Len(word) : word[i] = p[i] PROVE FALSE
    <3>1. ASSUME NEW i \in 1..Len(text) PROVE text[i] = word[i]
      <4>1. i \in 1..Len(word) /\ i \in 1..CommandSize /\ i <= Len(text)
        BY <1>3, <1>5, <2>3
      <4> QED BY <1>6, <2>8, <4>1
    <3>2. IsPrefix(text, word)
      BY <1>4, <2>3, <3>1, PrefixElements
    <3>3. word[n + 1] = Space
      BY <1>6, <2>1, <2>2, <2>8
    <3> QED BY <2>4, <3>2, <3>3
  <2> QED BY <1>1, <1>8, <1>9, <2>7, <2>8
<1> QED BY <1>10, <1>11

\* to_int reads from command the number the user reads in the line, and stops where the
\* user would.
LEMMA NumberRead ==
  ASSUME NEW sh, IsShell(sh), NEW p, Holds(sh, p), NEW from \in 0..CommandSize,
         NEW text, text = SubSeq(p, from + 1, CommandSize)
  PROVE  /\ Number(text).value = to_int(sh, from).value
         /\ to_int(sh, from).next < CommandSize =>
              Number(text).rest = SubSeq(p, to_int(sh, from).next + 2, CommandSize)
<1>1. CommandSize \in Nat /\ from \in Nat /\ sh.command \in Line
  BY SizesOrdered DEF IsShell
<1>2. /\ p \in Seq(Onward) /\ Len(p) = CommandSize
      /\ \A i \in 0..CommandSize - 1 : p[i + 1] = AsBlank(sh.command[i])
  BY DEF Holds
<1>3. PICK n \in Nat : n = CommandSize - from
  BY <1>1
<1>4. /\ text \in Seq(Onward) /\ Len(text) = n
      /\ \A j \in 1..n : text[j] = p[from + j]
  BY <1>1, <1>2, <1>3
<1>5. ASSUME NEW j \in 1..n
      PROVE  /\ from + j - 1 \in from..CommandSize - 1
             /\ text[j] \in HexDigit <=> sh.command[from + j - 1] \in HexDigit
             /\ sh.command[from + j - 1] \in HexDigit => text[j] = sh.command[from + j - 1]
  <2>1. from + j - 1 \in 0..CommandSize - 1 /\ from + j - 1 >= from /\ (from + j - 1) + 1 = from + j
    BY <1>1, <1>3
  <2>2. PICK c : c = sh.command[from + j - 1]
    OBVIOUS
  <2>3. c \in Onward /\ text[j] = AsBlank(c)
    BY <1>1, <1>2, <1>4, <2>1, <2>2 DEF Line
  <2>4. (text[j] \in HexDigit <=> c \in HexDigit) /\ (c \in HexDigit => text[j] = c)
    BY <2>3, BlanksAlike
  <2>5. from + j - 1 \in from..CommandSize - 1
    BY <1>1, <1>3
  <2> QED BY <2>2, <2>4, <2>5
<1>6. PICK next : next = to_int(sh, from).next
  OBVIOUS
<1>7. /\ next \in from..CommandSize
      /\ \A k \in from..next - 1 : sh.command[k] \in HexDigit
      /\ next = CommandSize \/ sh.command[next] \notin HexDigit
      /\ to_int(sh, from).value =
           Folded([j \in 1..next - from |-> HexValue(sh.command[from + j - 1])])
  BY <1>1, <1>6, ToIntEffect
<1>8. PICK others : others = {i \in 1..Len(text) : text[i] \notin HexDigit}
  OBVIOUS
<1>9. PICK digits : digits = IF others # {} THEN Min(others) ELSE 0
  OBVIOUS
<1>10. PICK len : len = IF digits = 0 THEN Len(text) ELSE digits - 1
  OBVIOUS
<1>11. PICK worth : worth = [i \in 1..len |-> HexValue(text[i])]
  OBVIOUS
<1>12. PICK rest : rest = SubSeq(text, len + 2, Len(text))
  OBVIOUS
<1>13. Number(text) = [value |-> Folded(worth), rest |-> rest]
  BY <1>8, <1>9, <1>10, <1>11, <1>12, Zenon DEF Number, SelectInSeq, Folded
<1>14. len = next - from
  <2>1. \A j \in 1..next - from : j \notin others
    <3>1. ASSUME NEW j \in 1..next - from PROVE text[j] \in HexDigit
      <4>1. j \in 1..n /\ from + j - 1 \in from..next - 1
        BY <1>1, <1>3, <1>7
      <4> QED BY <1>5, <1>7, <4>1
    <3> QED BY <1>8, <3>1
  <2>2. CASE next = CommandSize
    <3>1. others = {}
      BY <1>3, <1>4, <1>8, <2>1, <2>2
    <3> QED BY <1>3, <1>4, <1>9, <1>10, <2>2, <3>1
  <2>3. CASE next # CommandSize
    <3>1. PICK m \in 1..n : m = next - from + 1 /\ from + m - 1 = next
      BY <1>1, <1>3, <1>7, <2>3
    <3>2. m \in others
      BY <1>4, <1>5, <1>7, <1>8, <2>3, <3>1
    <3>3. others \subseteq Int /\ \A k \in others : m <= k
      <4>1. ASSUME NEW k \in others PROVE k \in Int /\ m <= k
        <5>1. k \in 1..n /\ k \notin 1..next - from
          BY <1>4, <1>8, <2>1
        <5> QED BY <1>1, <1>7, <3>1, <5>1
      <4> QED BY <4>1
    <3>4. \E k \in others : \A l \in others : k <= l
      BY <3>2, <3>3
    <3>5. Min(others) \in others /\ \A l \in others : Min(others) <= l
      BY <3>4, Zenon DEF Min
    <3>6. Min(others) = m
      <4>1. PICK q : q = Min(others)
        OBVIOUS
      <4>2. q \in others /\ (\A l \in others : q <= l) /\ m \in Int
        BY <3>1, <3>5, <4>1
      <4>3. q <= m /\ m <= q /\ q \in Int
        BY <3>2, <3>3, <4>2
      <4> QED BY <4>1, <4>2, <4>3
    <3>7. digits = m /\ m # 0
      BY <1>9, <3>2, <3>6
    <3> QED BY <1>1, <1>7, <1>10, <3>1, <3>7
  <2> QED BY <2>2, <2>3
<1>15. worth = [j \in 1..next - from |-> HexValue(sh.command[from + j - 1])]
  <2>1. ASSUME NEW j \in 1..next - from PROVE text[j] = sh.command[from + j - 1]
    <3>1. j \in 1..n /\ from + j - 1 \in from..next - 1
      BY <1>1, <1>3, <1>7
    <3> QED BY <1>5, <1>7, <3>1
  <2> QED BY <1>11, <1>14, <2>1
<1>16. Number(text).value = Folded(worth) /\ Number(text).rest = rest
  BY <1>13
<1>17. Number(text).value = to_int(sh, from).value
  BY <1>7, <1>15, <1>16
<1>18. ASSUME next < CommandSize PROVE rest = SubSeq(p, next + 2, CommandSize)
  <2>1. PICK other : other = SubSeq(p, next + 2, CommandSize)
    OBVIOUS
  <2>2. PICK m \in Nat : m = CommandSize - next - 1
    BY <1>1, <1>7, <1>18
  <2>3. /\ next \in Nat /\ next + 2 \in Int /\ len \in Nat /\ next = from + len
    BY <1>1, <1>7, <1>14
  <2>4. other \in Seq(Onward) /\ Len(other) = m /\ \A i \in 1..m : other[i] = p[next + 1 + i]
    BY <1>1, <1>2, <2>1, <2>2, <2>3
  <2>5. rest \in Seq(Onward) /\ Len(rest) = m /\ \A i \in 1..m : rest[i] = text[len + 1 + i]
    <3>1. PICK a \in Nat : a = len + 2
      BY <2>3
    <3>2. n - a + 1 = m /\ a >= 1 /\ a <= n + 1
      BY <1>1, <1>3, <2>2, <2>3, <3>1
    <3>3. rest = SubSeq(text, a, n) /\ text \in Seq(Onward) /\ Len(text) = n
      BY <1>4, <1>12, <3>1
    <3>4. rest \in Seq(Onward) /\ Len(rest) = m /\ \A i \in 1..m : rest[i] = text[a + i - 1]
      BY <3>2, <3>3
    <3>5. \A i \in 1..m : a + i - 1 = len + 1 + i
      BY <2>3, <3>1
    <3> QED BY <3>4, <3>5
  <2>6. ASSUME NEW i \in 1..m PROVE rest[i] = other[i]
    <3>1. len + 1 + i \in 1..n /\ from + (len + 1 + i) = next + 1 + i
      BY <1>1, <1>3, <2>2, <2>3
    <3>2. text[len + 1 + i] = p[next + 1 + i]
      BY <1>4, <3>1
    <3> QED BY <2>4, <2>5, <3>2
  <2>7. rest = other
    BY <2>4, <2>5, <2>6, SeqEqual
  <2> QED BY <2>1, <2>7
<1> QED BY <1>6, <1>16, <1>17, <1>18

\* The command run is the one the line means.
LEMMA RunMeant ==
  ASSUME NEW sh, IsShell(sh), NEW byte \in Nat, NEW e, e = run_command(sh, byte),
         NEW text \in Seq(Onward), Len(text) = sh.length, sh.length # 0,
         \A i \in 1..Len(text) : text[i] = sh.command[i - 1] /\ text[i] # "NUL",
         BlankFrom(sh, sh.length), EndsOutsideWords(text), ~sh.overrun, ~e.overrun
  PROVE  Blanked(e.ran) = Meant(text)
<1>1. PICK p : p = Padded(text)
  OBVIOUS
<1>2. PICK starting : starting = {i \in DOMAIN Words : IsPrefix(Words[i], p)}
  OBVIOUS
<1>3. PICK first : first = CHOOSE k \in {i \in DOMAIN Words : IsPrefix(Words[i], p)} :
                             \A j \in {i \in DOMAIN Words : IsPrefix(Words[i], p)} : k <= j
  OBVIOUS
<1>4. PICK action : action = Actions[first]
  OBVIOUS
<1>5. PICK from : from = Len(Words[first])
  OBVIOUS
<1>6. PICK arguments : arguments = SubSeq(p, from + 1, CommandSize)
  OBVIOUS
<1>7. PICK port : port = Number(arguments)
  OBVIOUS
<1>8. Meant(text) =
        CASE starting = {} -> [action |-> "unknown"]
          [] starting # {} /\ action = "echo" -> [action |-> action, text |-> arguments]
          [] starting # {} /\ action \in DOMAIN Bits ->
               [action |-> action, port |-> port.value % 2^(WordBits \div 2),
                value |-> Number(port.rest).value % 2^Bits[action]]
          [] OTHER -> [action |-> action, port |-> port.value % 2^(WordBits \div 2)]
  BY <1>1, <1>2, <1>3, <1>4, <1>5, <1>6, <1>7, Zenon DEF Meant
<1>9. \A k \in DOMAIN Words : StartsWith(sh, Words[k]) <=> IsPrefix(Words[k], p)
  BY <1>1, WordFound
<1>10. {i \in DOMAIN Words : StartsWith(sh, Words[i])}
         = {i \in DOMAIN Words : IsPrefix(Words[i], p)}
  BY <1>9
<1>11. e = IF starting = {} THEN [Printed(sh, Invalid) EXCEPT !.ran = [action |-> "unknown"]]
           ELSE CASE action = "echo" -> cmd_echo(sh, from)
                  [] action \in DOMAIN Bits -> cmd_out(sh, action, from)
                  [] OTHER -> cmd_in(sh, action, from, byte)
  <2>1. PICK matching : matching = {i \in DOMAIN Words : StartsWith(sh, Words[i])}
    OBVIOUS
  <2>2. PICK it : it = CHOOSE i \in matching : \A j \in matching : i <= j
    OBVIOUS
  <2>3. matching = starting
    BY <1>2, <1>10, <2>1
  <2>4. it = first
    <3>1. matching = {i \in DOMAIN Words : IsPrefix(Words[i], p)}
      BY <1>10, <2>1, Zenon
    <3> QED BY <1>3, <2>2, <3>1
  <2>5. e = IF matching = {} THEN [Printed(sh, Invalid) EXCEPT !.ran = [action |-> "unknown"]]
            ELSE CASE Actions[it] = "echo" -> cmd_echo(sh, Len(Words[it]))
                   [] Actions[it] \in DOMAIN Bits -> cmd_out(sh, Actions[it], Len(Words[it]))
                   [] OTHER -> cmd_in(sh, Actions[it], Len(Words[it]), byte)
    BY <2>1, <2>2 DEF run_command
  <2> QED BY <1>4, <1>5, <2>3, <2>4, <2>5
<1>12. CommandSize \in Nat /\ Holds(sh, p)
  BY <1>1, LineHeld, SizesOrdered
<1>13. CASE starting = {}
  <2>1. PICK printed : printed = Printed(sh, Invalid)
    OBVIOUS
  <2>2. IsShell(printed)
    BY <2>1, InvalidOnward, PrintedOnward
  <2>3. PICK ran : ran = [action |-> "unknown"]
    OBVIOUS
  <2>4. e = [printed EXCEPT !.ran = ran]
    BY <1>11, <1>13, <2>1, <2>3
  <2>5. e.ran = ran
    BY <2>2, <2>4, RanEffect
  <2>6. Meant(text) = ran
    BY <1>8, <1>13, <2>3
  <2>7. Blanked(ran) = ran
    BY <2>3 DEF Blanked
  <2> QED BY <2>5, <2>6, <2>7
<1>14. CASE starting # {}
  <2>1. first \in starting
    <3>1. starting \in SUBSET Nat
      BY <1>2, WordsNumbered
    <3>2. \E i \in starting : \A j \in starting : i <= j
      BY <1>14, <3>1, LeastElement
    <3>3. \E k \in {i \in DOMAIN Words : IsPrefix(Words[i], p)} :
            \A j \in {i \in DOMAIN Words : IsPrefix(Words[i], p)} : k <= j
      BY <1>2, <3>2
    <3>4. first \in {i \in DOMAIN Words : IsPrefix(Words[i], p)}
      BY <1>3, <3>3, Zenon
    <3> QED BY <1>2, <3>4
  <2>2. from \in 0..CommandSize /\ from \in 0..CommandSize - 2
    BY <1>2, <1>5, <2>1, SizesOrdered
  <2>3. /\ port.value = to_int(sh, from).value
        /\ to_int(sh, from).next < CommandSize =>
             port.rest = SubSeq(p, to_int(sh, from).next + 2, CommandSize)
    BY <1>6, <1>7, <1>12, <2>2, NumberRead
  <2>4. CASE action = "echo"
    <3>1. action \notin DOMAIN Bits
      BY <2>4 DEF Bits
    <3>2. e = cmd_echo(sh, from)
      BY <1>11, <1>14, <2>4, <3>1
    <3>3. e.ran = EchoRan(sh, from)
      BY <2>2, <3>2, EchoEffect
    <3>4. PICK shown : shown = [i \in 1..CommandSize - from |-> sh.command[from + i - 1]]
      OBVIOUS
    <3>5. sh.command[0] # "NUL"
      <4>1. 1 \in 1..Len(text) /\ 1 - 1 = 0
        BY SizesOrdered DEF IsShell
      <4>2. text[1] = sh.command[1 - 1] /\ text[1] # "NUL"
        BY <4>1
      <4> QED BY <4>1, <4>2
    <3>6. EchoRan(sh, from) = [action |-> "echo", text |-> shown]
      BY <3>4, <3>5, Zenon DEF EchoRan
    <3>7. PICK blanked : blanked = [i \in DOMAIN shown |-> AsBlank(shown[i])]
      OBVIOUS
    <3>8. Blanked(e.ran) = [action |-> "echo", text |-> blanked]
      <4>1. PICK ran : ran = e.ran
        OBVIOUS
      <4>2. ran = [action |-> "echo", text |-> shown] /\ ran.action = "echo" /\ ran.text = shown
        BY <3>3, <3>6, <4>1
      <4>3. Blanked(ran) =
              [ran EXCEPT !.text = [i \in DOMAIN @ |-> AsBlank(@[i])]]
        BY <4>2, Zenon DEF Blanked, AsBlank, Space, NUL
      <4>4. Blanked(ran) = [ran EXCEPT !.text = blanked]
        BY <3>7, <4>2, <4>3
      <4> QED BY <4>1, <4>2, <4>4
    <3>9. arguments = blanked
      <4>1. PICK n \in Nat : n = CommandSize - from
        BY <1>12, <2>2
      <4>2. /\ arguments \in Seq(Onward) /\ Len(arguments) = n
            /\ \A i \in 1..n : arguments[i] = p[from + i]
        BY <1>6, <1>12, <2>2, <4>1 DEF Holds
      <4>3. ASSUME NEW i \in 1..n
            PROVE  AsBlank(shown[i]) = arguments[i]
        <5>1. from + i - 1 \in 0..CommandSize - 1 /\ (from + i - 1) + 1 = from + i
          BY <1>12, <2>2, <4>1
        <5>2. p[from + i] = AsBlank(sh.command[from + i - 1])
          BY <1>12, <5>1 DEF Holds
        <5>3. shown[i] = sh.command[from + i - 1]
          BY <3>4, <4>1
        <5> QED BY <4>2, <5>2, <5>3
      <4>4. DOMAIN shown = 1..n
        BY <3>4, <4>1
      <4>5. blanked = [i \in 1..n |-> arguments[i]]
        BY <3>7, <4>3, <4>4
      <4> QED BY <4>2, <4>5
    <3>10. Meant(text) = [action |-> "echo", text |-> arguments]
      BY <1>8, <1>14, <2>4, <3>1
    <3> QED BY <3>8, <3>9, <3>10
  <2>5. CASE action # "echo" /\ action \in DOMAIN Bits
    <3>1. e = cmd_out(sh, action, from)
      BY <1>11, <1>14, <2>5
    <3>2. to_int(sh, from).next + 1 < CommandSize /\ e.ran = OutRan(sh, action, from)
      BY <2>2, <3>1, OutEffect
    <3>3. PICK next : next = to_int(sh, from).next
      OBVIOUS
    <3>4. next \in 0..CommandSize /\ next + 1 \in 0..CommandSize /\ next < CommandSize
      <4>1. next \in from..CommandSize
        BY <2>2, <3>3, ToIntEffect DEF IsShell
      <4> QED BY <1>12, <2>2, <3>2, <3>3, <4>1
    <3>5. port.rest = SubSeq(p, (next + 1) + 1, CommandSize)
      <4>1. (next + 1) + 1 = next + 2
        BY <3>4
      <4> QED BY <2>3, <3>3, <3>4, <4>1
    <3>6. Number(port.rest).value = to_int(sh, next + 1).value
      <4>1. PICK second \in 0..CommandSize : second = next + 1
        BY <3>4
      <4>2. PICK rest : rest = port.rest
        OBVIOUS
      <4>3. rest = SubSeq(p, second + 1, CommandSize)
        BY <3>5, <4>1, <4>2
      <4>4. Number(rest).value = to_int(sh, second).value
        BY <1>12, <4>3, NumberRead
      <4> QED BY <4>1, <4>2, <4>4
    <3>7. PICK ran : ran = OutRan(sh, action, from)
      OBVIOUS
    <3>8. ran = [action |-> action, port |-> port.value % 2^(WordBits \div 2),
                 value |-> Number(port.rest).value % 2^Bits[action]]
      BY <2>3, <3>3, <3>6, <3>7, Zenon DEF OutRan
    <3>9. Meant(text) = ran
      BY <1>8, <1>14, <2>5, <3>8
    <3>10. ran.action # "echo"
      BY <2>5, <3>8
    <3>11. Blanked(ran) = ran
      BY <3>10 DEF Blanked
    <3> QED BY <3>2, <3>7, <3>9, <3>11
  <2>6. CASE action # "echo" /\ action \notin DOMAIN Bits
    <3>1. e = cmd_in(sh, action, from, byte)
      BY <1>11, <1>14, <2>6
    <3>2. e.ran = InRan(sh, action, from)
      BY <2>2, <3>1, InEffect
    <3>3. PICK ran : ran = InRan(sh, action, from)
      OBVIOUS
    <3>4. ran = [action |-> action, port |-> port.value % 2^(WordBits \div 2)]
      BY <2>3, <3>3, Zenon DEF InRan
    <3>5. Meant(text) = ran
      BY <1>8, <1>14, <2>6, <3>4
    <3>6. ran.action # "echo"
      BY <2>6, <3>4
    <3>7. Blanked(ran) = ran
      BY <3>6 DEF Blanked
    <3> QED BY <3>2, <3>3, <3>5, <3>7
  <2> QED BY <2>4, <2>5, <2>6
<1> QED BY <1>13, <1>14

-----------------------------------------------------------------------------
(* Behind the line typed there is nothing of the lines before it.          *)

RestBlanked ==
  /\ erased \in BOOLEAN
  /\ ~erased /\ ~shell.overrun => BlankFrom(shell, shell.length)

LEMMA RestStarts == ConsoleInit => RestBlanked
<1> SUFFICES ASSUME ConsoleInit PROVE RestBlanked
  OBVIOUS
<1>1. PICK nul : nul = "NUL"
  OBVIOUS
<1>2. nul \in Blanks
  BY <1>1, Zenon DEF Blanks
<1>3. shell.command = [i \in 0..CommandSize - 1 |-> nul] /\ erased = FALSE
  BY <1>1 DEF ConsoleInit, Shell0
<1> QED BY <1>2, <1>3 DEF RestBlanked, BlankFrom

\* What an event does to the shell, and what it runs.
LEMMA EventRuns ==
  ASSUME ShellInv, RestBlanked, HandleEvent
  PROVE  /\ RestBlanked'
         /\ shell'.ran # Nothing /\ ~shell'.overrun /\ ~erased /\ EndsOutsideWords(line) =>
              Blanked(shell'.ran) = Meant(line)
<1>1. Defined /\ queue # <<>>
  BY DEF HandleEvent
<1>2. PICK event : event = Head(queue)
  OBVIOUS
<1>3. PICK c : c = IF event.released THEN "NUL" ELSE event.ascii
  OBVIOUS
<1>4. PICK sh : sh = [shell EXCEPT !.ran = Nothing]
  OBVIOUS
<1>5. \E byte \in PortBytes : shell' = keypress_handler(sh, event, byte)
  BY <1>2, <1>4, Zenon DEF HandleEvent
<1>6. PICK byte \in PortBytes : shell' = keypress_handler(sh, event, byte)
  BY <1>5
<1>7. byte \in Nat
  BY ConsoleAssumption
<1>8. erased' = (erased \/ c = "BS")
  BY <1>2, <1>3 DEF HandleEvent, NUL, BS
<1>9. event \in KeyPresses
  BY <1>1, <1>2 DEF ShellInv
<1>10. event.released \in BOOLEAN /\ event.ascii \in Ascii
  BY <1>9 DEF KeyPresses
<1>11. PICK e : e = shell'
  OBVIOUS
<1>12. /\ c = "NUL" => e = sh
       /\ c = "BS" => e = Erase(sh)
       /\ c = "NL" => e = process_command(Printed(sh, <<c>>), byte)
       /\ c \notin {"NUL", "BS", "NL"} => e = Insert(Printed(sh, <<c>>), c)
  <2>1. e = keypress_handler(sh, event, byte)
    BY <1>6, <1>11
  <2>2. event.released \in BOOLEAN
    BY <1>10
  <2>3. Handled(sh, c, byte, e)
    BY <1>3, <2>1, <2>2, KeyHandled
  <2> QED BY <2>3, Zenon DEF Handled
<1>13. c \in Letters /\ c # "CR"
  BY <1>3, <1>10, KeyLetters
<1>14. /\ IsShell(sh) /\ sh.screen = shell.screen /\ sh.ran = Nothing
       /\ sh.command = shell.command /\ sh.length = shell.length /\ sh.overrun = shell.overrun
  <2>1. PICK ran : ran = Nothing
    OBVIOUS
  <2>2. sh = [shell EXCEPT !.ran = ran]
    BY <1>4, <2>1
  <2>3. IsShell(shell)
    BY DEF ShellInv
  <2> QED BY <2>1, <2>2, <2>3, RanEffect
<1>15. /\ ~sh.overrun /\ Len(line) = sh.length /\ line \in Seq(Onward)
       /\ \A i \in 1..Len(line) : line[i] = sh.command[i - 1] /\ line[i] # "NUL"
       /\ longest \in Nat /\ BlankFrom(sh, longest)
  BY <1>1, <1>14 DEF ShellInv, Defined, BlankFrom
<1>16. CommandSize \in Nat \ {0} /\ sh.length \in 0..CommandSize
  BY <1>14, SizesOrdered DEF IsShell
<1>17. erased \in BOOLEAN /\ (~erased => BlankFrom(sh, sh.length))
  BY <1>14, <1>15 DEF RestBlanked, BlankFrom
<1>18. SUFFICES /\ ~erased' /\ ~e.overrun => BlankFrom(e, e.length)
                /\ e.ran # Nothing /\ ~e.overrun /\ ~erased /\ EndsOutsideWords(line) =>
                     Blanked(e.ran) = Meant(line)
  BY <1>8, <1>11, <1>17, <1>18 DEF RestBlanked
<1>19. CASE c = "NUL"
  BY <1>8, <1>12, <1>14, <1>17, <1>19
<1>20. CASE c = "BS"
  <2>1. e = Erase(sh)
    BY <1>12, <1>20
  <2>2. e.ran = sh.ran
    <3>1. CASE sh.length = 0
      BY <1>14, <2>1, <3>1, EraseEffect
    <3>2. CASE sh.length > 0
      BY <1>14, <2>1, <3>2, EraseEffect
    <3> QED BY <1>16, <3>1, <3>2
  <2> QED BY <1>8, <1>14, <1>20, <2>2
<1>21. CASE c = "NL"
  <2>1. PICK printed : printed = Printed(sh, <<c>>)
    OBVIOUS
  <2>2. PICK s : s = vga_putc(sh.screen, c)
    OBVIOUS
  <2>3. s = Write(sh.screen, <<c>>)
    BY <2>2, WriteOne
  <2>4. IsScreen(s)
    BY <1>14, <1>21, <2>2, NewLineEffect DEF IsShell
  <2>5. /\ IsShell(printed) /\ printed.ran = sh.ran /\ printed.command = sh.command
        /\ printed.length = sh.length /\ printed.overrun = sh.overrun
    BY <1>14, <2>1, <2>3, <2>4, PrintedEffect
  <2>6. BlankFrom(printed, longest) /\ ~printed.overrun
    BY <1>15, <2>5 DEF BlankFrom
  <2>7. e = process_command(printed, byte)
    BY <1>12, <1>21, <2>1
  <2>8. /\ ~e.overrun => e.length = 0
        /\ ~e.overrun /\ BlankFrom(printed, printed.length) => BlankFrom(e, 0)
        /\ printed.length = 0 => e.ran = printed.ran
        /\ ~e.overrun /\ printed.length # 0 =>
             ~run_command(printed, byte).overrun /\ e.ran = run_command(printed, byte).ran
    BY <1>7, <1>15, <2>5, <2>6, <2>7, ProcessEffect
  <2>9. ~erased => BlankFrom(printed, printed.length)
    BY <1>17, <2>5 DEF BlankFrom
  <2>10. ASSUME e.ran # Nothing, ~e.overrun, ~erased, EndsOutsideWords(line)
         PROVE  Blanked(e.ran) = Meant(line)
    <3>1. printed.length # 0
      BY <1>14, <2>5, <2>8, <2>10
    <3>2. PICK run : run = run_command(printed, byte)
      OBVIOUS
    <3>3. ~run.overrun /\ e.ran = run.ran
      BY <2>8, <2>10, <3>1, <3>2
    <3>4. /\ Len(line) = printed.length
          /\ \A i \in 1..Len(line) : line[i] = printed.command[i - 1] /\ line[i] # "NUL"
      BY <1>15, <2>5
    <3>5. Blanked(run.ran) = Meant(line)
      BY <1>7, <1>15, <2>5, <2>6, <2>9, <2>10, <3>1, <3>2, <3>3, <3>4, RunMeant
    <3> QED BY <3>3, <3>5
  <2> QED BY <1>8, <1>17, <2>8, <2>9, <2>10
<1>22. CASE c \notin {"NUL", "NL", "BS"}
  <2>1. c \in Onward
    BY <1>13, <1>22 DEF Onward
  <2>2. e = Insert(Printed(sh, <<c>>), c) /\ c # "NL"
    BY <1>12, <1>22
  <2>3. /\ e.ran = sh.ran /\ (sh.length >= CommandSize => e.overrun)
        /\ sh.length < CommandSize =>
             /\ e.overrun = sh.overrun /\ e.length = sh.length + 1
             /\ e.command = [sh.command EXCEPT ![sh.length] = c]
    BY <1>14, <2>1, <2>2, InsertEffect
  <2>4. ASSUME ~erased, ~e.overrun PROVE BlankFrom(e, e.length)
    <3>1. sh.length \in 0..CommandSize - 1
      BY <1>16, <2>3, <2>4
    <3>2. e.length = sh.length + 1 /\ e.command = [sh.command EXCEPT ![sh.length] = c]
      BY <1>16, <2>3, <3>1
    <3>3. ASSUME NEW i \in 0..CommandSize - 1, i >= e.length PROVE e.command[i] \in Blanks
      <4>1. i # sh.length /\ i >= sh.length
        BY <3>1, <3>2, <3>3
      <4>2. sh.command \in [0..CommandSize - 1 -> Onward]
        BY <1>14 DEF IsShell, Line
      <4>3. e.command[i] = sh.command[i]
        BY <3>1, <3>2, <4>1, <4>2
      <4> QED BY <1>17, <2>4, <4>1, <4>3 DEF BlankFrom
    <3> QED BY <3>3 DEF BlankFrom
  <2> QED BY <1>8, <1>14, <2>3, <2>4
<1> QED BY <1>19, <1>20, <1>21, <1>22

LEMMA RestKept == ConsoleSpec => []RestBlanked
<1>1. ShellInv /\ RestBlanked /\ [ConsoleNext]_consoleVars => RestBlanked'
  <2> SUFFICES ASSUME ShellInv, RestBlanked, [ConsoleNext]_consoleVars PROVE RestBlanked'
    OBVIOUS
  <2>1. CASE HandleEvent
    BY <2>1, EventRuns
  <2>2. CASE StartShell
    <3>1. erased' = erased /\ shell' = bash_initialize(shell) /\ Defined
      BY <2>2 DEF StartShell, lineVars
    <3>2. PICK e : e = shell'
      OBVIOUS
    <3>3. PICK text : text = <<"NL">> \o Prompt
      OBVIOUS
    <3>4. e = Printed(shell, text)
      BY <3>1, <3>2, <3>3 DEF bash_initialize
    <3>5. e.command = shell.command /\ e.length = shell.length /\ e.overrun = shell.overrun
      BY <3>4 DEF Printed, ShellInv, IsShell
    <3> QED BY <3>1, <3>2, <3>5 DEF RestBlanked, BlankFrom
  <2>3. CASE ~HandleEvent /\ ~StartShell
    <3>1. shell' = shell /\ erased' = erased
      BY <2>3 DEF ConsoleNext, Press, Typematic, Release, Stroke, Send, KeyInterrupt,
                  lineVars, consoleVars
    <3> QED BY <3>1 DEF RestBlanked
  <2> QED BY <2>1, <2>2, <2>3
<1> QED BY <1>1, RestStarts, ShellKept, PTL DEF ConsoleSpec

\* What Enter runs is what was typed since the prompt: the word and the numbers read from
\* command, where the lines before it were, are the ones the user reads in the line.
THEOREM TypedIsExecuted == ConsoleSpec => ExecutedIsTyped
<1> DEFINE Ran == (/\ Len(queue') < Len(queue) /\ shell'.ran # Nothing /\ ~shell'.overrun /\ ~erased
                   /\ EndsOutsideWords(line))
                  => Blanked(shell'.ran) = Meant(line)
<1>1. ShellInv /\ RestBlanked /\ [ConsoleNext]_consoleVars => [Ran]_<<shell, line, queue>>
  <2> SUFFICES ASSUME ShellInv, RestBlanked, [ConsoleNext]_consoleVars,
                      Len(queue') < Len(queue)
               PROVE  Ran
    OBVIOUS
  <2>1. queue \in Seq(KeyPresses) /\ Len(queue) \in Nat
    BY DEF ShellInv
  <2>2. CASE HandleEvent
    BY <2>2, EventRuns
  <2>3. CASE KeyInterrupt
    <3>1. PICK press : press = decoder'.press
      OBVIOUS
    <3>2. queue' = Append(queue, press) \/ queue' = queue
      BY <2>3, <3>1 DEF KeyInterrupt
    <3>3. Len(Append(queue, press)) = Len(queue) + 1
      BY <2>1
    <3> QED BY <2>1, <3>2, <3>3
  <2>4. CASE ~HandleEvent /\ ~KeyInterrupt
    <3>1. queue' = queue
      BY <2>4 DEF ConsoleNext, Press, Typematic, Release, Stroke, Send, StartShell, consoleVars
    <3> QED BY <2>1, <3>1
  <2> QED BY <2>2, <2>3, <2>4
<1> QED BY <1>1, ShellKept, RestKept, PTL DEF ConsoleSpec, ExecutedIsTyped
=============================================================================
