--------------------------- MODULE KeyboardCommands ---------------------------
(***************************************************************************)
(* The command queue of the keyboard driver (kernel/keyboard.c) and the    *)
(* initialisation kbd_initialize runs through it, against a keyboard that  *)
(* may ask for a byte again and that sends scancodes while it scans.       *)
(*                                                                         *)
(* The main program queues the first command; every other step of the      *)
(* driver is an interrupt: one byte of the keyboard, handled to the end.   *)
(***************************************************************************)
EXTENDS Integers, Sequences

CONSTANTS
  MaxCommands,  \* MAX_COMMANDS
  MaxResends,   \* how often a byte is sent again before the command fails
  StartSets,    \* the scancode sets a keyboard may be in at power-on
  MaxKeys,      \* bound: scancodes the user types
  MaxGarbled,   \* bound: bytes the line garbles
  MaxLost       \* bound: bytes send_byte gives up on

ASSUME CommandAssumption ==
  /\ MaxCommands \in Nat \ {0}
  /\ MaxResends \in Nat
  /\ StartSets \subseteq 1..3
  /\ MaxKeys \in Nat /\ MaxGarbled \in Nat /\ MaxLost \in Nat

VARIABLES
  driver,      \* the statics of keyboard.c
  main,        \* where kbd_initialize is
  pressed,     \* the bytes given to on_key_pressed, in order
  toKeyboard,  \* bytes on their way to the keyboard
  toDriver,    \* bytes on their way to the driver
  keyboard,    \* the keyboard's own state
  typed,       \* scancodes sent so far
  garbled,     \* bytes garbled so far
  lost         \* bytes given up on so far

vars == <<driver, main, pressed, toKeyboard, toDriver, keyboard, typed, garbled, lost>>

\* KbdCmdCode, and the arguments of CMD_SCAN_CODE_SET: a set, or 0 to ask for it.
CMD_SCAN_CODE_SET == "F0"
CMD_ENABLE_SCAN == "F4"
CMD_DISABLE_SCAN == "F5"
Codes == {CMD_SCAN_CODE_SET, CMD_ENABLE_SCAN, CMD_DISABLE_SCAN}
Arguments == {"0", "2"}
NoArgument == "none"

\* A byte of the keyboard.  The driver sees only the value: it cannot tell a
\* response from a scancode.
RESPONSE_ACK == [kind |-> "ack", value |-> 250]
RESPONSE_RESEND == [kind |-> "resend", value |-> 254]
Response(n) == [kind |-> "response", value |-> n]
Scancode(n) == [kind |-> "key", value |-> n]

InitState == {"INIT_START", "DISABLE_SCAN", "SET_SCAN_SET_2", "GET_SCAN_SET",
              "ENABLE_SCAN", "INITIALIZED"}

Command == [code : Codes \cup Arguments, subcommand : Arguments \cup {NoArgument},
            has_response : BOOLEAN, sub_sent : BOOLEAN, acknowledged : BOOLEAN,
            resend_count : 0..MaxResends + 1]

NewCommand(code, sub, hasResponse) ==
  [code |-> code, subcommand |-> sub, has_response |-> hasResponse,
   sub_sent |-> FALSE, acknowledged |-> FALSE, resend_count |-> 0]

-----------------------------------------------------------------------------
(* The driver's functions, each from the driver's state to its next one.   *)
(* The bytes it sends and the scancodes it decodes meanwhile are in        *)
(* driver.sent and driver.keys until the step ends.                        *)

SendByte(d, byte) == [d EXCEPT !.sent = Append(@, byte)]
OnKeyPressed(d, byte) == [d EXCEPT !.keys = Append(@, byte)]

Current(d) == d.cmd_queue[d.queue_min]

\* add_command up to the count; a full queue drops the command.
Enqueue(d, cmd) ==
  [d EXCEPT !.cmd_queue[(d.queue_min + d.queue_count) % MaxCommands] = cmd]

\* Fault: every command is sent at once.
AddCommandAndSend(d, cmd) ==
  IF d.queue_count = MaxCommands
    THEN d
    ELSE SendByte([Enqueue(d, cmd) EXCEPT !.queue_count = @ + 1], cmd.code)

AddCommand(d, cmd) ==
  IF d.queue_count = MaxCommands
    THEN d
    ELSE LET e == [Enqueue(d, cmd) EXCEPT !.queue_count = @ + 1]
         IN IF e.queue_count = 1 THEN SendByte(e, cmd.code) ELSE e

\* Fault: the next command is not started.
NextCommandSilent(d) ==
  [d EXCEPT !.queue_min = (@ + 1) % MaxCommands, !.queue_count = @ - 1]

NextCommand(d) ==
  LET e == [d EXCEPT !.queue_min = (@ + 1) % MaxCommands, !.queue_count = @ - 1]
  IN IF e.queue_count > 0 THEN SendByte(e, Current(e).code) ELSE e

\* The command each stage of the initialisation sends, and the stage it enters.
Stage(state) ==
  CASE state = "INIT_START" ->
         [next |-> "DISABLE_SCAN", cmd |-> NewCommand(CMD_DISABLE_SCAN, NoArgument, FALSE)]
    [] state = "DISABLE_SCAN" ->
         [next |-> "SET_SCAN_SET_2", cmd |-> NewCommand(CMD_SCAN_CODE_SET, "2", FALSE)]
    [] state = "SET_SCAN_SET_2" ->
         [next |-> "GET_SCAN_SET", cmd |-> NewCommand(CMD_SCAN_CODE_SET, "0", TRUE)]
    [] state = "GET_SCAN_SET" ->
         [next |-> "ENABLE_SCAN", cmd |-> NewCommand(CMD_ENABLE_SCAN, NoArgument, FALSE)]

\* Fault: the response is not looked at.
ContinueInitTrusting(d, success, response) ==
  CASE ~success -> [d EXCEPT !.initialized = TRUE]
    [] success /\ d.init_state = "ENABLE_SCAN" ->
         [d EXCEPT !.init_state = "INITIALIZED", !.initialized = TRUE]
    [] OTHER ->
         AddCommand([d EXCEPT !.init_state = Stage(d.init_state).next],
                    Stage(d.init_state).cmd)

\* continue_init, the on_complete of every command.
ContinueInit(d, success, response) ==
  CASE ~success \/ (d.init_state = "GET_SCAN_SET" /\ response # 2) ->
         [d EXCEPT !.initialized = TRUE]
    [] success /\ d.init_state = "ENABLE_SCAN" ->
         [d EXCEPT !.init_state = "INITIALIZED", !.initialized = TRUE]
    [] OTHER ->
         AddCommand([d EXCEPT !.init_state = Stage(d.init_state).next],
                    Stage(d.init_state).cmd)

Complete(d, success, response) == NextCommand(ContinueInit(d, success, response))

\* Fault: one resend too many.
OnResendOnceMore(d) ==
  LET cmd == Current(d)
      e == [d EXCEPT !.cmd_queue[d.queue_min].resend_count = @ + 1]
  IN IF cmd.resend_count <= MaxResends
       THEN SendByte(e, cmd.code)
       ELSE Complete(e, FALSE, 0)

\* The byte sent again is the code as it was before this request.
OnResend(d) ==
  LET cmd == Current(d)
      e == [d EXCEPT !.cmd_queue[d.queue_min] =
              [cmd EXCEPT !.code = IF cmd.sub_sent THEN cmd.subcommand ELSE @,
                          !.resend_count = @ + 1]]
  IN IF cmd.resend_count < MaxResends
       THEN SendByte(e, cmd.code)
       ELSE Complete(e, FALSE, 0)

OnAck(d) ==
  LET cmd == Current(d)
      acknowledged == [d EXCEPT !.cmd_queue[d.queue_min].acknowledged = TRUE]
  IN CASE cmd.subcommand # NoArgument /\ ~cmd.sub_sent ->
            SendByte([d EXCEPT !.cmd_queue[d.queue_min] =
                        [cmd EXCEPT !.sub_sent = TRUE, !.resend_count = 0]],
                     cmd.subcommand)
       [] (cmd.subcommand = NoArgument \/ cmd.sub_sent) /\ cmd.has_response ->
            acknowledged
       [] OTHER -> Complete(acknowledged, TRUE, 0)

\* Fault: any other byte is the response to the command under way.
OnKeyboardSendByteGreedy(d, byte) ==
  CASE d.queue_count = 0 -> OnKeyPressed(d, byte)
    [] d.queue_count > 0 /\ byte = RESPONSE_RESEND -> OnResend(d)
    [] d.queue_count > 0 /\ byte = RESPONSE_ACK -> OnAck(d)
    [] OTHER -> Complete(d, TRUE, byte.value)

OnKeyboardSendByte(d, byte) ==
  CASE d.queue_count = 0 -> OnKeyPressed(d, byte)
    [] d.queue_count > 0 /\ byte = RESPONSE_RESEND -> OnResend(d)
    [] d.queue_count > 0 /\ byte = RESPONSE_ACK -> OnAck(d)
    [] OTHER -> IF Current(d).acknowledged
                  THEN Complete(d, TRUE, byte.value)
                  ELSE OnKeyPressed(d, byte)

\* The step ends: what was sent is on the line, what was decoded is on record.
\* send_byte gives up on a controller that stays busy, and nobody looks at what
\* it returns.
Settle(d) ==
  /\ driver' = [d EXCEPT !.sent = <<>>, !.keys = <<>>]
  /\ pressed' = pressed \o d.keys
  /\ \/ toKeyboard' = toKeyboard \o d.sent /\ UNCHANGED lost
     \/ d.sent # <<>> /\ lost < MaxLost /\ lost' = lost + 1 /\ UNCHANGED toKeyboard

-----------------------------------------------------------------------------
(* kbd_initialize, in the main program: a byte of the keyboard may arrive  *)
(* between any two of these steps.                                         *)

Init ==
  /\ driver = [cmd_queue |-> [i \in 0..MaxCommands - 1 |->
                                NewCommand(CMD_DISABLE_SCAN, NoArgument, FALSE)],
               queue_min |-> 0, queue_count |-> 0,
               init_state |-> "INIT_START", initialized |-> FALSE,
               sent |-> <<>>, keys |-> <<>>]
  /\ main = "setup"
  /\ pressed = <<>>
  /\ toKeyboard = <<>>
  /\ toDriver = <<>>
  /\ keyboard \in [scanning : BOOLEAN, set : StartSets, knowsSet2 : BOOLEAN, awaiting : {FALSE}]
  /\ typed = 0
  /\ garbled = 0
  /\ lost = 0

\* continue_init and the first half of add_command: the slot is filled.
MainSetup ==
  /\ main = "setup"
  /\ main' = "count"
  /\ driver' = Enqueue([driver EXCEPT !.init_state = Stage("INIT_START").next],
                       Stage("INIT_START").cmd)
  /\ UNCHANGED <<pressed, toKeyboard, toDriver, keyboard, typed, garbled, lost>>

MainCount ==
  /\ main = "count"
  /\ main' = "send"
  /\ driver' = [driver EXCEPT !.queue_count = @ + 1]
  /\ UNCHANGED <<pressed, toKeyboard, toDriver, keyboard, typed, garbled, lost>>

MainSend ==
  /\ main = "send"
  /\ main' = "spin"
  /\ Settle(SendByte(driver, Current(driver).code))
  /\ UNCHANGED <<toDriver, keyboard, typed, garbled>>

\* while (!initialized);
MainLeaves ==
  /\ main = "spin"
  /\ driver.initialized
  /\ main' = "done"
  /\ UNCHANGED <<driver, pressed, toKeyboard, toDriver, keyboard, typed, garbled, lost>>

\* port_1_interrupt
Interrupt ==
  /\ toDriver # <<>>
  /\ Settle(OnKeyboardSendByte(driver, Head(toDriver)))
  /\ toDriver' = Tail(toDriver)
  /\ UNCHANGED <<main, keyboard, typed, garbled>>

-----------------------------------------------------------------------------
(* The keyboard, as the driver's commands use it.  It answers every byte   *)
(* once, in order.  A command that arrives where an argument is due is a   *)
(* new command.                                                            *)

Answer(bytes) ==
  /\ toKeyboard # <<>>
  /\ toKeyboard' = Tail(toKeyboard)
  /\ toDriver' = toDriver \o bytes
  /\ UNCHANGED <<driver, main, pressed, typed, lost>>

TakesCommand ==
  /\ Head(toKeyboard) \in Codes
  /\ Answer(<<RESPONSE_ACK>>)
  /\ keyboard' = CASE Head(toKeyboard) = CMD_SCAN_CODE_SET -> [keyboard EXCEPT !.awaiting = TRUE]
                   [] Head(toKeyboard) = CMD_ENABLE_SCAN ->
                        [keyboard EXCEPT !.awaiting = FALSE, !.scanning = TRUE]
                   [] Head(toKeyboard) = CMD_DISABLE_SCAN ->
                        [keyboard EXCEPT !.awaiting = FALSE, !.scanning = FALSE]
  /\ UNCHANGED garbled

\* A set the keyboard does not know leaves it in the one it has.
TakesSet ==
  /\ keyboard.awaiting
  /\ Head(toKeyboard) = "2"
  /\ Answer(<<RESPONSE_ACK>>)
  /\ keyboard' = [keyboard EXCEPT !.awaiting = FALSE,
                                  !.set = IF keyboard.knowsSet2 THEN 2 ELSE @]
  /\ UNCHANGED garbled

TellsSet ==
  /\ keyboard.awaiting
  /\ Head(toKeyboard) = "0"
  /\ Answer(<<RESPONSE_ACK, Response(keyboard.set)>>)
  /\ keyboard' = [keyboard EXCEPT !.awaiting = FALSE]
  /\ UNCHANGED garbled

\* The byte arrives garbled.
AsksAgain ==
  /\ garbled < MaxGarbled
  /\ garbled' = garbled + 1
  /\ Answer(<<RESPONSE_RESEND>>)
  /\ UNCHANGED keyboard

KeyboardAnswers == toKeyboard # <<>> /\ (TakesCommand \/ TakesSet \/ TellsSet \/ AsksAgain)

\* The user hits a key.
SendsScancode ==
  /\ keyboard.scanning
  /\ typed < MaxKeys
  /\ typed' = typed + 1
  /\ toDriver' = Append(toDriver, Scancode(typed + 1))
  /\ UNCHANGED <<driver, main, pressed, toKeyboard, keyboard, garbled, lost>>

Main == MainSetup \/ MainCount \/ MainSend \/ MainLeaves

Next == Main \/ Interrupt \/ KeyboardAnswers \/ SendsScancode

\* The processor runs, IRQ 1 is delivered and the keyboard answers what it gets;
\* nobody has to type.
Fairness == WF_vars(Main) /\ WF_vars(Interrupt) /\ WF_vars(KeyboardAnswers)

Spec == Init /\ [][Next]_vars /\ Fairness

-----------------------------------------------------------------------------
(* Properties.                                                             *)

BytesOfKeyboard ==
  {RESPONSE_ACK, RESPONSE_RESEND} \cup {Response(n) : n \in 1..3}
    \cup {Scancode(n) : n \in 1..MaxKeys}

\* Types and bounds: at most MAX_COMMANDS commands, no byte sent more than
\* 1 + MaxResends times.
TypeOK ==
  /\ driver.cmd_queue \in [0..MaxCommands - 1 -> Command]
  /\ driver.queue_min \in 0..MaxCommands - 1
  /\ driver.queue_count \in 0..MaxCommands
  /\ driver.init_state \in InitState
  /\ driver.initialized \in BOOLEAN
  /\ driver.sent = <<>> /\ driver.keys = <<>>
  /\ main \in {"setup", "count", "send", "spin", "done"}
  /\ pressed \in Seq(BytesOfKeyboard)
  /\ toKeyboard \in Seq(Codes \cup Arguments)
  /\ toDriver \in Seq(BytesOfKeyboard)
  /\ keyboard \in [scanning : BOOLEAN, set : 1..3, knowsSet2 : BOOLEAN, awaiting : BOOLEAN]
  /\ typed \in 0..MaxKeys /\ garbled \in 0..MaxGarbled /\ lost \in 0..MaxLost

IsAnswer(byte) == byte \in {RESPONSE_ACK, RESPONSE_RESEND}

\* The driver never sends a byte before the keyboard has answered the one before
\* (the queue starts a command only when it is the first or the one before it is
\* done): at most one byte or answer is under way.
OneByteAtATime ==
  /\ Len(toKeyboard) <= 1
  /\ toKeyboard # <<>> => \A i \in 1..Len(toDriver) : ~IsAnswer(toDriver[i])
  /\ \A i, j \in 1..Len(toDriver) : IsAnswer(toDriver[i]) /\ IsAnswer(toDriver[j]) => i = j

IsScancode(byte) == byte.kind = "key"

\* Every scancode, and nothing but scancodes, reaches on_key_pressed, in the order
\* typed: none is taken for the response to CMD_SCAN_CODE_SET, none is dropped
\* while commands are under way, and no answer is decoded as a key.  The scancodes on
\* their way are those typed since the last one decoded.
ScancodesReachDecoder ==
  LET inFlight == {i \in 1..Len(toDriver) : IsScancode(toDriver[i])} IN
  /\ Len(pressed) <= typed
  /\ \A n \in 1..Len(pressed) : pressed[n] = Scancode(n)
  /\ {toDriver[i].value : i \in inFlight} = Len(pressed) + 1..typed
  /\ \A i, j \in inFlight : i < j => toDriver[i].value < toDriver[j].value

\* A driver that finished its initialisation without an error has a keyboard that
\* scans, with scancode set 2, the only one it decodes.
InitializedMeansSet2 ==
  driver.init_state = "INITIALIZED" =>
    keyboard.scanning /\ keyboard.set = 2 /\ ~keyboard.awaiting

\* The driver takes a command for sent and acknowledged whose argument the
\* keyboard never got.
ArgumentNeverSent ==
  /\ keyboard.awaiting
  /\ driver.queue_count > 0
  /\ Current(driver).acknowledged

\* kbd_initialize leaves its loop, whatever the line garbles, unless a byte was
\* given up on or the driver comes to wait for the response of a keyboard that
\* waits for the argument.
InitEnds == <>(main = "done") \/ <>(lost > 0) \/ <>ArgumentNeverSent

\* What the comment in on_keyboard_send_byte says of a command at its
\* acknowledgement: "the commands have been sent".
AcknowledgedMeansSent == ~ArgumentNeverSent
=============================================================================
