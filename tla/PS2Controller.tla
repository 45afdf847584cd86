----------------------------- MODULE PS2Controller -----------------------------
(***************************************************************************)
(* The start of the PS/2 controller (kernel/arch/i686/ps2.c), its two      *)
(* interrupts, and the part of main.c around them, on a machine with a     *)
(* controller of one or two channels and a device or none on each.         *)
(*                                                                         *)
(* The driver is a program of port accesses without a loop, and is one     *)
(* here: Program is a sequence of them, and an action runs the next one.   *)
(* The controller moves the bytes it has to its output buffer whenever     *)
(* that is empty; the driver waits for them a while, not for ever, and so  *)
(* it does for a controller that is busy with the byte before.             *)
(***************************************************************************)
EXTENDS Interrupts

CONSTANTS
  Machines,     \* pic, ps2: has the controllers; dual: two channels; resets: its self test
                \* resets the configuration; port1, port2: what is attached;
                \* trouble: what may go wrong in the kernel's start
  MaxKeys,      \* bound: keys hit
  MaxLate,      \* bound: answers that come, and bytes that would have been taken, after
                \* the driver stopped waiting
  MaxNoise      \* bound: ticks of the timer and spurious interrupts

Attached == {"keyboard", "mouse", "none"}

ASSUME PS2Assumption ==
  /\ Machines \subseteq [pic : BOOLEAN, ps2 : BOOLEAN, dual : BOOLEAN, resets : BOOLEAN,
                         port1 : Attached, port2 : Attached,
                         trouble : {"none", "late answer", "busy", "early key"}]
  /\ MaxKeys \in Nat /\ MaxLate \in Nat /\ MaxNoise \in Nat

VARIABLES
  machine,
  cpu,         \* see Interrupts
  controller,  \* the 8042
  scanning,    \* whether the device of each port sends on its own
  ps2,         \* the statics of ps2.c and main's variables
  phase,       \* where the kernel's start is
  step,        \* the next access of Program
  late,        \* answers and readiness that came late so far
  early,       \* whether a key was hit before the kernel ran
  keys,        \* keys hit since the kernel runs
  served,      \* keys the keyboard's driver was called with since then
  moved,       \* whether the device of port 2 sent on its own
  noise        \* ticks and spurious interrupts so far

ps2Vars == <<machine, cpu, controller, scanning, ps2, phase, step,
             late, early, keys, served, moved, noise>>
userVars == <<early, keys, moved>>

\* Bytes, by their names in the sources.
CMD_READ_RAM == 32
CMD_WRITE_RAM == 96
CMD_DISABLE_PORT_1 == 173
CMD_ENABLE_PORT_1 == 174
CMD_TEST_PORT_1 == 171
CMD_DISABLE_PORT_2 == 167
CMD_ENABLE_PORT_2 == 168
CMD_TEST_PORT_2 == 169
CMD_TEST_CONTROLLER == 170
CMD_WRITE_INPUT_2 == 212
DEVICE_IDENTIFY == 242
DEVICE_ENABLE_SCAN == 244
DEVICE_DISABLE_SCAN == 245
DEVICE_RESET == 255
DEVICE_ACK == 250
SELF_TEST_OK == 85
DEVICE_TESTED == 170
SCANCODE == 28

\* The configuration byte.
INT_1 == 0
INT_2 == 1
OFF_1 == 4
OFF_2 == 5
TRANSLATE == 6
HasBit(byte, bit) == (byte \div 2^bit) % 2 = 1
WithBit(byte, bit) == IF HasBit(byte, bit) THEN byte ELSE byte + 2^bit
ConfigOfBios == 2^INT_1 + 2^INT_2 + 2^TRANSLATE
WithoutBit(byte, bit) == IF HasBit(byte, bit) THEN byte - 2^bit ELSE byte

-----------------------------------------------------------------------------
(* The controller and the devices.  A controller of one channel does not   *)
(* know the commands for a second: what follows CMD_WRITE_INPUT_2 goes to  *)
(* the first.  The data port gives the last byte again while no new one    *)
(* came.                                                                   *)

Ports == 1..2
DeviceAt(m, port) == IF port = 1 THEN m.port1 ELSE m.port2
OffBit(port) == IF port = 1 THEN OFF_1 ELSE OFF_2

Controller0(configuration) ==
  [config |-> configuration, byte |-> 0, full |-> FALSE, from |-> 0,
   next |-> "port1", controller |-> <<>>, port1 |-> <<>>, port2 |-> <<>>]

Sources == <<"port1", "port2">>

\* The lines the controller holds up.
LinesOf(c) ==
  {irq \in {1, 12} : c.full /\ (IF irq = 12 THEN c.from = 2 /\ HasBit(c.config, INT_2)
                                          ELSE c.from # 2 /\ HasBit(c.config, INT_1))}

\* A line that goes up asks for an interrupt; one that goes down asks no more.
Wired(x, before, after) ==
  [x EXCEPT !.requests = (@ \ (LinesOf(before) \ LinesOf(after)))
                         \cup (LinesOf(after) \ LinesOf(before))]

CommandTo(m, before, command) ==
  LET c == [before EXCEPT !.next = "port1"]
      answer(b) == [c EXCEPT !.controller = Append(@, b)]
      config(byte) == [c EXCEPT !.config = byte]
  IN CASE command = CMD_READ_RAM -> answer(c.config)
       [] command = CMD_WRITE_RAM -> [c EXCEPT !.next = "config"]
       [] command = CMD_TEST_CONTROLLER ->
            [answer(SELF_TEST_OK) EXCEPT !.config = IF m.resets THEN ConfigOfBios ELSE @]
       [] command = CMD_DISABLE_PORT_1 -> config(WithBit(c.config, OFF_1))
       [] command = CMD_ENABLE_PORT_1 -> config(WithoutBit(c.config, OFF_1))
       [] command = CMD_TEST_PORT_1 -> answer(0)
       [] command = CMD_DISABLE_PORT_2 /\ m.dual -> config(WithBit(c.config, OFF_2))
       [] command = CMD_ENABLE_PORT_2 /\ m.dual -> config(WithoutBit(c.config, OFF_2))
       [] command = CMD_TEST_PORT_2 /\ m.dual -> answer(0)
       [] command = CMD_WRITE_INPUT_2 /\ m.dual -> [c EXCEPT !.next = "port2"]
       [] OTHER -> c

\* What a device answers.
Answers(device, command) ==
  CASE device = "none" -> <<>>
    [] command = DEVICE_RESET /\ device = "keyboard" -> <<DEVICE_ACK, DEVICE_TESTED>>
    [] command = DEVICE_RESET /\ device = "mouse" -> <<DEVICE_ACK, DEVICE_TESTED, 0>>
    [] command = DEVICE_IDENTIFY /\ device = "keyboard" -> <<DEVICE_ACK, 171, 131>>
    [] command = DEVICE_IDENTIFY /\ device = "mouse" -> <<DEVICE_ACK, 0>>
    [] OTHER -> <<DEVICE_ACK>>

\* A byte written to the data port goes where the command before it says.  A reset
\* device forgets what it had to send.
DataTo(m, c, byte) ==
  LET port == IF c.next = "port2" THEN 2 ELSE 1
      sent == IF byte = DEVICE_RESET THEN <<>> ELSE c[Sources[port]]
  IN IF c.next = "config" THEN [c EXCEPT !.config = byte, !.next = "port1"]
     ELSE [c EXCEPT !.next = "port1",
                    ![Sources[port]] = sent \o Answers(DeviceAt(m, port), byte)]

\* After its reset a keyboard sends keys, a mouse nothing.
Scans(device, command, before) ==
  CASE command = DEVICE_RESET -> device = "keyboard"
    [] command = DEVICE_ENABLE_SCAN -> device # "none"
    [] command = DEVICE_DISABLE_SCAN -> FALSE
    [] OTHER -> before

\* Bytes that may yet come to the output buffer.
Coming(c) ==
  {port \in 0..2 : IF port = 0 THEN c.controller # <<>>
                   ELSE c[Sources[port]] # <<>> /\ ~HasBit(c.config, OffBit(port))}

ControllerMoves(port) ==
  LET queue == IF port = 0 THEN "controller" ELSE Sources[port]
      brought == [controller EXCEPT !.byte = Head(controller[queue]), !.full = TRUE,
                                  !.from = port, ![queue] = Tail(@)]
  IN /\ ~controller.full /\ port \in Coming(controller)
     /\ controller' = brought
     /\ cpu' = Wired(cpu, controller, brought)
     /\ UNCHANGED <<machine, scanning, ps2, phase, step, late, userVars, served, noise>>

-----------------------------------------------------------------------------
(* ps2.c as port accesses.  An access is made when its condition holds; a  *)
(* read that wants an acknowledge skips the accesses of its function that  *)
(* a return on anything else leaves out.                                   *)

Access(op, arg) == [op |-> op, arg |-> arg, port |-> 0, when |-> "always", skip |-> 0]
Command(c) == <<Access("command", c)>>
Write(b) == <<Access("write", b)>>
Read(to, port) == <<[Access("read", to) EXCEPT !.port = port]>>
ReadAck(skip) == <<[Access("read", "ack") EXCEPT !.skip = skip]>>
WaitReady(skip) == <<[Access("wait", 0) EXCEPT !.skip = skip]>>
When(condition, ops) == [i \in DOMAIN ops |-> [ops[i] EXCEPT !.when = condition]]
IsPresent(port) == <<"present 1", "present 2">>[port]

enable_port(port) == Command(IF port = 1 THEN CMD_ENABLE_PORT_1 ELSE CMD_ENABLE_PORT_2)
disable_port(port) == Command(IF port = 1 THEN CMD_DISABLE_PORT_1 ELSE CMD_DISABLE_PORT_2)
test_port(port) ==
  Command(IF port = 1 THEN CMD_TEST_PORT_1 ELSE CMD_TEST_PORT_2) \o Read("test", port)
get_configuration(to) == Command(CMD_READ_RAM) \o Read(to, 0)
write_configuration == Command(CMD_WRITE_RAM) \o <<Access("write configuration", 0)>>
configure_ps2 == get_configuration("configure") \o write_configuration
perform_self_test(skip) ==
  Command(CMD_TEST_CONTROLLER)
  \o <<[Access("read", "self test") EXCEPT !.skip = skip]>>

enable_available_channels ==
  When("channel 1 ok", enable_port(1)) \o When("channel 2 ok", enable_port(2))

enable_irqs == get_configuration("enable irqs") \o write_configuration

\* It returns when one of its waits is given up.
send_byte(port, byte) ==
  (IF port = 2 THEN <<[Access("command", CMD_WRITE_INPUT_2) EXCEPT !.skip = 1]>> ELSE <<>>)
  \o Write(byte)

\* Fault: only the result of the device's test is dropped, not what may follow it.
DropOneByte(port) ==
  send_byte(port, DEVICE_RESET) \o ReadAck(1) \o Read("present", port)

\* A device that acknowledges a reset is present; two more bytes are dropped.
detect_device(port) ==
  send_byte(port, DEVICE_RESET) \o ReadAck(2)
  \o Read("drop", port) \o Read("present", port)

set_scanning(port, scan) ==
  When(IsPresent(port),
       send_byte(port, IF scan THEN DEVICE_ENABLE_SCAN ELSE DEVICE_DISABLE_SCAN)
       \o ReadAck(0))

initialize_device(port) ==
  LET identify == send_byte(port, DEVICE_IDENTIFY) \o ReadAck(2)
                  \o Read("byte_1", port) \o Read("type", port)
  IN When(IsPresent(port), WaitReady(Len(identify)) \o identify)

initialize_devices ==
  detect_device(1) \o detect_device(2)
  \o set_scanning(1, FALSE) \o set_scanning(2, FALSE)
  \o initialize_device(1) \o initialize_device(2)
  \o set_scanning(1, TRUE) \o set_scanning(2, TRUE)

AfterSelfTest ==
  write_configuration
  \o When("dual channel", enable_port(2) \o get_configuration("configuration")
                          \o disable_port(2))
  \o test_port(1) \o test_port(2)
  \o enable_available_channels
  \o initialize_devices
  \o <<Access("handler", 1), Access("handler", 12)>>
  \o enable_irqs
  \o <<Access("initialized", 0)>>

ps2_initialize ==
  disable_port(1) \o disable_port(2)
  \o <<Access("flush", 0)>>
  \o configure_ps2
  \o perform_self_test(Len(AfterSelfTest))
  \o AfterSelfTest

Program == ps2_initialize

determine_device_type(byte_1, byte_2) ==
  CASE byte_1 = 0 -> "PS_2_MOUSE"
    [] byte_1 = 3 -> "SCROLL_MOUSE"
    [] byte_1 = 4 -> "BUTTON_5_MOUSE"
    [] byte_1 = 171 /\ byte_2 \in {131, 193} -> "MF2_KBD"
    [] byte_1 = 171 /\ byte_2 = 132 -> "SHORT_KBD"
    [] byte_1 = 171 /\ byte_2 \in 133..134 -> "122_KEY_KBD"
    [] byte_1 = 171 /\ byte_2 \in 144..146 -> "JAPANESE_KBD"
    [] byte_1 = 172 /\ byte_2 = 161 -> "NCD_SUN_KBD"
    [] OTHER -> "UNKOWN"

is_keyboard(type) ==
  type \in {"MF2_KBD", "SHORT_KBD", "122_KEY_KBD", "JAPANESE_KBD", "NCD_SUN_KBD"}

Statics0 ==
  [present |-> FALSE, initialized |-> FALSE, dual |-> FALSE, ok |-> <<FALSE, FALSE>>,
   configuration |-> 0, byte_1 |-> 0, attached |-> <<FALSE, FALSE>>,
   type |-> <<"NONE", "NONE">>, on_byte_recieved |-> 0]

Holds(condition) ==
  CASE condition = "always" -> TRUE
    [] condition = "dual channel" -> ps2.dual
    [] condition = "channel 1 ok" -> ps2.ok[1]
    [] condition = "channel 2 ok" -> ps2.ok[2]
    [] condition = "present 1" -> ps2.attached[1]
    [] condition = "present 2" -> ps2.attached[2]

-----------------------------------------------------------------------------

PS2Init ==
  /\ machine \in Machines
  /\ \E requests \in {{}, {0, 1}} : cpu = Cpu0(machine.pic, requests)
  /\ controller = Controller0(ConfigOfBios)
  /\ scanning = <<machine.port1 = "keyboard", machine.port2 = "keyboard">>
  /\ ps2 = Statics0
  /\ phase = "off" /\ step = 1
  /\ late = 0 /\ early = FALSE /\ keys = 0 /\ served = 0 /\ moved = FALSE /\ noise = 0

\* hal_initialize up to ps2_initialize, and detect_ps2.
Start ==
  /\ phase = "off"
  /\ cpu' = irq_initialize(isr_initialize(cpu))
  /\ ps2' = [ps2 EXCEPT !.present = machine.ps2]
  /\ phase' = IF machine.ps2 THEN "ps2" ELSE "main"
  /\ UNCHANGED <<machine, controller, scanning, step, late, userVars, served, noise>>

Next1(op) == /\ phase = "ps2" /\ ~cpu.crashed
             /\ step \in DOMAIN Program /\ Program[step].op = op
             /\ Holds(Program[step].when)
             /\ UNCHANGED <<machine, phase, userVars, served, noise>>

SkipAccess ==
  /\ phase = "ps2" /\ ~cpu.crashed
  /\ step \in DOMAIN Program /\ ~Holds(Program[step].when)
  /\ step' = step + 1
  /\ UNCHANGED <<machine, cpu, controller, scanning, ps2, phase, late, userVars, served, noise>>

SendCommand ==
  /\ Next1("command")
  /\ controller' = CommandTo(machine, controller, Program[step].arg)
  /\ step' = step + 1
  /\ UNCHANGED <<cpu, scanning, ps2, late>>

\* A byte for a device or, after CMD_WRITE_RAM, the configuration.
Data(byte) ==
  LET port == IF controller.next = "port2" THEN 2 ELSE 1
  IN /\ controller' = DataTo(machine, controller, byte)
     /\ cpu' = Wired(cpu, controller, controller')
     /\ scanning' = IF controller.next = "config" THEN scanning
                    ELSE [scanning EXCEPT ![port] = Scans(DeviceAt(machine, port), byte, @)]

WriteByte ==
  /\ Next1("write")
  /\ Data(Program[step].arg)
  /\ step' = step + 1
  /\ UNCHANGED <<ps2, late>>

WriteConfiguration ==
  /\ Next1("write configuration")
  /\ Data(ps2.configuration)
  /\ step' = step + 1
  /\ UNCHANGED <<ps2, late>>

WaitedReady ==
  /\ Next1("wait")
  /\ step' = step + 1
  /\ UNCHANGED <<cpu, controller, scanning, ps2, late>>

\* wait_ps2_cmd gave up: send_byte and initialize_device return.  The others, and
\* WriteByte and SendCommand after a wait that went well, write all the same; what a
\* busy controller is sent is lost.
GiveUpWaiting ==
  /\ machine.trouble = "busy" /\ late < MaxLate
  /\ \E op \in {"command", "write", "write configuration", "wait"} : Next1(op)
  /\ late' = late + 1
  /\ step' = step + 1 + Program[step].skip
  /\ UNCHANGED <<cpu, controller, scanning, ps2>>

\* What is done with the byte b of a read.
Taken(read, b) ==
  LET without(c) == WithoutBit(WithoutBit(WithoutBit(c, INT_1), INT_2), TRANSLATE)
  IN CASE read.arg = "test" -> [ps2 EXCEPT !.ok[read.port] = (b = 0)]
       [] read.arg = "configure" -> [ps2 EXCEPT !.configuration = without(b),
                                                !.dual = HasBit(b, OFF_2)]
       [] read.arg = "configuration" -> [ps2 EXCEPT !.configuration = b]
       [] read.arg = "present" -> [ps2 EXCEPT !.attached[read.port] = TRUE]
       [] read.arg = "byte_1" -> [ps2 EXCEPT !.byte_1 = b]
       [] read.arg = "type" ->
            [ps2 EXCEPT !.type[read.port] = determine_device_type(ps2.byte_1, b)]
       \* 0x02 & channel_2_ok is 0: channel_2_ok is a bool.
       [] read.arg = "enable irqs" ->
            [ps2 EXCEPT !.configuration = IF ps2.ok[1] THEN WithBit(b, INT_1) ELSE b]
       [] OTHER -> ps2

\* The accesses left out after byte b.
Skipped(read, b) ==
  IF \/ read.arg = "ack" /\ b # DEVICE_ACK
     \/ read.arg = "self test" /\ b # SELF_TEST_OK
    THEN read.skip ELSE 0

ReadByte ==
  /\ Next1("read") /\ controller.full
  /\ controller' = [controller EXCEPT !.full = FALSE]
  /\ cpu' = Wired(cpu, controller, controller')
  /\ ps2' = Taken(Program[step], controller.byte)
  /\ step' = step + 1 + Skipped(Program[step], controller.byte)
  /\ UNCHANGED <<scanning, late>>

\* wait_ps2_data gave up; its callers do not see it, and read the last byte again.
ReadNothing ==
  /\ Next1("read") /\ ~controller.full
  /\ IF Coming(controller) = {} THEN UNCHANGED late
     ELSE machine.trouble = "late answer" /\ late < MaxLate /\ late' = late + 1
  /\ ps2' = Taken(Program[step], controller.byte)
  /\ step' = step + 1 + Skipped(Program[step], controller.byte)
  /\ UNCHANGED <<cpu, controller, scanning>>

Flush ==
  /\ Next1("flush")
  /\ controller' = [controller EXCEPT !.full = FALSE]
  /\ cpu' = Wired(cpu, controller, controller')
  /\ step' = step + 1
  /\ UNCHANGED <<scanning, ps2, late>>

RegisterHandler ==
  /\ Next1("handler")
  /\ cpu' = irq_register_handler(cpu, Program[step].arg,
               IF Program[step].arg = 1 THEN "port_1_interrupt" ELSE "port_2_interrupt")
  /\ step' = step + 1
  /\ UNCHANGED <<controller, scanning, ps2, late>>

Initialized ==
  /\ Next1("initialized")
  /\ ps2' = [ps2 EXCEPT !.initialized = TRUE]
  /\ step' = step + 1
  /\ UNCHANGED <<cpu, controller, scanning, late>>

AccessPorts == \/ SkipAccess \/ SendCommand \/ WriteByte \/ WriteConfiguration \/ ReadByte
               \/ WaitedReady \/ GiveUpWaiting \/ ReadNothing \/ Flush
               \/ RegisterHandler \/ Initialized

-----------------------------------------------------------------------------
(* The rest of main, the interrupts, and the user.                         *)

InMain == cpu.running = NoLine /\ ~cpu.crashed

\* After hal_initialize: the timer's handler, and interrupts on.
EnableInterrupts ==
  /\ InMain
  /\ phase = "main" \/ (phase = "ps2" /\ step > Len(Program))
  /\ LET x == irq_register_handler(cpu, 0, "timer")
     IN cpu' = [x EXCEPT !.enabled = ~x.crashed]
  /\ phase' = "enabled"
  /\ UNCHANGED <<machine, controller, scanning, ps2, step, late, userVars, served, noise>>

\* kbd_initialize waits for the answers to its commands (module KeyboardCommands); here
\* the last one stands for them all.  A keyboard of port 2 is asked by port 2.
kbd_initialize ==
  /\ InMain /\ phase = "enabled"
  /\ LET keyboards == {port \in Ports : is_keyboard(ps2.type[port])}
         port == IF 1 \in keyboards THEN 1 ELSE 2
         to == IF port = 2 THEN CommandTo(machine, controller, CMD_WRITE_INPUT_2)
               ELSE controller
         receiver == IF to.next = "port2" THEN 2 ELSE 1
     IN IF keyboards = {}
          THEN phase' = "running" /\ UNCHANGED <<controller, scanning, ps2>>
          ELSE /\ phase' = "keyboard"
               /\ ps2' = [ps2 EXCEPT !.on_byte_recieved = port]
               /\ controller' = DataTo(machine, to, DEVICE_ENABLE_SCAN)
               /\ scanning' = IF to.next = "config" THEN scanning
                              ELSE [scanning EXCEPT ![receiver] =
                                     Scans(DeviceAt(machine, receiver), DEVICE_ENABLE_SCAN, @)]
  /\ cpu' = Wired(cpu, controller, controller')
  /\ UNCHANGED <<machine, step, late, userVars, served, noise>>

TakeInterrupt ==
  /\ Interruptible(cpu) /\ Deliverable(cpu) # {}
  /\ cpu' = Interrupt(cpu)
  /\ UNCHANGED <<machine, controller, scanning, ps2, phase, step, late, userVars, served, noise>>

\* Fault: the answers the start of the driver waits for count as keys, too.
AnswersAreKeys(byte) ==
  /\ phase' = IF phase = "keyboard" /\ byte = DEVICE_ACK THEN "running" ELSE phase
  /\ served' = IF phase \in {"keyboard", "running"} THEN served + 1 ELSE served

\* The keyboard's driver gets a byte: the answer its start waits for, or a key.
on_keyboard_send_byte(byte) ==
  /\ phase' = IF phase = "keyboard" /\ byte = DEVICE_ACK THEN "running" ELSE phase
  /\ served' = IF phase = "running" /\ byte = SCANCODE THEN served + 1 ELSE served

port_interrupt(port) ==
  /\ controller' = [controller EXCEPT !.full = FALSE]
  /\ IF ps2.on_byte_recieved = port
       THEN on_keyboard_send_byte(controller.byte)
       ELSE UNCHANGED <<phase, served>>

\* The handler of the line, if it has one, and the end of interrupt.
irq_handler ==
  /\ cpu.running # NoLine
  /\ CASE cpu.irq_handlers[cpu.running] = "port_1_interrupt" -> port_interrupt(1)
       [] cpu.irq_handlers[cpu.running] = "port_2_interrupt" -> port_interrupt(2)
       [] OTHER -> UNCHANGED <<controller, phase, served>>
  /\ cpu' = irq_return(Wired(cpu, controller, controller'))
  /\ UNCHANGED <<machine, scanning, ps2, step, late, userVars, noise>>

\* While interrupts are off a tick is remembered, whenever it comes.
TimerTicks ==
  /\ noise < MaxNoise /\ 0 \notin cpu.requests
  /\ phase # "off" /\ (phase = "ps2" => step > Len(Program))
  /\ cpu' = [cpu EXCEPT !.requests = @ \cup {0}]
  /\ noise' = noise + 1
  /\ UNCHANGED <<machine, controller, scanning, ps2, phase, step, late, userVars, served>>

SpuriousRequest ==
  /\ noise < MaxNoise /\ Interruptible(cpu)
  /\ cpu' = SpuriousInterrupt(cpu)
  /\ noise' = noise + 1
  /\ UNCHANGED <<machine, controller, scanning, ps2, phase, step, late, userVars, served>>

\* The user hits a key of port 1's keyboard, at most once before the kernel runs.
HitKey ==
  /\ scanning[1] /\ machine.port1 = "keyboard"
  /\ IF phase = "running" THEN keys < MaxKeys /\ keys' = keys + 1 /\ UNCHANGED early
     ELSE machine.trouble = "early key" /\ ~early /\ early' = TRUE /\ UNCHANGED keys
  /\ controller' = [controller EXCEPT !.port1 = Append(@, SCANCODE)]
  /\ UNCHANGED <<machine, cpu, scanning, ps2, phase, step, late, served, moved, noise>>

\* A mouse moves, or a key of port 2's keyboard is hit, once.
SecondDeviceSends ==
  /\ scanning[2] /\ ~moved
  /\ phase = "running" \/ machine.trouble = "early key"
  /\ moved' = TRUE
  /\ controller' = [controller EXCEPT !.port2 = Append(@, SCANCODE)]
  /\ UNCHANGED <<machine, cpu, scanning, ps2, phase, step, late, early, keys, served, noise>>

\* What the processor does: the program, and the interrupts it takes.
Processor ==
  \/ Start \/ AccessPorts \/ EnableInterrupts \/ kbd_initialize
  \/ TakeInterrupt \/ irq_handler

ControllerBrings == \E port \in 0..2 : ControllerMoves(port)
Environment == HitKey \/ SecondDeviceSends \/ TimerTicks \/ SpuriousRequest

PS2Next == Processor \/ ControllerBrings \/ Environment

PS2Spec == PS2Init /\ [][PS2Next]_ps2Vars

-----------------------------------------------------------------------------

\* Every variable is of its type, and the keyboard's driver is called with no more keys
\* than were hit.
PS2TypeOK ==
  /\ machine \in Machines
  /\ cpu.mask \cup cpu.requests \cup cpu.service \subseteq Lines
  /\ cpu.running \in Lines \cup {NoLine}
  /\ controller.config \in 0..255 /\ controller.byte \in 0..255
  /\ phase \in {"off", "ps2", "main", "enabled", "keyboard", "running"}
  /\ step \in 1..(Len(Program) + 1)
  /\ served <= keys + (IF early THEN 1 ELSE 0)
  /\ late <= MaxLate /\ noise <= MaxNoise

\* No line stays in service after its handler: one that did would keep every later line
\* of its rank and below from the processor.  Once the kernel has turned interrupts on
\* they are off while a handler runs and never else.
NothingLeftInService ==
  ~cpu.crashed =>
    /\ cpu.running = NoLine => cpu.service = {}
    /\ phase \in {"enabled", "keyboard", "running"} => (cpu.enabled <=> cpu.running = NoLine)

\* The start finds what is attached to a controller of two channels, if no answer was
\* late, no wait for the controller was given up and nobody touched a device meanwhile;
\* and leaves a keyboard of port 1 sending set-2 codes with its interrupt on, on a
\* controller of one channel too.
DevicesFound ==
  (ps2.initialized /\ late = 0 /\ ~early /\ ~moved) =>
    /\ machine.dual => \A port \in Ports :
         /\ ps2.attached[port] <=> DeviceAt(machine, port) # "none"
         /\ ps2.type[port] = CASE DeviceAt(machine, port) = "keyboard" -> "MF2_KBD"
                               [] DeviceAt(machine, port) = "mouse" -> "PS_2_MOUSE"
                               [] OTHER -> "NONE"
    /\ machine.port1 = "keyboard" =>
         /\ ps2.type[1] = "MF2_KBD" /\ scanning[1]
         /\ HasBit(controller.config, INT_1)
         /\ ~HasBit(controller.config, OFF_1) /\ ~HasBit(controller.config, TRANSLATE)

\* With its keyboard on port 1, the kernel gets through its start and hands every key
\* hit since then to the keyboard's driver, until something on port 2 sends a byte:
\* nothing takes that from the controller, and it keeps the keyboard's from coming.
KeysServed ==
  LET Undisturbed == late = 0 /\ ~early /\ ~moved
      Usable == machine.pic /\ machine.ps2 /\ machine.port1 = "keyboard"
  IN /\ (Usable /\ phase = "off") ~> (phase = "running" \/ ~Undisturbed)
     /\ \A n \in 1..MaxKeys : (Usable /\ keys >= n) ~> (served >= n \/ ~Undisturbed)
=============================================================================
