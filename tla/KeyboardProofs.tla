---------------------------- MODULE KeyboardProofs ----------------------------
(***************************************************************************)
(* Theorems about the keyboard driver's command queue: its types, the      *)
(* discipline of one byte at a time, and the keyboard it leaves behind, for *)
(* any size of the queue, any number of resends, of keys, of garbled and of *)
(* lost bytes.                                                             *)
(***************************************************************************)
EXTENDS KeyboardCommands, SequenceTheorems, TLAPS

Slots == 0..MaxCommands - 1

\* The driver's statics as one record.
Driver ==
  [cmd_queue : [Slots -> Command], queue_min : Slots, queue_count : 0..MaxCommands,
   init_state : InitState, initialized : BOOLEAN,
   sent : Seq(Codes \cup Arguments), keys : Seq(BytesOfKeyboard)]

\* The stages with a command under way.
Stages == {"DISABLE_SCAN", "SET_SCAN_SET_2", "GET_SCAN_SET", "ENABLE_SCAN"}

\* The bytes each of them may send.
BytesOf(state) ==
  CASE state = "DISABLE_SCAN" -> {CMD_DISABLE_SCAN}
    [] state = "SET_SCAN_SET_2" -> {CMD_SCAN_CODE_SET, "2"}
    [] state = "GET_SCAN_SET" -> {CMD_SCAN_CODE_SET, "0"}
    [] state = "ENABLE_SCAN" -> {CMD_ENABLE_SCAN}

\* A command under way is the one of its stage, at most with its argument in the
\* place of its code, and only the one with a response waits acknowledged.
IsStageCommand(state, cmd) ==
  /\ cmd.code \in BytesOf(state)
  /\ cmd.subcommand = CASE state = "SET_SCAN_SET_2" -> "2"
                        [] state = "GET_SCAN_SET" -> "0"
                        [] OTHER -> NoArgument
  /\ cmd.has_response <=> state = "GET_SCAN_SET"
  /\ cmd.code \in Arguments => cmd.sub_sent
  /\ cmd.sub_sent => cmd.subcommand \in Arguments
  /\ cmd.acknowledged => cmd.has_response /\ cmd.sub_sent
  /\ cmd.resend_count <= MaxResends

\* At most one command is in the queue between two steps.
QueueInv(d) ==
  /\ d \in Driver
  /\ d.queue_count \in {0, 1}
  /\ d.queue_count = 1 => /\ d.init_state \in Stages
                          /\ IsStageCommand(d.init_state, Current(d))

Pending == toKeyboard # <<>> \/ \E i \in 1..Len(toDriver) : IsAnswer(toDriver[i])

\* The kernel's side: kbd_initialize and what is under way.
LineInv ==
  /\ main \in {"setup", "count"} => driver.queue_count = 0 /\ driver.queue_min = 0
  /\ main = "setup" => driver.init_state = "INIT_START"
  /\ main = "count" => /\ driver.init_state = "DISABLE_SCAN"
                       /\ driver.cmd_queue[0] = NewCommand(CMD_DISABLE_SCAN, NoArgument, FALSE)
  /\ main = "send" => /\ driver.queue_count = 1 /\ driver.init_state = "DISABLE_SCAN"
                      /\ ~Pending
  /\ Pending => driver.queue_count = 1 /\ ~Current(driver).acknowledged
  /\ toKeyboard # <<>> => /\ toKeyboard[1] \in BytesOf(driver.init_state)
                          /\ toKeyboard[1] \in Arguments => Current(driver).sub_sent

\* The keyboard's side, what each stage has brought about.  A response is on its way
\* only to the command that asked for it, with the set the keyboard is in.
ResponseAwaited ==
  \A i \in 1..Len(toDriver) : toDriver[i].kind = "response" =>
    /\ driver.queue_count = 1 /\ driver.init_state = "GET_SCAN_SET"
    /\ Current(driver).sub_sent
    /\ toDriver[i].value = keyboard.set /\ ~keyboard.awaiting
    /\ toKeyboard = <<>>
    /\ \A j \in 1..Len(toDriver) : /\ toDriver[j] # RESPONSE_RESEND
                                   /\ toDriver[j].kind = "response" => j = i

\* The last key comes before the acknowledgement of CMD_DISABLE_SCAN.
NoKeysAfterDisable ==
  driver.queue_count = 1 /\ driver.init_state = "DISABLE_SCAN" =>
    \A i \in 1..Len(toDriver) : toDriver[i] = RESPONSE_ACK =>
      /\ ~keyboard.scanning
      /\ \A j \in 1..Len(toDriver) : IsScancode(toDriver[j]) => j < i

NoKeysMeanwhile ==
  driver.queue_count = 1 /\ driver.init_state \in {"SET_SCAN_SET_2", "GET_SCAN_SET"} =>
    /\ ~keyboard.scanning
    /\ \A i \in 1..Len(toDriver) : ~IsScancode(toDriver[i])

Set2Enabled ==
  driver.queue_count = 1 /\ driver.init_state = "ENABLE_SCAN" =>
    /\ keyboard.set = 2 /\ ~keyboard.awaiting
    /\ \A i \in 1..Len(toDriver) : toDriver[i] = RESPONSE_ACK => keyboard.scanning

KeyboardInv == ResponseAwaited /\ NoKeysAfterDisable /\ NoKeysMeanwhile /\ Set2Enabled

CommandsInv ==
  /\ QueueInv(driver)
  /\ TypeOK
  /\ OneByteAtATime
  /\ LineInv
  /\ KeyboardInv
  /\ InitializedMeansSet2
  /\ driver.init_state = "INITIALIZED" => driver.queue_count = 0

-----------------------------------------------------------------------------
(* Facts about bytes, commands and indices of the queue.                   *)

\* A number modulo MAX_COMMANDS is an index of the queue.
LEMMA SlotOfIndex ==
  ASSUME NEW n \in Nat
  PROVE  n % MaxCommands \in Slots
BY CommandAssumption DEF Slots

\* A byte is a response or a scancode, or one of the two answers.
LEMMA ByteKinds ==
  ASSUME NEW b \in BytesOfKeyboard
  PROVE  /\ b.kind \in {"ack", "resend", "response", "key"}
         /\ b = RESPONSE_ACK <=> b.kind = "ack"
         /\ b = RESPONSE_RESEND <=> b.kind = "resend"
         /\ IsAnswer(b) <=> b.kind \in {"ack", "resend"}
BY DEF BytesOfKeyboard, RESPONSE_ACK, RESPONSE_RESEND, Response, Scancode, IsAnswer

\* What enqueue_command writes into a slot is a command.
LEMMA NewCommandTyped ==
  ASSUME NEW code \in Codes, NEW sub \in Arguments \cup {NoArgument}, NEW hasResponse \in BOOLEAN
  PROVE  NewCommand(code, sub, hasResponse) \in Command
BY CommandAssumption DEF NewCommand, Command

\* The command a stage sends is fresh and of the next stage.
LEMMA StageOfStages ==
  ASSUME NEW state \in Stages \ {"ENABLE_SCAN"}
  PROVE  /\ Stage(state).next \in Stages
         /\ Stage(state).cmd \in Command
         /\ Stage(state).cmd.code \in Codes
         /\ ~ Stage(state).cmd.acknowledged
         /\ IsStageCommand(Stage(state).next, Stage(state).cmd)
<1>1. CASE state = "DISABLE_SCAN"
  <2>1. PICK cmd : cmd = NewCommand(CMD_SCAN_CODE_SET, "2", FALSE)
    OBVIOUS
  <2>2. Stage(state).next = "SET_SCAN_SET_2" /\ Stage(state).cmd = cmd
    BY <1>1, <2>1 DEF Stage
  <2>3. cmd \in Command
    BY <2>1, NewCommandTyped DEF Codes, Arguments
  <2>4. /\ cmd.code = CMD_SCAN_CODE_SET /\ cmd.subcommand = "2" /\ cmd.resend_count = 0
        /\ cmd.has_response = FALSE /\ ~ cmd.sub_sent /\ ~ cmd.acknowledged
    BY <2>1 DEF NewCommand
  <2>5. IsStageCommand("SET_SCAN_SET_2", cmd)
    BY <2>4, CommandAssumption
    DEF IsStageCommand, BytesOf, Arguments, CMD_SCAN_CODE_SET
  <2> QED BY <2>2, <2>3, <2>4, <2>5 DEF Codes, Stages
<1>2. CASE state = "SET_SCAN_SET_2"
  <2>1. PICK cmd : cmd = NewCommand(CMD_SCAN_CODE_SET, "0", TRUE)
    OBVIOUS
  <2>2. Stage(state).next = "GET_SCAN_SET" /\ Stage(state).cmd = cmd
    BY <1>2, <2>1 DEF Stage
  <2>3. cmd \in Command
    BY <2>1, NewCommandTyped DEF Codes, Arguments
  <2>4. /\ cmd.code = CMD_SCAN_CODE_SET /\ cmd.subcommand = "0" /\ cmd.resend_count = 0
        /\ cmd.has_response = TRUE /\ ~ cmd.sub_sent /\ ~ cmd.acknowledged
    BY <2>1 DEF NewCommand
  <2>5. IsStageCommand("GET_SCAN_SET", cmd)
    BY <2>4, CommandAssumption
    DEF IsStageCommand, BytesOf, Arguments, CMD_SCAN_CODE_SET
  <2> QED BY <2>2, <2>3, <2>4, <2>5 DEF Codes, Stages
<1>3. CASE state = "GET_SCAN_SET"
  <2>1. PICK cmd : cmd = NewCommand(CMD_ENABLE_SCAN, NoArgument, FALSE)
    OBVIOUS
  <2>2. Stage(state).next = "ENABLE_SCAN" /\ Stage(state).cmd = cmd
    BY <1>3, <2>1 DEF Stage
  <2>3. cmd \in Command
    BY <2>1, NewCommandTyped DEF Codes, Arguments
  <2>4. /\ cmd.code = CMD_ENABLE_SCAN /\ cmd.subcommand = NoArgument /\ cmd.resend_count = 0
        /\ cmd.has_response = FALSE /\ ~ cmd.sub_sent /\ ~ cmd.acknowledged
    BY <2>1 DEF NewCommand
  <2>5. IsStageCommand("ENABLE_SCAN", cmd)
    BY <2>4, CommandAssumption
    DEF IsStageCommand, BytesOf, Arguments, CMD_ENABLE_SCAN
  <2> QED BY <2>2, <2>3, <2>4, <2>5 DEF Codes, Stages
<1> QED BY <1>1, <1>2, <1>3 DEF Stages

-----------------------------------------------------------------------------
(* The driver's functions.                                                 *)

\* The first half of add_command writes the slot behind the queue and nothing else.
LEMMA EnqueueEffect ==
  ASSUME NEW d \in Driver, NEW cmd \in Command,
         NEW k, k = (d.queue_min + d.queue_count) % MaxCommands,
         NEW e, e = Enqueue(d, cmd)
  PROVE  /\ e \in Driver
         /\ e.cmd_queue[k] = cmd
         /\ e.queue_min = d.queue_min /\ e.queue_count = d.queue_count
         /\ e.init_state = d.init_state /\ e.initialized = d.initialized
         /\ e.sent = d.sent /\ e.keys = d.keys
<1>1. k \in Slots
  BY SlotOfIndex DEF Driver, Slots
<1>2. PICK q : q = [d.cmd_queue EXCEPT ![k] = cmd]
  OBVIOUS
<1>3. q \in [Slots -> Command] /\ q[k] = cmd
  BY <1>1, <1>2 DEF Driver
<1>4. e = [d EXCEPT !.cmd_queue = q]
  BY <1>2 DEF Enqueue
<1> QED BY <1>3, <1>4 DEF Driver

\* continue_init, called for the only command in the queue, adds the command of the next
\* stage or ends the initialisation.
LEMMA ContinueInitEffect ==
  ASSUME NEW d \in Driver, d.queue_count = 1, d.init_state \in Stages,
         NEW success \in BOOLEAN, NEW response,
         NEW e, e = ContinueInit(d, success, response)
  PROVE  /\ e \in Driver
         /\ e.sent = d.sent /\ e.keys = d.keys /\ e.queue_min = d.queue_min
         /\ \/ /\ e.queue_count = 1
               /\ e.init_state = "INITIALIZED" => success /\ d.init_state = "ENABLE_SCAN"
            \/ /\ e.queue_count = 2 /\ success /\ d.init_state # "ENABLE_SCAN"
               /\ d.init_state = "GET_SCAN_SET" => response = 2
               /\ e.init_state = Stage(d.init_state).next
               /\ e.cmd_queue[(d.queue_min + 1) % MaxCommands] = Stage(d.init_state).cmd
<1>1. CASE ~success \/ (d.init_state = "GET_SCAN_SET" /\ response # 2)
  <2>1. e = [d EXCEPT !.initialized = TRUE]
    BY <1>1 DEF ContinueInit
  <2> QED BY <2>1 DEF Driver, Stages
<1>2. CASE success /\ d.init_state = "ENABLE_SCAN"
  <2>1. e = [d EXCEPT !.init_state = "INITIALIZED", !.initialized = TRUE]
    BY <1>2 DEF ContinueInit
  <2> QED BY <1>2, <2>1 DEF Driver, InitState
<1>3. CASE /\ success /\ d.init_state # "ENABLE_SCAN"
           /\ d.init_state = "GET_SCAN_SET" => response = 2
  <2>1. PICK f : f = [d EXCEPT !.init_state = Stage(d.init_state).next]
    OBVIOUS
  <2>2. e = AddCommand(f, Stage(d.init_state).cmd)
    BY <1>3, <2>1 DEF ContinueInit
  <2>3. Stage(d.init_state).next \in Stages /\ Stage(d.init_state).cmd \in Command
    BY <1>3, StageOfStages
  <2>4. /\ f \in Driver
        /\ f.queue_count = 1 /\ f.queue_min = d.queue_min /\ f.sent = d.sent
        /\ f.keys = d.keys /\ f.init_state = Stage(d.init_state).next
    BY <2>1, <2>3 DEF Driver, Stages, InitState
  <2>5. CASE MaxCommands = 1
    <3>1. e = f
      BY <2>2, <2>4, <2>5 DEF AddCommand
    <3> QED BY <2>3, <2>4, <3>1 DEF Stages
  <2>6. CASE MaxCommands # 1
    <3>1. PICK k : k = (d.queue_min + 1) % MaxCommands
      OBVIOUS
    <3>2. PICK h : h = Enqueue(f, Stage(d.init_state).cmd)
      OBVIOUS
    <3>3. /\ h \in Driver /\ h.cmd_queue[k] = Stage(d.init_state).cmd
          /\ h.queue_min = d.queue_min /\ h.queue_count = 1 /\ h.sent = d.sent
          /\ h.keys = d.keys /\ h.init_state = Stage(d.init_state).next
      BY <2>3, <2>4, <3>1, <3>2, EnqueueEffect
    <3>4. PICK g : g = [h EXCEPT !.queue_count = @ + 1]
      OBVIOUS
    <3>5. /\ g \in Driver /\ g.cmd_queue[k] = Stage(d.init_state).cmd
          /\ g.queue_min = d.queue_min /\ g.queue_count = 2 /\ g.sent = d.sent
          /\ g.keys = d.keys /\ g.init_state = Stage(d.init_state).next
      <4>1. PICK next, cmd : next = Stage(d.init_state).next /\ cmd = Stage(d.init_state).cmd
        OBVIOUS
      <4>2. /\ h \in Driver /\ h.cmd_queue[k] = cmd /\ h.queue_min = d.queue_min
            /\ h.queue_count = 1 /\ h.sent = d.sent /\ h.keys = d.keys /\ h.init_state = next
        BY <3>3, <4>1
      <4>3. 2 \in 0..MaxCommands
        BY <2>6, CommandAssumption
      <4>4. g = [h EXCEPT !.queue_count = 2]
        BY <3>4, <4>2
      <4>5. g \in Driver
        BY <4>2, <4>3, <4>4 DEF Driver
      <4>6. /\ g.cmd_queue = h.cmd_queue /\ g.queue_min = h.queue_min /\ g.queue_count = 2
            /\ g.sent = h.sent /\ g.keys = h.keys /\ g.init_state = h.init_state
        BY <4>2, <4>4 DEF Driver
      <4> QED BY <4>1, <4>2, <4>5, <4>6
    <3>6. e = g
      BY <2>2, <2>4, <2>6, <3>2, <3>4, <3>5 DEF AddCommand
    <3> QED BY <1>3, <3>1, <3>5, <3>6
  <2> QED BY <2>5, <2>6
<1> QED BY <1>1, <1>2, <1>3

\* The first command leaves the queue; the code of the one behind it, if there is one, is sent.
LEMMA NextCommandEffect ==
  ASSUME NEW d \in Driver, d.queue_count \in {1, 2}, d.sent = <<>>,
         NEW k, k = (d.queue_min + 1) % MaxCommands,
         d.cmd_queue[k].code \in Codes \cup Arguments,
         NEW e, e = NextCommand(d)
  PROVE  /\ e \in Driver
         /\ e.queue_count = d.queue_count - 1 /\ e.queue_min = k
         /\ e.cmd_queue = d.cmd_queue
         /\ e.init_state = d.init_state /\ e.keys = d.keys
         /\ e.sent = IF d.queue_count = 2 THEN <<d.cmd_queue[k].code>> ELSE <<>>
<1>1. k \in Slots
  BY SlotOfIndex DEF Driver, Slots
<1>2. PICK f : /\ f = [d EXCEPT !.queue_min = (@ + 1) % MaxCommands, !.queue_count = @ - 1]
               /\ f = [d EXCEPT !.queue_min = k, !.queue_count = d.queue_count - 1]
  BY DEF Driver
<1>3. d.queue_count - 1 \in 0..MaxCommands
  BY CommandAssumption DEF Driver
<1>4. /\ f \in Driver
      /\ f.queue_count = d.queue_count - 1 /\ f.queue_min = k
      /\ f.cmd_queue = d.cmd_queue
      /\ f.init_state = d.init_state /\ f.keys = d.keys /\ f.sent = <<>>
  <2>1. f = [d EXCEPT !.queue_min = k, !.queue_count = d.queue_count - 1]
    BY <1>2
  <2> QED BY <1>1, <1>3, <2>1 DEF Driver
<1>5. e = IF f.queue_count > 0 THEN SendByte(f, Current(f).code) ELSE f
  BY <1>2 DEF NextCommand
<1>6. CASE d.queue_count = 2
  <2>1. e = [f EXCEPT !.sent = Append(<<>>, d.cmd_queue[k].code)]
    BY <1>4, <1>5, <1>6 DEF SendByte, Current
  <2>2. PICK sent : sent = <<d.cmd_queue[k].code>>
    OBVIOUS
  <2>3. sent \in Seq(Codes \cup Arguments) /\ Append(<<>>, d.cmd_queue[k].code) = sent
    BY <2>2
  <2>4. e = [f EXCEPT !.sent = sent]
    BY <2>1, <2>3
  <2> QED BY <1>4, <1>6, <2>2, <2>3, <2>4 DEF Driver
<1>7. CASE d.queue_count = 1
  BY <1>4, <1>5, <1>7
<1> QED BY <1>6, <1>7

\* The only command completes: the queue is empty, or holds the next stage's command, sent.
LEMMA CompleteEffect ==
  ASSUME NEW d \in Driver, d.queue_count = 1, d.init_state \in Stages,
         d.sent = <<>>, d.keys = <<>>,
         NEW success \in BOOLEAN, NEW response,
         NEW e, e = Complete(d, success, response)
  PROVE  /\ e \in Driver /\ e.keys = <<>>
         /\ \/ /\ e.queue_count = 0 /\ e.sent = <<>>
               /\ e.init_state = "INITIALIZED" => success /\ d.init_state = "ENABLE_SCAN"
            \/ /\ e.queue_count = 1 /\ success /\ d.init_state # "ENABLE_SCAN"
               /\ d.init_state = "GET_SCAN_SET" => response = 2
               /\ e.init_state = Stage(d.init_state).next
               /\ Current(e) = Stage(d.init_state).cmd
               /\ e.sent = <<Stage(d.init_state).cmd.code>>
<1>1. PICK f : f = ContinueInit(d, success, response)
  OBVIOUS
<1>2. PICK k : k = (d.queue_min + 1) % MaxCommands
  OBVIOUS
<1>3. /\ f \in Driver
      /\ f.sent = <<>> /\ f.keys = <<>> /\ f.queue_min = d.queue_min
      /\ \/ /\ f.queue_count = 1
            /\ f.init_state = "INITIALIZED" => success /\ d.init_state = "ENABLE_SCAN"
         \/ /\ f.queue_count = 2 /\ success /\ d.init_state # "ENABLE_SCAN"
            /\ d.init_state = "GET_SCAN_SET" => response = 2
            /\ f.init_state = Stage(d.init_state).next
            /\ f.cmd_queue[k] = Stage(d.init_state).cmd
  BY <1>1, <1>2, ContinueInitEffect
<1>4. e = NextCommand(f)
  BY <1>1 DEF Complete
<1>5. f.cmd_queue[k].code \in Codes \cup Arguments
  <2>1. k \in Slots
    BY <1>2, SlotOfIndex DEF Driver, Slots
  <2>2. f.cmd_queue[k] \in Command
    BY <1>3, <2>1 DEF Driver
  <2> QED BY <2>2 DEF Command
<1>6. /\ e \in Driver
      /\ e.queue_count = f.queue_count - 1 /\ e.queue_min = k
      /\ e.cmd_queue = f.cmd_queue
      /\ e.init_state = f.init_state /\ e.keys = <<>>
      /\ e.sent = IF f.queue_count = 2 THEN <<f.cmd_queue[k].code>> ELSE <<>>
  BY <1>2, <1>3, <1>4, <1>5, NextCommandEffect
<1> QED BY <1>3, <1>6 DEF Current

\* The command under way changes in place.
LEMMA CurrentUpdate ==
  ASSUME NEW d \in Driver, NEW cmd \in Command,
         NEW e, e = [d EXCEPT !.cmd_queue[d.queue_min] = cmd]
  PROVE  /\ e \in Driver /\ Current(e) = cmd
         /\ e.queue_min = d.queue_min /\ e.queue_count = d.queue_count
         /\ e.init_state = d.init_state /\ e.sent = d.sent /\ e.keys = d.keys
<1>1. PICK q : q = [d.cmd_queue EXCEPT ![d.queue_min] = cmd]
  OBVIOUS
<1>2. q \in [Slots -> Command] /\ q[d.queue_min] = cmd
  BY <1>1 DEF Driver
<1>3. e = [d EXCEPT !.cmd_queue = q]
  BY <1>1
<1> QED BY <1>2, <1>3 DEF Driver, Current

\* send_byte leaves the queue and the stage alone.
LEMMA SendByteEffect ==
  ASSUME NEW d \in Driver, d.sent = <<>>, NEW byte \in Codes \cup Arguments,
         NEW e, e = SendByte(d, byte)
  PROVE  /\ e \in Driver /\ e.sent = <<byte>> /\ Current(e) = Current(d)
         /\ e.queue_min = d.queue_min /\ e.queue_count = d.queue_count
         /\ e.init_state = d.init_state /\ e.keys = d.keys
<1>1. PICK sent : sent = <<byte>>
  OBVIOUS
<1>2. sent \in Seq(Codes \cup Arguments) /\ Append(<<>>, byte) = sent
  BY <1>1
<1>3. e = [d EXCEPT !.sent = sent]
  BY <1>2 DEF SendByte
<1> QED BY <1>1, <1>2, <1>3 DEF Driver, Current

\* What one byte of the keyboard may do to the driver, from d to e.
Decodes(d, b, e) ==
  /\ d.queue_count = 0 \/ (~IsAnswer(b) /\ ~Current(d).acknowledged)
  /\ e.queue_count = d.queue_count /\ e.init_state = d.init_state
  /\ e.cmd_queue = d.cmd_queue /\ e.queue_min = d.queue_min
  /\ e.sent = <<>> /\ e.keys = <<b>>

SendsAgain(d, b, e) ==
  /\ d.queue_count = 1 /\ e.queue_count = 1 /\ b = RESPONSE_RESEND
  /\ e.init_state = d.init_state
  /\ Current(e).sub_sent = Current(d).sub_sent
  /\ Current(e).acknowledged = Current(d).acknowledged
  /\ e.sent = <<Current(d).code>> /\ e.keys = <<>>

SendsArgument(d, b, e) ==
  /\ d.queue_count = 1 /\ e.queue_count = 1 /\ b = RESPONSE_ACK
  /\ e.init_state = d.init_state /\ d.init_state \in {"SET_SCAN_SET_2", "GET_SCAN_SET"}
  /\ ~Current(d).sub_sent /\ Current(e).sub_sent /\ ~Current(e).acknowledged
  /\ e.sent = <<Current(d).subcommand>> /\ e.keys = <<>>

WaitsForResponse(d, b, e) ==
  /\ d.queue_count = 1 /\ e.queue_count = 1 /\ b = RESPONSE_ACK
  /\ e.init_state = d.init_state /\ d.init_state = "GET_SCAN_SET"
  /\ Current(d).sub_sent /\ Current(e).sub_sent /\ Current(e).acknowledged
  /\ e.sent = <<>> /\ e.keys = <<>>

\* The command is done: by an acknowledgement, or by what stands for its response.
IsDone(d, b) ==
  /\ d.queue_count = 1
  /\ IF d.init_state = "GET_SCAN_SET" /\ b # RESPONSE_RESEND
       THEN ~IsAnswer(b) /\ Current(d).acknowledged
       ELSE IsAnswer(b)

Stops(d, b, e) ==
  /\ IsDone(d, b)
  /\ e.queue_count = 0
  /\ e.init_state = "INITIALIZED" => d.init_state = "ENABLE_SCAN" /\ b = RESPONSE_ACK
  /\ e.sent = <<>> /\ e.keys = <<>>

GoesOn(d, b, e) ==
  /\ IsDone(d, b) /\ b # RESPONSE_RESEND
  /\ d.init_state # "ENABLE_SCAN"
  /\ d.init_state = "GET_SCAN_SET" => b.value = 2
  /\ e.queue_count = 1 /\ e.init_state = Stage(d.init_state).next
  /\ Current(e) = Stage(d.init_state).cmd
  /\ e.sent = <<Stage(d.init_state).cmd.code>> /\ e.keys = <<>>

Outcome(d, b, e) ==
  \/ Decodes(d, b, e) \/ SendsAgain(d, b, e) \/ SendsArgument(d, b, e)
  \/ WaitsForResponse(d, b, e) \/ Stops(d, b, e) \/ GoesOn(d, b, e)

\* The command at the head is a command.
LEMMA CurrentTyped ==
  ASSUME NEW d \in Driver
  PROVE  /\ Current(d) \in Command
         /\ Current(d).code \in Codes \cup Arguments
         /\ Current(d).subcommand \in Arguments \cup {NoArgument}
         /\ Current(d).has_response \in BOOLEAN /\ Current(d).sub_sent \in BOOLEAN
         /\ Current(d).acknowledged \in BOOLEAN /\ Current(d).resend_count \in Nat
<1>1. Current(d) \in Command
  BY DEF Current, Driver
<1> QED BY <1>1, CommandAssumption DEF Command

\* A request to resend sends the byte again, or stops the initialisation.
LEMMA OnResendEffect ==
  ASSUME NEW d, QueueInv(d), d.queue_count = 1, d.sent = <<>>, d.keys = <<>>,
         NEW e, e = OnResend(d)
  PROVE  QueueInv(e) /\ (SendsAgain(d, RESPONSE_RESEND, e) \/ Stops(d, RESPONSE_RESEND, e))
<1>1. d \in Driver /\ d.init_state \in Stages /\ IsStageCommand(d.init_state, Current(d))
  BY DEF QueueInv
<1>2. PICK cmd : cmd = Current(d)
  OBVIOUS
<1>3. /\ cmd \in Command /\ cmd.code \in Codes \cup Arguments
      /\ cmd.resend_count \in Nat /\ cmd.resend_count <= MaxResends
      /\ cmd.sub_sent => cmd.subcommand \in Arguments
  BY <1>1, <1>2, CurrentTyped DEF IsStageCommand
<1>4. PICK new : new = [cmd EXCEPT !.code = IF cmd.sub_sent THEN cmd.subcommand ELSE @,
                                   !.resend_count = @ + 1]
  OBVIOUS
<1>5. PICK code : code = IF cmd.sub_sent THEN cmd.subcommand ELSE cmd.code
  OBVIOUS
<1>6. /\ new \in Command
      /\ new.code = IF cmd.sub_sent THEN cmd.subcommand ELSE cmd.code
      /\ new.resend_count = cmd.resend_count + 1
      /\ new.subcommand = cmd.subcommand /\ new.has_response = cmd.has_response
      /\ new.sub_sent = cmd.sub_sent /\ new.acknowledged = cmd.acknowledged
  <2>1. code \in Codes \cup Arguments
    BY <1>3, <1>5
  <2>2. cmd.resend_count + 1 \in 0..MaxResends + 1
    BY <1>3, CommandAssumption
  <2>3. new = [cmd EXCEPT !.code = code, !.resend_count = cmd.resend_count + 1]
    BY <1>4, <1>5
  <2>4. /\ new \in Command /\ new.code = code
        /\ new.resend_count = cmd.resend_count + 1
        /\ new.subcommand = cmd.subcommand /\ new.has_response = cmd.has_response
        /\ new.sub_sent = cmd.sub_sent /\ new.acknowledged = cmd.acknowledged
    BY <1>3, <2>1, <2>2, <2>3 DEF Command
  <2> QED BY <1>5, <2>4
<1>7. PICK f : f = [d EXCEPT !.cmd_queue[d.queue_min] = new]
  OBVIOUS
<1>8. /\ f \in Driver /\ Current(f) = new
      /\ f.queue_min = d.queue_min /\ f.queue_count = 1
      /\ f.init_state = d.init_state /\ f.sent = <<>> /\ f.keys = <<>>
  BY <1>1, <1>6, <1>7, CurrentUpdate
<1>9. e = IF cmd.resend_count < MaxResends
            THEN SendByte(f, cmd.code) ELSE Complete(f, FALSE, 0)
  BY <1>2, <1>4, <1>7 DEF OnResend
<1>10. CASE cmd.resend_count < MaxResends
  <2>1. e = SendByte(f, cmd.code)
    BY <1>9, <1>10
  <2>2. /\ e \in Driver /\ e.sent = <<cmd.code>> /\ Current(e) = new
        /\ e.queue_count = 1 /\ e.init_state = d.init_state /\ e.keys = <<>>
    BY <1>3, <1>8, <2>1, SendByteEffect
  <2>3. IsStageCommand(d.init_state, new)
    <3>1. new.resend_count <= MaxResends
      BY <1>3, <1>6, <1>10, CommandAssumption
    <3>2. cmd.sub_sent => cmd.subcommand \in BytesOf(d.init_state)
      BY <1>1, <1>2, <1>3 DEF IsStageCommand, BytesOf, Stages, Arguments, NoArgument
    <3>3. IsStageCommand(d.init_state, cmd)
      BY <1>1, <1>2
    <3> QED BY <1>6, <3>1, <3>2, <3>3 DEF IsStageCommand
  <2> QED BY <1>1, <1>2, <1>6, <2>2, <2>3 DEF QueueInv, SendsAgain
<1>11. CASE ~(cmd.resend_count < MaxResends)
  <2>1. e = Complete(f, FALSE, 0)
    BY <1>9, <1>11
  <2>2. /\ e \in Driver /\ e.keys = <<>> /\ e.queue_count = 0 /\ e.sent = <<>>
        /\ e.init_state # "INITIALIZED"
    <3>1. f.init_state \in Stages /\ FALSE \in BOOLEAN
      BY <1>1, <1>8
    <3>2. PICK success \in BOOLEAN : success = FALSE
      BY <3>1
    <3>3. e = Complete(f, success, 0)
      BY <2>1, <3>2
    <3> QED BY <1>8, <3>1, <3>2, <3>3, CompleteEffect
  <2>3. IsAnswer(RESPONSE_RESEND)
    BY DEF IsAnswer
  <2> QED BY <2>2, <2>3 DEF QueueInv, Stops, IsDone
<1> QED BY <1>10, <1>11

\* An acknowledgement sends the argument, waits for the response, or completes the command.
LEMMA OnAckEffect ==
  ASSUME NEW d, QueueInv(d), d.queue_count = 1, d.sent = <<>>, d.keys = <<>>,
         ~Current(d).acknowledged,
         NEW e, e = OnAck(d)
  PROVE  /\ QueueInv(e)
         /\ \/ SendsArgument(d, RESPONSE_ACK, e) \/ WaitsForResponse(d, RESPONSE_ACK, e)
            \/ Stops(d, RESPONSE_ACK, e) \/ GoesOn(d, RESPONSE_ACK, e)
<1>1. d \in Driver /\ d.init_state \in Stages /\ IsStageCommand(d.init_state, Current(d))
  BY DEF QueueInv
<1>2. PICK cmd : cmd = Current(d)
  OBVIOUS
<1>3. /\ cmd \in Command /\ cmd.resend_count \in Nat
      /\ IsStageCommand(d.init_state, cmd) /\ ~cmd.acknowledged
  BY <1>1, <1>2, CurrentTyped
<1>4. CASE cmd.subcommand # NoArgument /\ ~cmd.sub_sent
  <2>1. PICK new : new = [cmd EXCEPT !.sub_sent = TRUE, !.resend_count = 0]
    OBVIOUS
  <2>2. /\ new \in Command /\ new.code = cmd.code /\ new.subcommand = cmd.subcommand
        /\ new.has_response = cmd.has_response /\ new.sub_sent
        /\ ~new.acknowledged /\ new.resend_count = 0
    <3>1. 0 \in 0..MaxResends + 1
      BY CommandAssumption
    <3>2. /\ new \in Command /\ new.code = cmd.code /\ new.subcommand = cmd.subcommand
          /\ new.has_response = cmd.has_response /\ new.sub_sent = TRUE
          /\ new.acknowledged = cmd.acknowledged /\ new.resend_count = 0
      BY <1>3, <2>1, <3>1 DEF Command
    <3> QED BY <1>3, <3>2
  <2>3. PICK f : f = [d EXCEPT !.cmd_queue[d.queue_min] = new]
    OBVIOUS
  <2>4. /\ f \in Driver /\ Current(f) = new
        /\ f.queue_count = 1
        /\ f.init_state = d.init_state /\ f.sent = <<>> /\ f.keys = <<>>
    BY <1>1, <2>2, <2>3, CurrentUpdate
  <2>5. e = SendByte(f, cmd.subcommand)
    BY <1>2, <1>4, <2>1, <2>3 DEF OnAck
  <2>6. d.init_state \in {"SET_SCAN_SET_2", "GET_SCAN_SET"} /\ cmd.subcommand \in Arguments
    BY <1>1, <1>3, <1>4 DEF IsStageCommand, Stages, Arguments
  <2>7. /\ e \in Driver /\ e.sent = <<cmd.subcommand>> /\ Current(e) = new
        /\ e.queue_count = 1 /\ e.init_state = d.init_state /\ e.keys = <<>>
    BY <2>4, <2>5, <2>6, SendByteEffect
  <2>8. IsStageCommand(d.init_state, new)
    BY <1>3, <2>2, <2>6, CommandAssumption DEF IsStageCommand
  <2> QED BY <1>1, <1>2, <1>4, <2>2, <2>6, <2>7, <2>8 DEF QueueInv, SendsArgument
<1>5. PICK new : new = [cmd EXCEPT !.acknowledged = TRUE]
  OBVIOUS
<1>6. /\ new \in Command /\ new.code = cmd.code /\ new.subcommand = cmd.subcommand
      /\ new.has_response = cmd.has_response /\ new.sub_sent = cmd.sub_sent
      /\ new.acknowledged /\ new.resend_count = cmd.resend_count
  BY <1>3, <1>5 DEF Command
<1>7. PICK f : f = [d EXCEPT !.cmd_queue[d.queue_min] = new]
  OBVIOUS
<1>8. /\ f \in Driver /\ Current(f) = new
      /\ f.queue_count = 1
      /\ f.init_state = d.init_state /\ f.sent = <<>> /\ f.keys = <<>>
  BY <1>1, <1>6, <1>7, CurrentUpdate
<1>9. f = [d EXCEPT !.cmd_queue[d.queue_min].acknowledged = TRUE]
  BY <1>2, <1>5, <1>7 DEF Current
<1>10. CASE (cmd.subcommand = NoArgument \/ cmd.sub_sent) /\ cmd.has_response
  <2>1. e = f
    BY <1>2, <1>9, <1>10 DEF OnAck
  <2>2. d.init_state = "GET_SCAN_SET" /\ cmd.sub_sent
    BY <1>3, <1>10 DEF IsStageCommand, NoArgument
  <2>3. IsStageCommand(d.init_state, new)
    BY <1>3, <1>6, <1>10, <2>2 DEF IsStageCommand
  <2> QED BY <1>1, <1>2, <1>6, <1>8, <2>1, <2>2, <2>3 DEF QueueInv, WaitsForResponse
<1>11. CASE (cmd.subcommand = NoArgument \/ cmd.sub_sent) /\ ~cmd.has_response
  <2>1. PICK success \in BOOLEAN : success = TRUE
    OBVIOUS
  <2>2. e = Complete(f, success, 0)
    BY <1>2, <1>9, <1>11, <2>1 DEF OnAck
  <2>3. d.init_state # "GET_SCAN_SET"
    BY <1>3, <1>11 DEF IsStageCommand
  <2>4. /\ e \in Driver /\ e.keys = <<>>
        /\ \/ /\ e.queue_count = 0 /\ e.sent = <<>>
              /\ e.init_state = "INITIALIZED" => d.init_state = "ENABLE_SCAN"
           \/ /\ e.queue_count = 1 /\ d.init_state # "ENABLE_SCAN"
              /\ e.init_state = Stage(d.init_state).next
              /\ Current(e) = Stage(d.init_state).cmd
              /\ e.sent = <<Stage(d.init_state).cmd.code>>
    BY <1>1, <1>8, <2>2, CompleteEffect
  <2>5. IsDone(d, RESPONSE_ACK) /\ RESPONSE_ACK # RESPONSE_RESEND
    BY <2>3 DEF IsDone, IsAnswer, RESPONSE_ACK, RESPONSE_RESEND
  <2>6. CASE e.queue_count = 0
    BY <2>4, <2>5, <2>6 DEF QueueInv, Stops
  <2>7. CASE e.queue_count # 0
    <3>1. d.init_state \in Stages \ {"ENABLE_SCAN"}
      BY <1>1, <2>4, <2>7
    <3>2. /\ Stage(d.init_state).next \in Stages
          /\ IsStageCommand(Stage(d.init_state).next, Stage(d.init_state).cmd)
      BY <3>1, StageOfStages
    <3> QED BY <2>3, <2>4, <2>5, <2>7, <3>2 DEF QueueInv, GoesOn
  <2> QED BY <2>6, <2>7
<1> QED BY <1>3, <1>4, <1>10, <1>11 DEF Command

\* Every byte the keyboard sends has one of the outcomes above.
LEMMA OnKeyboardSendByteEffect ==
  ASSUME NEW d, QueueInv(d), d.sent = <<>>, d.keys = <<>>,
         NEW b \in BytesOfKeyboard,
         d.queue_count = 1 /\ IsAnswer(b) => ~Current(d).acknowledged,
         NEW e, e = OnKeyboardSendByte(d, b)
  PROVE  QueueInv(e) /\ Outcome(d, b, e)
<1>1. d \in Driver
  BY DEF QueueInv
<1>2. ASSUME NEW f, f = OnKeyPressed(d, b)
      PROVE  /\ f \in Driver /\ f.keys = <<b>> /\ f.sent = <<>>
             /\ f.cmd_queue = d.cmd_queue /\ f.queue_min = d.queue_min
             /\ f.queue_count = d.queue_count /\ f.init_state = d.init_state
  <2>1. PICK keys : keys = <<b>>
    OBVIOUS
  <2>2. keys \in Seq(BytesOfKeyboard) /\ Append(<<>>, b) = keys
    BY <2>1
  <2>3. f = [d EXCEPT !.keys = keys]
    BY <1>2, <2>2 DEF OnKeyPressed
  <2> QED BY <1>1, <2>1, <2>2, <2>3 DEF Driver, Current
<1>3. CASE d.queue_count = 0
  <2>1. e = OnKeyPressed(d, b)
    BY <1>3 DEF OnKeyboardSendByte
  <2> QED BY <1>2, <1>3, <2>1 DEF QueueInv, Outcome, Decodes, Current
<1>4. CASE d.queue_count = 1 /\ b = RESPONSE_RESEND
  <2>1. e = OnResend(d)
    <3>1. b # RESPONSE_ACK
      BY <1>4 DEF RESPONSE_ACK, RESPONSE_RESEND
    <3> QED BY <1>4, <3>1 DEF OnKeyboardSendByte
  <2> QED BY <1>4, <2>1, OnResendEffect DEF Outcome
<1>5. CASE d.queue_count = 1 /\ b = RESPONSE_ACK
  <2>1. b # RESPONSE_RESEND /\ IsAnswer(b)
    BY <1>5 DEF RESPONSE_ACK, RESPONSE_RESEND, IsAnswer
  <2>2. e = OnAck(d)
    BY <1>5, <2>1 DEF OnKeyboardSendByte
  <2> QED BY <1>5, <2>1, <2>2, OnAckEffect DEF Outcome
<1>6. CASE d.queue_count = 1 /\ ~IsAnswer(b) /\ ~Current(d).acknowledged
  <2>1. e = OnKeyPressed(d, b)
    BY <1>6 DEF OnKeyboardSendByte, IsAnswer
  <2> QED BY <1>2, <1>6, <2>1 DEF QueueInv, Outcome, Decodes, Current
<1>7. CASE d.queue_count = 1 /\ ~IsAnswer(b) /\ Current(d).acknowledged
  <2>1. PICK success \in BOOLEAN : success = TRUE
    OBVIOUS
  <2>2. e = Complete(d, success, b.value)
    <3>1. b # RESPONSE_RESEND /\ b # RESPONSE_ACK
      BY <1>7 DEF IsAnswer
    <3>2. e = Complete(d, TRUE, b.value)
      BY <1>7, <3>1 DEF OnKeyboardSendByte
    <3> QED BY <2>1, <3>2
  <2>3. d.init_state \in Stages /\ d.init_state = "GET_SCAN_SET"
    BY <1>7 DEF QueueInv, IsStageCommand
  <2>4. /\ e \in Driver /\ e.keys = <<>>
        /\ \/ /\ e.queue_count = 0 /\ e.sent = <<>>
              /\ e.init_state = "INITIALIZED" => d.init_state = "ENABLE_SCAN"
           \/ /\ e.queue_count = 1
              /\ b.value = 2
              /\ e.init_state = Stage(d.init_state).next
              /\ Current(e) = Stage(d.init_state).cmd
              /\ e.sent = <<Stage(d.init_state).cmd.code>>
    BY <1>1, <1>7, <2>2, <2>3, CompleteEffect
  <2>5. IsDone(d, b) /\ b # RESPONSE_RESEND
    BY <1>7, <2>3 DEF IsDone, IsAnswer
  <2>6. CASE e.queue_count = 0
    BY <2>3, <2>4, <2>5, <2>6 DEF QueueInv, Stops, Outcome
  <2>7. CASE e.queue_count # 0
    <3>1. d.init_state \in Stages \ {"ENABLE_SCAN"}
      BY <2>3
    <3>2. /\ Stage(d.init_state).next \in Stages
          /\ IsStageCommand(Stage(d.init_state).next, Stage(d.init_state).cmd)
      BY <3>1, StageOfStages
    <3> QED BY <2>3, <2>4, <2>5, <2>7, <3>2 DEF QueueInv, GoesOn, Outcome
  <2> QED BY <2>6, <2>7
<1> QED BY <1>3, <1>4, <1>5, <1>6, <1>7 DEF QueueInv, IsAnswer

-----------------------------------------------------------------------------
(* The invariant holds at first, and every step keeps it.                  *)

\* The step ends, and what it sent is on the line or given up on.
LEMMA SettleEffect ==
  ASSUME NEW e \in Driver, Settle(e), TypeOK
  PROVE  /\ driver' \in Driver /\ driver'.sent = <<>> /\ driver'.keys = <<>>
         /\ driver'.cmd_queue = e.cmd_queue /\ driver'.queue_min = e.queue_min
         /\ driver'.queue_count = e.queue_count /\ driver'.init_state = e.init_state
         /\ Current(driver') = Current(e)
         /\ pressed' \in Seq(BytesOfKeyboard)
         /\ toKeyboard' \in Seq(Codes \cup Arguments)
         /\ toKeyboard' \in {toKeyboard, toKeyboard \o e.sent}
         /\ lost' \in 0..MaxLost
<1>1. driver' = [e EXCEPT !.sent = <<>>, !.keys = <<>>]
  BY DEF Settle
<1>2. PICK none : none = <<>>
  OBVIOUS
<1>3. none \in Seq(Codes \cup Arguments) /\ none \in Seq(BytesOfKeyboard)
  BY <1>2
<1>4. driver' = [e EXCEPT !.sent = none, !.keys = none]
  BY <1>1, <1>2
<1>5. /\ driver' \in Driver /\ driver'.sent = none /\ driver'.keys = none
      /\ driver'.cmd_queue = e.cmd_queue /\ driver'.queue_min = e.queue_min
      /\ driver'.queue_count = e.queue_count /\ driver'.init_state = e.init_state
  BY <1>3, <1>4 DEF Driver
<1>6. e.sent \in Seq(Codes \cup Arguments) /\ e.keys \in Seq(BytesOfKeyboard)
  BY DEF Driver
<1>7. pressed' \in Seq(BytesOfKeyboard)
  BY <1>6, ConcatProperties DEF Settle, TypeOK
<1>8. toKeyboard \o e.sent \in Seq(Codes \cup Arguments)
  BY <1>6, ConcatProperties DEF TypeOK
<1>9. toKeyboard' \in {toKeyboard, toKeyboard \o e.sent}
  BY DEF Settle
<1>10. lost' \in 0..MaxLost
  BY CommandAssumption DEF Settle, TypeOK
<1> QED BY <1>2, <1>5, <1>7, <1>8, <1>9, <1>10 DEF Current, TypeOK

\* The invariant holds before kbd_initialize.
LEMMA CommandsInit == Init => CommandsInv
<1> SUFFICES ASSUME Init PROVE CommandsInv
  OBVIOUS
<1>1. PICK cmd : cmd = NewCommand(CMD_DISABLE_SCAN, NoArgument, FALSE)
  OBVIOUS
<1>2. cmd \in Command
  BY <1>1, NewCommandTyped DEF Codes
<1>3. PICK queue, none : queue = [i \in Slots |-> cmd] /\ none = <<>>
  OBVIOUS
<1>4. /\ queue \in [Slots -> Command] /\ 0 \in Slots /\ 0 \in 0..MaxCommands
      /\ none \in Seq(Codes \cup Arguments) /\ none \in Seq(BytesOfKeyboard)
      /\ "INIT_START" \in InitState
  BY <1>2, <1>3, CommandAssumption DEF Slots, InitState
<1>5. driver = [cmd_queue |-> queue, queue_min |-> 0, queue_count |-> 0,
                init_state |-> "INIT_START", initialized |-> FALSE,
                sent |-> none, keys |-> none]
  BY <1>1, <1>3 DEF Init, Slots
<1>6. driver \in Driver
  BY <1>4, <1>5 DEF Driver
<1>7. /\ driver.queue_count = 0 /\ driver.queue_min = 0 /\ driver.init_state = "INIT_START"
      /\ driver.sent = <<>> /\ driver.keys = <<>>
  BY <1>3, <1>5
<1>8. toDriver = <<>> /\ toKeyboard = <<>> /\ Len(toDriver) = 0 /\ Len(toKeyboard) = 0
  BY DEF Init
<1>9. TypeOK
  <2>1. /\ pressed = none /\ toKeyboard = none /\ toDriver = none /\ main = "setup"
        /\ typed = 0 /\ garbled = 0 /\ lost = 0
    BY <1>3 DEF Init
  <2>2. keyboard \in [scanning : BOOLEAN, set : 1..3, knowsSet2 : BOOLEAN, awaiting : BOOLEAN]
    BY CommandAssumption DEF Init
  <2>3. 0 \in 0..MaxKeys /\ 0 \in 0..MaxGarbled /\ 0 \in 0..MaxLost
    BY CommandAssumption
  <2> QED BY <1>4, <1>6, <1>7, <2>1, <2>2, <2>3 DEF TypeOK, Driver, Slots
<1>10. QueueInv(driver) /\ OneByteAtATime
  BY <1>6, <1>7, <1>8 DEF QueueInv, OneByteAtATime
<1>11. LineInv
  BY <1>7, <1>8 DEF LineInv, Init, Pending
<1>12. KeyboardInv /\ InitializedMeansSet2
  BY <1>7, <1>8
  DEF KeyboardInv, ResponseAwaited, NoKeysAfterDisable, NoKeysMeanwhile, Set2Enabled,
      InitializedMeansSet2
<1> QED BY <1>7, <1>9, <1>10, <1>11, <1>12 DEF CommandsInv

\* The steps of the main program, from setting up the queue to its first byte.
LEMMA MainKeeps == CommandsInv /\ Main => CommandsInv'
<1> SUFFICES ASSUME CommandsInv, Main PROVE CommandsInv'
  OBVIOUS
<1>1. /\ driver \in Driver /\ QueueInv(driver) /\ TypeOK /\ OneByteAtATime
      /\ LineInv /\ ResponseAwaited /\ NoKeysAfterDisable /\ NoKeysMeanwhile
      /\ Set2Enabled /\ InitializedMeansSet2
      /\ driver.sent = <<>> /\ driver.keys = <<>>
      /\ driver.init_state = "INITIALIZED" => driver.queue_count = 0
  BY DEF CommandsInv, QueueInv, TypeOK, KeyboardInv
<1>2. CASE MainSetup
  <2>1. /\ driver.queue_count = 0 /\ driver.queue_min = 0 /\ main = "setup"
        /\ driver.init_state = "INIT_START"
    BY <1>1, <1>2 DEF LineInv, MainSetup
  <2>2. PICK cmd : cmd = NewCommand(CMD_DISABLE_SCAN, NoArgument, FALSE)
    OBVIOUS
  <2>3. cmd \in Command
    BY <2>2, NewCommandTyped DEF Codes
  <2>4. PICK f : f = [driver EXCEPT !.init_state = "DISABLE_SCAN"]
    OBVIOUS
  <2>5. /\ f \in Driver /\ f.queue_count = 0 /\ f.queue_min = 0
        /\ f.init_state = "DISABLE_SCAN" /\ f.sent = <<>> /\ f.keys = <<>>
    BY <1>1, <2>1, <2>4 DEF Driver, InitState
  <2>6. Stage("INIT_START").next = "DISABLE_SCAN" /\ Stage("INIT_START").cmd = cmd
    BY <2>2 DEF Stage
  <2>7. driver' = Enqueue(f, cmd)
    BY <1>2, <2>4, <2>6 DEF MainSetup
  <2>8. 0 = (f.queue_min + f.queue_count) % MaxCommands
    BY <2>5, CommandAssumption
  <2>9. /\ driver' \in Driver /\ driver'.cmd_queue[0] = cmd
        /\ driver'.queue_count = 0 /\ driver'.queue_min = 0
        /\ driver'.init_state = "DISABLE_SCAN" /\ driver'.sent = <<>> /\ driver'.keys = <<>>
    BY <2>3, <2>5, <2>7, <2>8, EnqueueEffect
  <2>10. /\ main' = "count" /\ pressed' = pressed /\ toKeyboard' = toKeyboard
         /\ toDriver' = toDriver /\ keyboard' = keyboard /\ typed' = typed
         /\ garbled' = garbled /\ lost' = lost
    BY <1>2 DEF MainSetup
  <2>11. TypeOK'
    BY <1>1, <2>9, <2>10 DEF TypeOK, Driver, Slots
  <2>12. QueueInv(driver)' /\ OneByteAtATime'
    BY <1>1, <2>9, <2>10 DEF QueueInv, OneByteAtATime
  <2>13. ~Pending
    BY <1>1, <2>1 DEF LineInv
  <2>14. LineInv'
    BY <2>2, <2>9, <2>10, <2>13 DEF LineInv, Pending
  <2>15. KeyboardInv' /\ InitializedMeansSet2'
    BY <1>1, <2>1, <2>9, <2>10
    DEF KeyboardInv, ResponseAwaited, NoKeysAfterDisable, NoKeysMeanwhile, Set2Enabled,
        InitializedMeansSet2
  <2> QED BY <2>9, <2>11, <2>12, <2>14, <2>15 DEF CommandsInv
<1>3. CASE MainCount
  <2>1. /\ driver.queue_count = 0 /\ driver.queue_min = 0 /\ main = "count"
        /\ driver.init_state = "DISABLE_SCAN"
        /\ driver.cmd_queue[0] = NewCommand(CMD_DISABLE_SCAN, NoArgument, FALSE)
    BY <1>1, <1>3 DEF LineInv, MainCount
  <2>2. driver' = [driver EXCEPT !.queue_count = 1]
    BY <1>3, <2>1 DEF MainCount
  <2>3. /\ driver' \in Driver /\ driver'.cmd_queue = driver.cmd_queue
        /\ driver'.queue_count = 1 /\ driver'.queue_min = 0
        /\ driver'.init_state = "DISABLE_SCAN" /\ driver'.sent = <<>> /\ driver'.keys = <<>>
    BY <1>1, <2>1, <2>2, CommandAssumption DEF Driver
  <2>4. /\ main' = "send" /\ pressed' = pressed /\ toKeyboard' = toKeyboard
        /\ toDriver' = toDriver /\ keyboard' = keyboard /\ typed' = typed
        /\ garbled' = garbled /\ lost' = lost
    BY <1>3 DEF MainCount
  <2>5. Current(driver') = NewCommand(CMD_DISABLE_SCAN, NoArgument, FALSE)
    BY <2>1, <2>3 DEF Current
  <2>6. IsStageCommand("DISABLE_SCAN", Current(driver'))
    BY <2>5, CommandAssumption
    DEF IsStageCommand, NewCommand, BytesOf, Arguments, CMD_DISABLE_SCAN
  <2>7. TypeOK'
    BY <1>1, <2>3, <2>4 DEF TypeOK, Driver, Slots
  <2>8. QueueInv(driver)' /\ OneByteAtATime'
    BY <1>1, <2>3, <2>4, <2>6 DEF QueueInv, OneByteAtATime, Stages
  <2>9. ~Pending
    BY <1>1, <2>1 DEF LineInv
  <2>10. LineInv'
    BY <2>3, <2>4, <2>9 DEF LineInv, Pending
  <2>11. KeyboardInv'
    <3>1. \A i \in 1..Len(toDriver) : toDriver[i] # RESPONSE_ACK
      BY <2>9 DEF Pending, IsAnswer
    <3>2. \A i \in 1..Len(toDriver) : toDriver[i].kind # "response"
      BY <1>1, <2>1 DEF ResponseAwaited
    <3> QED BY <2>3, <2>4, <3>1, <3>2
            DEF KeyboardInv, ResponseAwaited, NoKeysAfterDisable, NoKeysMeanwhile, Set2Enabled
  <2>12. InitializedMeansSet2'
    BY <2>3 DEF InitializedMeansSet2
  <2> QED BY <2>3, <2>7, <2>8, <2>10, <2>11, <2>12 DEF CommandsInv
<1>4. CASE MainSend
  <2>1. /\ driver.queue_count = 1 /\ main = "send" /\ ~Pending
        /\ driver.init_state = "DISABLE_SCAN"
    BY <1>1, <1>4 DEF LineInv, MainSend
  <2>2. PICK byte : byte = Current(driver).code
    OBVIOUS
  <2>3. byte \in Codes \cup Arguments /\ byte \in BytesOf("DISABLE_SCAN")
    BY <1>1, <2>1, <2>2, CurrentTyped DEF QueueInv, IsStageCommand
  <2>4. PICK e : e = SendByte(driver, byte)
    OBVIOUS
  <2>5. /\ e \in Driver /\ e.sent = <<byte>> /\ Current(e) = Current(driver)
        /\ e.queue_count = 1 /\ e.init_state = "DISABLE_SCAN"
    BY <1>1, <2>1, <2>3, <2>4, SendByteEffect
  <2>6. /\ main' = "spin" /\ Settle(e)
        /\ toDriver' = toDriver /\ keyboard' = keyboard /\ typed' = typed
        /\ garbled' = garbled
    BY <1>4, <2>2, <2>4 DEF MainSend
  <2>7. /\ driver' \in Driver /\ driver'.sent = <<>> /\ driver'.keys = <<>>
        /\ driver'.queue_count = 1 /\ driver'.init_state = "DISABLE_SCAN"
        /\ Current(driver') = Current(driver)
        /\ pressed' \in Seq(BytesOfKeyboard)
        /\ toKeyboard' \in Seq(Codes \cup Arguments)
        /\ toKeyboard' \in {toKeyboard, toKeyboard \o e.sent}
        /\ lost' \in 0..MaxLost
    BY <1>1, <2>5, <2>6, SettleEffect
  <2>8. toKeyboard = <<>> /\ \A i \in 1..Len(toDriver) : ~IsAnswer(toDriver[i])
    BY <2>1 DEF Pending
  <2>9. toKeyboard' \in {<<>>, <<byte>>}
    <3>1. <<>> \o <<byte>> = <<byte>>
      OBVIOUS
    <3> QED BY <2>5, <2>7, <2>8, <3>1
  <2>10. Len(toKeyboard') <= 1 /\ (toKeyboard' # <<>> => toKeyboard'[1] = byte)
    BY <2>9
  <2>11. IsStageCommand("DISABLE_SCAN", Current(driver')) /\ ~Current(driver').acknowledged
    BY <1>1, <2>1, <2>7 DEF QueueInv, IsStageCommand
  <2>12. TypeOK'
    BY <1>1, <2>6, <2>7 DEF TypeOK, Driver, Slots
  <2>13. QueueInv(driver)' /\ OneByteAtATime'
    BY <2>6, <2>7, <2>8, <2>10, <2>11 DEF QueueInv, OneByteAtATime, Stages
  <2>14. LineInv'
    <3>1. byte \in Arguments => Current(driver').sub_sent
      BY <2>2, <2>7, <2>11 DEF IsStageCommand
    <3> QED BY <2>3, <2>6, <2>7, <2>10, <2>11, <3>1 DEF LineInv, Pending
  <2>15. KeyboardInv'
    <3>1. \A i \in 1..Len(toDriver) : toDriver[i] # RESPONSE_ACK
      BY <2>8 DEF IsAnswer
    <3>2. \A i \in 1..Len(toDriver) : toDriver[i].kind # "response"
      BY <1>1, <2>1 DEF ResponseAwaited
    <3> QED BY <2>6, <2>7, <3>1, <3>2
            DEF KeyboardInv, ResponseAwaited, NoKeysAfterDisable, NoKeysMeanwhile, Set2Enabled
  <2>16. InitializedMeansSet2'
    BY <2>7 DEF InitializedMeansSet2
  <2> QED BY <2>7, <2>12, <2>13, <2>14, <2>15, <2>16 DEF CommandsInv
<1>5. CASE MainLeaves
  <2>1. /\ main = "spin" /\ main' = "done" /\ driver' = driver /\ pressed' = pressed
        /\ toKeyboard' = toKeyboard /\ toDriver' = toDriver /\ keyboard' = keyboard
        /\ typed' = typed /\ garbled' = garbled /\ lost' = lost
    BY <1>5 DEF MainLeaves
  <2>2. TypeOK'
    BY <1>1, <2>1 DEF TypeOK
  <2>3. QueueInv(driver)' /\ OneByteAtATime'
    BY <1>1, <2>1 DEF QueueInv, OneByteAtATime
  <2>4. LineInv'
    BY <1>1, <2>1 DEF LineInv, Pending
  <2>5. KeyboardInv' /\ InitializedMeansSet2'
    BY <1>1, <2>1
    DEF KeyboardInv, ResponseAwaited, NoKeysAfterDisable, NoKeysMeanwhile, Set2Enabled,
        InitializedMeansSet2
  <2> QED BY <1>1, <2>1, <2>2, <2>3, <2>4, <2>5 DEF CommandsInv
<1> QED BY <1>2, <1>3, <1>4, <1>5 DEF Main

\* The interrupt of the keyboard, whatever byte it brings.
LEMMA InterruptKeeps == CommandsInv /\ Interrupt => CommandsInv'
<1> SUFFICES ASSUME CommandsInv, Interrupt PROVE CommandsInv'
  OBVIOUS
<1>1. /\ driver \in Driver /\ QueueInv(driver) /\ TypeOK /\ OneByteAtATime
      /\ LineInv /\ ResponseAwaited /\ NoKeysAfterDisable /\ NoKeysMeanwhile
      /\ Set2Enabled /\ InitializedMeansSet2
      /\ driver.sent = <<>> /\ driver.keys = <<>>
      /\ driver.init_state = "INITIALIZED" => driver.queue_count = 0
  BY DEF CommandsInv, QueueInv, TypeOK, KeyboardInv
<1>2. PICK b, e : b = Head(toDriver) /\ e = OnKeyboardSendByte(driver, b)
  OBVIOUS
<1>3. /\ main' = main /\ keyboard' = keyboard /\ typed' = typed /\ garbled' = garbled
      /\ Settle(e)
  BY <1>2 DEF Interrupt
<1>4. /\ b \in BytesOfKeyboard /\ b = toDriver[1] /\ 1 \in 1..Len(toDriver)
      /\ toDriver' \in Seq(BytesOfKeyboard)
      /\ \A i \in 1..Len(toDriver') :
            i \in Nat \ {0} /\ i + 1 \in 1..Len(toDriver) /\ toDriver'[i] = toDriver[i + 1]
  <2>1. toDriver \in Seq(BytesOfKeyboard) /\ toDriver # <<>> /\ toDriver' = Tail(toDriver)
    BY <1>1 DEF TypeOK, Interrupt
  <2>2. /\ Head(toDriver) \in BytesOfKeyboard
        /\ Tail(toDriver) \in Seq(BytesOfKeyboard)
        /\ Len(Tail(toDriver)) = Len(toDriver) - 1
        /\ \A i \in 1..Len(Tail(toDriver)) : Tail(toDriver)[i] = toDriver[i + 1]
    BY <2>1, HeadTailProperties
  <2>3. Len(toDriver) \in Nat /\ Len(toDriver) # 0
    BY <2>1, LenProperties, EmptySeq
  <2>4. Head(toDriver) = toDriver[1]
    BY <2>1
  <2> QED BY <1>2, <2>1, <2>2, <2>3, <2>4
<1>5. QueueInv(e) /\ Outcome(driver, b, e)
  <2>1. IsAnswer(b) => Pending
    BY <1>4 DEF Pending
  <2>2. driver.queue_count = 1 /\ IsAnswer(b) => ~Current(driver).acknowledged
    BY <1>1, <2>1 DEF LineInv
  <2> QED BY <1>1, <1>2, <1>4, <2>2, OnKeyboardSendByteEffect
<1>6. /\ driver' \in Driver /\ driver'.sent = <<>> /\ driver'.keys = <<>>
      /\ driver'.cmd_queue = e.cmd_queue /\ driver'.queue_min = e.queue_min
      /\ driver'.queue_count = e.queue_count /\ driver'.init_state = e.init_state
      /\ Current(driver') = Current(e)
      /\ pressed' \in Seq(BytesOfKeyboard)
      /\ toKeyboard' \in Seq(Codes \cup Arguments)
      /\ toKeyboard' \in {toKeyboard, toKeyboard \o e.sent}
      /\ lost' \in 0..MaxLost
  BY <1>1, <1>3, <1>5, SettleEffect DEF QueueInv
<1>7. QueueInv(driver)'
  BY <1>5, <1>6 DEF QueueInv
<1>8. TypeOK'
  BY <1>1, <1>3, <1>4, <1>6 DEF TypeOK, Driver, Slots
<1>9. /\ \A i, j \in 1..Len(toDriver') :
            IsAnswer(toDriver'[i]) /\ IsAnswer(toDriver'[j]) => i = j
      /\ toKeyboard # <<>> => \A i \in 1..Len(toDriver') : ~IsAnswer(toDriver'[i])
      /\ Len(toKeyboard) <= 1
  <2>1. ASSUME NEW i \in 1..Len(toDriver'), NEW j \in 1..Len(toDriver'),
               IsAnswer(toDriver'[i]), IsAnswer(toDriver'[j])
        PROVE  i = j
    <3>1. i + 1 = j + 1
      BY <1>1, <1>4, <2>1 DEF OneByteAtATime
    <3> QED BY <1>4, <3>1
  <2> QED BY <1>1, <1>4, <2>1 DEF OneByteAtATime
\* What completes a command or sends a byte finds the line quiet.
<1> DEFINE Quiet == toKeyboard = <<>> /\ \A i \in 1..Len(toDriver') : ~IsAnswer(toDriver'[i])
<1>10. ASSUME IsAnswer(b) PROVE Quiet /\ main \in {"spin", "done"}
  <2>1. Pending
    BY <1>4, <1>10 DEF Pending
  <2>2. main \in {"spin", "done"}
    BY <1>1, <2>1 DEF LineInv, TypeOK
  <2>3. toKeyboard = <<>>
    BY <1>1, <1>4, <1>10 DEF OneByteAtATime
  <2>4. ASSUME NEW i \in 1..Len(toDriver'), IsAnswer(toDriver'[i]) PROVE FALSE
    <3>1. i + 1 = 1
      BY <1>1, <1>4, <1>10, <2>4 DEF OneByteAtATime
    <3> QED BY <1>4, <3>1
  <2> QED BY <2>2, <2>3, <2>4
<1>11. ASSUME driver.queue_count = 1, Current(driver).acknowledged
       PROVE  Quiet /\ main \in {"spin", "done"} /\ driver.init_state = "GET_SCAN_SET"
  <2>1. ~Pending
    BY <1>1, <1>11 DEF LineInv
  <2>2. driver.init_state = "GET_SCAN_SET"
    BY <1>1, <1>11 DEF QueueInv, IsStageCommand
  <2>3. main \in {"spin", "done"}
    BY <1>1, <1>11, <2>2 DEF LineInv, TypeOK
  <2> QED BY <1>4, <2>1, <2>2, <2>3 DEF Pending
<1>12. ASSUME NEW c, e.sent = <<c>>, Quiet
       PROVE  Len(toKeyboard') <= 1 /\ (toKeyboard' # <<>> => toKeyboard'[1] = c)
  <2>1. <<>> \o <<c>> = <<c>>
    OBVIOUS
  <2>2. toKeyboard' \in {<<>>, <<c>>}
    BY <1>6, <1>12, <2>1
  <2> QED BY <2>2
<1>13. ASSUME e.sent = <<>> PROVE toKeyboard' = toKeyboard
  <2>1. toKeyboard \in Seq(Codes \cup Arguments)
    BY <1>1 DEF TypeOK
  <2>2. toKeyboard \o <<>> = toKeyboard
    BY <2>1, ConcatEmptySeq
  <2> QED BY <1>6, <1>13, <2>2
<1> HIDE DEF Quiet
<1>14. CASE Decodes(driver, b, e)
  <2>1. /\ toKeyboard' = toKeyboard /\ driver'.queue_count = driver.queue_count
        /\ driver'.init_state = driver.init_state /\ driver'.queue_min = driver.queue_min
        /\ driver'.cmd_queue = driver.cmd_queue /\ Current(driver') = Current(driver)
    BY <1>6, <1>13, <1>14 DEF Decodes, Current
  <2>2. OneByteAtATime'
    BY <1>9, <2>1 DEF OneByteAtATime
  <2>3. Pending' => Pending
    BY <1>4, <2>1 DEF Pending
  <2>4. LineInv'
    BY <1>1, <1>3, <2>1, <2>3 DEF LineInv
  <2>5. KeyboardInv'
    <3>1. ResponseAwaited'
      <4> SUFFICES ASSUME NEW i \in 1..Len(toDriver'), toDriver'[i].kind = "response"
                   PROVE  /\ driver'.queue_count = 1 /\ driver'.init_state = "GET_SCAN_SET"
                          /\ Current(driver').sub_sent
                          /\ toDriver'[i].value = keyboard'.set /\ ~keyboard'.awaiting
                          /\ toKeyboard' = <<>>
                          /\ \A j \in 1..Len(toDriver') :
                               /\ toDriver'[j] # RESPONSE_RESEND
                               /\ toDriver'[j].kind = "response" => j = i
        BY DEF ResponseAwaited
      <4>1. /\ i + 1 \in 1..Len(toDriver) /\ toDriver[i + 1].kind = "response"
            /\ toDriver'[i] = toDriver[i + 1]
        BY <1>4
      <4>2. /\ driver.queue_count = 1 /\ driver.init_state = "GET_SCAN_SET"
            /\ Current(driver).sub_sent
            /\ toDriver[i + 1].value = keyboard.set /\ ~keyboard.awaiting
            /\ toKeyboard = <<>>
            /\ \A j \in 1..Len(toDriver) : /\ toDriver[j] # RESPONSE_RESEND
                                           /\ toDriver[j].kind = "response" => j = i + 1
        BY <1>1, <4>1 DEF ResponseAwaited
      <4>3. ASSUME NEW j \in 1..Len(toDriver')
            PROVE  /\ toDriver'[j] # RESPONSE_RESEND
                   /\ toDriver'[j].kind = "response" => j = i
        <5>1. j + 1 \in 1..Len(toDriver) /\ toDriver'[j] = toDriver[j + 1]
          BY <1>4
        <5>2. toDriver'[j].kind = "response" => j + 1 = i + 1
          BY <4>2, <5>1
        <5> QED BY <1>4, <4>2, <5>1, <5>2
      <4>4. toDriver'[i].value = keyboard'.set /\ ~keyboard'.awaiting
        BY <1>3, <4>1, <4>2
      <4>5. Current(driver').sub_sent
        BY <2>1, <4>2
      <4> QED BY <2>1, <4>2, <4>3, <4>4, <4>5
    <3>2. ASSUME driver.queue_count = 1, driver.init_state = "DISABLE_SCAN",
                 NEW i \in 1..Len(toDriver'), toDriver'[i] = RESPONSE_ACK
          PROVE  /\ ~keyboard.scanning
                 /\ \A j \in 1..Len(toDriver') : IsScancode(toDriver'[j]) => j < i
      <4>1. /\ ~keyboard.scanning
            /\ \A j \in 1..Len(toDriver) : IsScancode(toDriver[j]) => j < i + 1
        BY <1>1, <1>4, <3>2 DEF NoKeysAfterDisable
      <4>2. ASSUME NEW j \in 1..Len(toDriver'), IsScancode(toDriver'[j]) PROVE j < i
        <5>1. j + 1 < i + 1 /\ j \in Nat /\ i \in Nat
          BY <1>4, <4>1, <4>2
        <5> QED BY <5>1
      <4> QED BY <4>1, <4>2
    <3>3. ASSUME driver.queue_count = 1,
                 driver.init_state \in {"SET_SCAN_SET_2", "GET_SCAN_SET"}
          PROVE  ~keyboard.scanning /\ \A i \in 1..Len(toDriver') : ~IsScancode(toDriver'[i])
      BY <1>1, <1>4, <3>3 DEF NoKeysMeanwhile
    <3>4. ASSUME driver.queue_count = 1, driver.init_state = "ENABLE_SCAN"
          PROVE  /\ keyboard.set = 2 /\ ~keyboard.awaiting
                 /\ \A i \in 1..Len(toDriver') :
                      toDriver'[i] = RESPONSE_ACK => keyboard.scanning
      BY <1>1, <1>4, <3>4 DEF Set2Enabled
    <3>5. NoKeysAfterDisable'
      BY <1>3, <2>1, <3>2 DEF NoKeysAfterDisable
    <3>6. NoKeysMeanwhile' /\ Set2Enabled'
      BY <1>3, <2>1, <3>3, <3>4 DEF NoKeysMeanwhile, Set2Enabled
    <3> QED BY <3>1, <3>5, <3>6 DEF KeyboardInv
  <2>6. InitializedMeansSet2'
    BY <1>1, <1>3, <2>1 DEF InitializedMeansSet2
  <2> QED BY <1>1, <1>7, <1>8, <2>1, <2>2, <2>4, <2>5, <2>6 DEF CommandsInv
\* Every other outcome is of a command under way, on a quiet line.
<1>15. ASSUME ~Decodes(driver, b, e)
       PROVE  /\ Quiet /\ main' \in {"spin", "done"} /\ driver.queue_count = 1
              /\ driver.init_state \in Stages
  <2>1. driver.queue_count = 1
    BY <1>5, <1>15
    DEF Outcome, SendsAgain, SendsArgument, WaitsForResponse, Stops, GoesOn, IsDone
  <2>2. IsAnswer(b) \/ Current(driver).acknowledged
    BY <1>5, <1>15
    DEF Outcome, SendsAgain, SendsArgument, WaitsForResponse, Stops, GoesOn, IsDone, IsAnswer
  <2> QED BY <1>1, <1>3, <1>10, <1>11, <2>1, <2>2 DEF QueueInv
<1>16. ASSUME Quiet PROVE \A i \in 1..Len(toDriver') : toDriver'[i] # RESPONSE_ACK
  BY <1>16 DEF Quiet, IsAnswer
\* Nor is a response left, but to the command that waits for it.
<1>17. ASSUME ~Decodes(driver, b, e), ~WaitsForResponse(driver, b, e)
       PROVE  \A i \in 1..Len(toDriver') : toDriver'[i].kind # "response"
  <2> SUFFICES ASSUME NEW i \in 1..Len(toDriver'), toDriver'[i].kind = "response"
               PROVE  FALSE
    OBVIOUS
  <2>1. /\ i + 1 \in 1..Len(toDriver) /\ toDriver[i + 1].kind = "response"
        /\ i + 1 # 1
    BY <1>4
  <2>2. /\ driver.queue_count = 1 /\ driver.init_state = "GET_SCAN_SET"
        /\ Current(driver).sub_sent
        /\ \A j \in 1..Len(toDriver) : /\ toDriver[j] # RESPONSE_RESEND
                                       /\ toDriver[j].kind = "response" => j = i + 1
    BY <1>1, <2>1 DEF ResponseAwaited
  <2>3. b # RESPONSE_RESEND /\ b.kind # "response" /\ ~IsScancode(b)
    BY <1>1, <1>4, <2>1, <2>2 DEF ResponseAwaited, NoKeysMeanwhile
  <2>4. b = RESPONSE_ACK
    BY <1>4, <2>3, ByteKinds DEF IsScancode
  <2>5. ~IsDone(driver, b)
    BY <2>2, <2>3, <2>4 DEF IsDone, IsAnswer
  <2> QED BY <1>5, <1>17, <2>2, <2>3, <2>5
          DEF Outcome, SendsAgain, SendsArgument, Stops, GoesOn
<1>18. ASSUME driver.queue_count = 1,
              driver.init_state \in {"SET_SCAN_SET_2", "GET_SCAN_SET"}
       PROVE  ~keyboard.scanning /\ \A i \in 1..Len(toDriver') : ~IsScancode(toDriver'[i])
  BY <1>1, <1>4, <1>18 DEF NoKeysMeanwhile
<1>19. CASE SendsAgain(driver, b, e) /\ ~Decodes(driver, b, e)
  <2>1. /\ driver'.queue_count = 1 /\ driver'.init_state = driver.init_state
        /\ Current(driver').sub_sent = Current(driver).sub_sent
        /\ Current(driver').acknowledged = Current(driver).acknowledged
        /\ e.sent = <<Current(driver).code>> /\ IsAnswer(b)
    BY <1>6, <1>19 DEF SendsAgain, IsAnswer
  <2>2. ~Current(driver).acknowledged
    BY <1>1, <1>4, <2>1 DEF LineInv, Pending
  <2>3. Len(toKeyboard') <= 1 /\ (toKeyboard' # <<>> => toKeyboard'[1] = Current(driver).code)
    BY <1>12, <1>15, <1>19, <2>1
  <2>4. /\ Current(driver).code \in BytesOf(driver.init_state)
        /\ Current(driver).code \in Arguments => Current(driver).sub_sent
    BY <1>1, <1>15, <1>19 DEF QueueInv, IsStageCommand
  <2>5. OneByteAtATime'
    BY <1>15, <1>19, <2>3 DEF OneByteAtATime, Quiet
  <2>6. LineInv'
    BY <1>15, <1>19, <2>1, <2>2, <2>3, <2>4 DEF LineInv
  <2>7. ~WaitsForResponse(driver, b, e)
    BY <1>19 DEF SendsAgain, WaitsForResponse, RESPONSE_ACK, RESPONSE_RESEND
  <2>8. KeyboardInv'
    BY <1>1, <1>3, <1>15, <1>16, <1>17, <1>18, <1>19, <2>1, <2>7
    DEF KeyboardInv, ResponseAwaited, NoKeysAfterDisable, NoKeysMeanwhile, Set2Enabled
  <2>9. driver'.init_state # "INITIALIZED"
    BY <1>15, <1>19, <2>1 DEF Stages
  <2> QED BY <1>7, <1>8, <2>5, <2>6, <2>8, <2>9 DEF CommandsInv, InitializedMeansSet2
<1>20. CASE SendsArgument(driver, b, e) /\ ~Decodes(driver, b, e)
  <2>1. /\ driver'.queue_count = 1 /\ driver'.init_state = driver.init_state
        /\ driver.init_state \in {"SET_SCAN_SET_2", "GET_SCAN_SET"}
        /\ Current(driver').sub_sent /\ ~Current(driver').acknowledged
        /\ ~Current(driver).sub_sent
        /\ e.sent = <<Current(driver).subcommand>>
    BY <1>6, <1>20 DEF SendsArgument
  <2>2. Len(toKeyboard') <= 1 /\ (toKeyboard' # <<>> => toKeyboard'[1] = Current(driver).subcommand)
    BY <1>12, <1>15, <1>20, <2>1
  <2>3. Current(driver).subcommand \in BytesOf(driver.init_state)
    BY <1>1, <1>15, <1>20, <2>1 DEF QueueInv, IsStageCommand, BytesOf
  <2>4. OneByteAtATime'
    BY <1>15, <1>20, <2>2 DEF OneByteAtATime, Quiet
  <2>5. LineInv'
    BY <1>15, <1>20, <2>1, <2>2, <2>3 DEF LineInv
  <2>6. ~WaitsForResponse(driver, b, e)
    BY <2>1 DEF WaitsForResponse
  <2>7. KeyboardInv'
    BY <1>3, <1>15, <1>16, <1>17, <1>18, <1>20, <2>1, <2>6
    DEF KeyboardInv, ResponseAwaited, NoKeysAfterDisable, NoKeysMeanwhile, Set2Enabled
  <2>8. driver'.init_state # "INITIALIZED"
    BY <2>1
  <2> QED BY <1>7, <1>8, <2>4, <2>5, <2>7, <2>8 DEF CommandsInv, InitializedMeansSet2
<1>21. CASE WaitsForResponse(driver, b, e) /\ ~Decodes(driver, b, e)
  <2>1. /\ driver'.queue_count = 1 /\ driver'.init_state = "GET_SCAN_SET"
        /\ driver.init_state = "GET_SCAN_SET"
        /\ Current(driver').sub_sent /\ toKeyboard' = toKeyboard
    BY <1>6, <1>13, <1>21 DEF WaitsForResponse
  <2>2. toKeyboard' = <<>> /\ \A i \in 1..Len(toDriver') : ~IsAnswer(toDriver'[i])
    BY <1>15, <1>21, <2>1 DEF Quiet
  <2>3. OneByteAtATime' /\ ~Pending'
    BY <2>2 DEF OneByteAtATime, Pending
  <2>4. LineInv'
    BY <1>15, <1>21, <2>2, <2>3 DEF LineInv
  <2>5. ResponseAwaited'
    <3> SUFFICES ASSUME NEW i \in 1..Len(toDriver'), toDriver'[i].kind = "response"
                 PROVE  /\ driver'.queue_count = 1 /\ driver'.init_state = "GET_SCAN_SET"
                        /\ Current(driver').sub_sent
                        /\ toDriver'[i].value = keyboard'.set /\ ~keyboard'.awaiting
                        /\ toKeyboard' = <<>>
                        /\ \A j \in 1..Len(toDriver') :
                             /\ toDriver'[j] # RESPONSE_RESEND
                             /\ toDriver'[j].kind = "response" => j = i
      BY DEF ResponseAwaited
    <3>1. i + 1 \in 1..Len(toDriver) /\ toDriver'[i] = toDriver[i + 1] /\ i \in Nat
      BY <1>4
    <3>2. /\ toDriver[i + 1].value = keyboard.set /\ ~keyboard.awaiting
          /\ \A j \in 1..Len(toDriver) : /\ toDriver[j] # RESPONSE_RESEND
                                         /\ toDriver[j].kind = "response" => j = i + 1
      BY <1>1, <3>1 DEF ResponseAwaited
    <3>3. ASSUME NEW j \in 1..Len(toDriver')
          PROVE  /\ toDriver'[j] # RESPONSE_RESEND
                 /\ toDriver'[j].kind = "response" => j = i
      <4>1. j + 1 \in 1..Len(toDriver) /\ toDriver'[j] = toDriver[j + 1] /\ j \in Nat
        BY <1>4
      <4>2. toDriver'[j].kind = "response" => j + 1 = i + 1
        BY <3>2, <4>1
      <4> QED BY <3>1, <3>2, <4>1, <4>2
    <3>4. toDriver'[i].value = keyboard'.set /\ ~keyboard'.awaiting
      BY <1>3, <3>1, <3>2
    <3> QED BY <2>1, <2>2, <3>3, <3>4
  <2>6. KeyboardInv'
    <3>1. ~keyboard'.scanning /\ \A i \in 1..Len(toDriver') : ~IsScancode(toDriver'[i])
      BY <1>3, <1>15, <1>18, <1>21, <2>1
    <3>2. NoKeysAfterDisable' /\ NoKeysMeanwhile' /\ Set2Enabled'
      BY <2>1, <3>1 DEF NoKeysAfterDisable, NoKeysMeanwhile, Set2Enabled
    <3> QED BY <2>5, <3>2 DEF KeyboardInv
  <2> QED BY <1>7, <1>8, <2>1, <2>3, <2>4, <2>6 DEF CommandsInv, InitializedMeansSet2
<1>22. CASE Stops(driver, b, e) /\ ~Decodes(driver, b, e)
  <2>1. /\ driver'.queue_count = 0 /\ toKeyboard' = toKeyboard
        /\ driver'.init_state = "INITIALIZED" =>
             driver.init_state = "ENABLE_SCAN" /\ b = RESPONSE_ACK
    BY <1>6, <1>13, <1>22 DEF Stops
  <2>2. toKeyboard' = <<>> /\ \A i \in 1..Len(toDriver') : ~IsAnswer(toDriver'[i])
    BY <1>15, <1>22, <2>1 DEF Quiet
  <2>3. OneByteAtATime' /\ ~Pending'
    BY <2>2 DEF OneByteAtATime, Pending
  <2>4. LineInv'
    BY <1>15, <1>22, <2>2, <2>3 DEF LineInv
  <2>5. ~WaitsForResponse(driver, b, e)
    BY <1>6, <2>1 DEF WaitsForResponse
  <2>6. KeyboardInv'
    BY <1>15, <1>17, <1>22, <2>1, <2>5
    DEF KeyboardInv, ResponseAwaited, NoKeysAfterDisable, NoKeysMeanwhile, Set2Enabled
  <2>7. InitializedMeansSet2'
    BY <1>1, <1>3, <1>4, <1>15, <1>22, <2>1 DEF InitializedMeansSet2, Set2Enabled
  <2> QED BY <1>7, <1>8, <2>1, <2>3, <2>4, <2>6, <2>7 DEF CommandsInv
<1>23. CASE GoesOn(driver, b, e) /\ ~Decodes(driver, b, e)
  <2>1. PICK state, cmd : /\ state = Stage(driver.init_state).next
                          /\ cmd = Stage(driver.init_state).cmd
    OBVIOUS
  <2>2. /\ driver'.queue_count = 1 /\ driver'.init_state = state
        /\ Current(driver') = cmd /\ e.sent = <<cmd.code>>
        /\ driver.init_state # "ENABLE_SCAN"
        /\ driver.init_state = "GET_SCAN_SET" => b.value = 2
    BY <1>6, <1>23, <2>1 DEF GoesOn
  <2>3. driver.init_state \in Stages \ {"ENABLE_SCAN"}
    BY <1>15, <1>23, <2>2
  <2>4. /\ state \in Stages /\ ~cmd.acknowledged /\ IsStageCommand(state, cmd)
        /\ state = CASE driver.init_state = "DISABLE_SCAN" -> "SET_SCAN_SET_2"
                      [] driver.init_state = "SET_SCAN_SET_2" -> "GET_SCAN_SET"
                      [] driver.init_state = "GET_SCAN_SET" -> "ENABLE_SCAN"
    <3>1. /\ state \in Stages /\ ~cmd.acknowledged /\ IsStageCommand(state, cmd)
      BY <2>1, <2>3, StageOfStages
    <3>2. state = CASE driver.init_state = "DISABLE_SCAN" -> "SET_SCAN_SET_2"
                    [] driver.init_state = "SET_SCAN_SET_2" -> "GET_SCAN_SET"
                    [] driver.init_state = "GET_SCAN_SET" -> "ENABLE_SCAN"
      BY <2>1, <2>3 DEF Stage, Stages
    <3> QED BY <3>1, <3>2
  <2>5. Len(toKeyboard') <= 1 /\ (toKeyboard' # <<>> => toKeyboard'[1] = cmd.code)
    BY <1>12, <1>15, <1>23, <2>2
  <2>6. cmd.code \in BytesOf(state) /\ (cmd.code \in Arguments => cmd.sub_sent)
    BY <2>4 DEF IsStageCommand
  <2>7. OneByteAtATime'
    BY <1>15, <1>23, <2>5 DEF OneByteAtATime, Quiet
  <2>8. LineInv'
    BY <1>15, <1>23, <2>2, <2>4, <2>5, <2>6 DEF LineInv
  <2>9. \A i \in 1..Len(toDriver') : toDriver'[i].kind # "response"
    <3>1. ~WaitsForResponse(driver, b, e)
      BY <1>23 DEF GoesOn, IsDone, WaitsForResponse, IsAnswer
    <3> QED BY <1>17, <1>23, <3>1
  <2>10. \A i \in 1..Len(toDriver') : toDriver'[i] # RESPONSE_ACK
    BY <1>15, <1>16, <1>23
  <2>11. ASSUME state \in {"SET_SCAN_SET_2", "GET_SCAN_SET"}
         PROVE  ~keyboard.scanning /\ \A i \in 1..Len(toDriver') : ~IsScancode(toDriver'[i])
    <3>1. CASE driver.init_state = "SET_SCAN_SET_2"
      BY <1>15, <1>18, <1>23, <3>1
    <3>2. CASE driver.init_state = "DISABLE_SCAN"
      <4>1. b = RESPONSE_ACK
        BY <1>23, <3>2 DEF GoesOn, IsDone, IsAnswer
      <4>2. /\ ~keyboard.scanning
            /\ \A j \in 1..Len(toDriver) : IsScancode(toDriver[j]) => j < 1
        BY <1>1, <1>4, <1>15, <1>23, <3>2, <4>1 DEF NoKeysAfterDisable
      <4>3. ASSUME NEW i \in 1..Len(toDriver'), IsScancode(toDriver'[i]) PROVE FALSE
        <5>1. i + 1 < 1 /\ i \in Nat
          BY <1>4, <4>2, <4>3
        <5> QED BY <5>1
      <4> QED BY <4>2, <4>3
    <3>3. driver.init_state # "GET_SCAN_SET"
      BY <2>4, <2>11
    <3> QED BY <2>3, <3>1, <3>2, <3>3 DEF Stages
  <2>12. ASSUME state = "ENABLE_SCAN"
         PROVE  keyboard.set = 2 /\ ~keyboard.awaiting
    <3>1. driver.init_state = "GET_SCAN_SET"
      BY <2>3, <2>4, <2>12 DEF Stages
    <3>2. ~IsAnswer(b) /\ b.value = 2
      BY <1>23, <2>2, <3>1 DEF GoesOn, IsDone
    <3>3. ~IsScancode(b)
      BY <1>1, <1>4, <1>15, <1>23, <3>1 DEF NoKeysMeanwhile
    <3>4. b.kind = "response"
      BY <1>4, <3>2, <3>3, ByteKinds DEF IsScancode
    <3>5. toDriver[1].value = keyboard.set /\ ~keyboard.awaiting
      BY <1>1, <1>4, <3>4 DEF ResponseAwaited
    <3> QED BY <1>4, <3>2, <3>5
  <2>13. KeyboardInv'
    BY <1>3, <2>2, <2>9, <2>10, <2>11, <2>12
    DEF KeyboardInv, ResponseAwaited, NoKeysAfterDisable, NoKeysMeanwhile, Set2Enabled
  <2>14. driver'.init_state # "INITIALIZED"
    BY <2>2, <2>4 DEF Stages
  <2> QED BY <1>7, <1>8, <2>7, <2>8, <2>13, <2>14 DEF CommandsInv, InitializedMeansSet2
<1> QED BY <1>5, <1>14, <1>19, <1>20, <1>21, <1>22, <1>23 DEF Outcome

\* The answers of the keyboard, each of one byte but for the set it tells.
LEMMA KeyboardAnswersKeep == CommandsInv /\ KeyboardAnswers => CommandsInv'
<1> SUFFICES ASSUME CommandsInv, KeyboardAnswers PROVE CommandsInv'
  OBVIOUS
<1>1. /\ driver \in Driver /\ QueueInv(driver) /\ TypeOK /\ OneByteAtATime
      /\ LineInv /\ ResponseAwaited /\ NoKeysAfterDisable /\ NoKeysMeanwhile
      /\ Set2Enabled
  BY DEF CommandsInv, QueueInv, KeyboardInv
<1>2. PICK c, bytes : c = toKeyboard[1] /\ Answer(bytes)
                      /\ \/ TakesCommand /\ bytes = <<RESPONSE_ACK>>
                         \/ TakesSet /\ bytes = <<RESPONSE_ACK>>
                         \/ TellsSet /\ bytes = <<RESPONSE_ACK, Response(keyboard.set)>>
                         \/ AsksAgain /\ bytes = <<RESPONSE_RESEND>>
  BY DEF KeyboardAnswers, TakesCommand, TakesSet, TellsSet, AsksAgain
<1>3. /\ toKeyboard # <<>> /\ toDriver' = toDriver \o bytes
      /\ driver' = driver /\ main' = main /\ pressed' = pressed /\ typed' = typed
      /\ lost' = lost
  BY <1>2 DEF Answer
<1>4. c = Head(toKeyboard) /\ toKeyboard' = <<>>
  <2>1. toKeyboard \in Seq(Codes \cup Arguments) /\ Len(toKeyboard) <= 1
    BY <1>1 DEF TypeOK, OneByteAtATime
  <2>2. /\ toKeyboard' = Tail(toKeyboard)
        /\ Tail(toKeyboard) \in Seq(Codes \cup Arguments)
        /\ Len(Tail(toKeyboard)) = Len(toKeyboard) - 1
    BY <1>2, <1>3, <2>1, HeadTailProperties DEF Answer
  <2>3. Len(toKeyboard) \in Nat /\ Len(Tail(toKeyboard)) \in Nat
    BY <2>1, <2>2, LenProperties
  <2>4. Len(Tail(toKeyboard)) = 0
    BY <2>1, <2>2, <2>3
  <2>5. Tail(toKeyboard) = <<>>
    BY <2>2, <2>4, EmptySeq
  <2>6. Head(toKeyboard) = toKeyboard[1]
    BY <2>1
  <2> QED BY <1>2, <2>2, <2>5, <2>6
<1>5. /\ driver.queue_count = 1 /\ ~Current(driver).acknowledged
      /\ driver.init_state \in Stages
      /\ main \in {"spin", "done"}
      /\ c \in BytesOf(driver.init_state)
      /\ c \in Arguments => Current(driver).sub_sent
  <2>1. Pending
    BY <1>3 DEF Pending
  <2>2. driver.queue_count = 1 /\ ~Current(driver).acknowledged
    BY <1>1, <2>1 DEF LineInv
  <2>3. main \in {"spin", "done"}
    BY <1>1, <2>1, <2>2 DEF LineInv, TypeOK
  <2> QED BY <1>1, <1>2, <1>3, <2>2, <2>3 DEF LineInv, QueueInv
<1>6. PICK n \in Nat : n = Len(toDriver)
  BY <1>1, LenProperties DEF TypeOK
<1>7. \A i \in 1..n : /\ toDriver[i] # RESPONSE_ACK /\ toDriver[i] # RESPONSE_RESEND
                      /\ toDriver[i].kind # "response" /\ ~IsAnswer(toDriver[i])
  BY <1>1, <1>3, <1>6 DEF OneByteAtATime, ResponseAwaited, IsAnswer
<1>8. /\ RESPONSE_ACK \in BytesOfKeyboard /\ RESPONSE_RESEND \in BytesOfKeyboard
      /\ Response(keyboard.set) \in BytesOfKeyboard
  <2>1. keyboard.set \in 1..3
    BY <1>1 DEF TypeOK
  <2> QED BY <2>1 DEF BytesOfKeyboard
\* What does not depend on the answer but for its being the only one.
<1>9. ASSUME toDriver' \in Seq(BytesOfKeyboard),
             \A i \in 1..Len(toDriver') :
               \/ i \in 1..n /\ toDriver'[i] = toDriver[i]
               \/ i = n + 1
               \/ ~IsAnswer(toDriver'[i]),
             keyboard' \in [scanning : BOOLEAN, set : 1..3, knowsSet2 : BOOLEAN,
                            awaiting : BOOLEAN],
             garbled' \in 0..MaxGarbled
      PROVE  /\ QueueInv(driver)' /\ TypeOK' /\ OneByteAtATime' /\ LineInv'
             /\ InitializedMeansSet2' /\ driver'.init_state # "INITIALIZED"
  <2>1. \A i \in 1..Len(toDriver') : IsAnswer(toDriver'[i]) => i = n + 1
    BY <1>7, <1>9
  <2>2. OneByteAtATime'
    BY <1>4, <2>1 DEF OneByteAtATime
  <2>3. LineInv'
    BY <1>3, <1>4, <1>5 DEF LineInv
  <2>4. TypeOK'
    <3>1. toKeyboard' \in Seq(Codes \cup Arguments)
      BY <1>4
    <3> QED BY <1>1, <1>3, <1>9, <3>1 DEF TypeOK
  <2>5. QueueInv(driver)'
    BY <1>1, <1>3 DEF QueueInv
  <2>6. driver'.init_state # "INITIALIZED"
    BY <1>3, <1>5 DEF Stages
  <2> QED BY <2>2, <2>3, <2>4, <2>5, <2>6 DEF InitializedMeansSet2
<1>10. ASSUME NEW answer \in BytesOfKeyboard, bytes = <<answer>>
       PROVE  /\ toDriver' \in Seq(BytesOfKeyboard)
              /\ Len(toDriver') = n + 1
              /\ \A i \in 1..Len(toDriver') : i \in 1..n \/ i = n + 1
              /\ \A i \in 1..n : toDriver'[i] = toDriver[i]
              /\ toDriver'[n + 1] = answer
  <2>1. bytes \in Seq(BytesOfKeyboard) /\ Len(bytes) = 1 /\ bytes[1] = answer
    BY <1>10
  <2>2. toDriver \in Seq(BytesOfKeyboard)
    BY <1>1 DEF TypeOK
  <2> QED BY <1>3, <1>6, <2>1, <2>2, ConcatProperties
<1>11. CASE AsksAgain /\ bytes = <<RESPONSE_RESEND>>
  <2>1. keyboard' = keyboard /\ garbled' \in 0..MaxGarbled
    BY <1>1, <1>11, CommandAssumption DEF AsksAgain, TypeOK
  <2>2. /\ toDriver' \in Seq(BytesOfKeyboard)
        /\ \A i \in 1..Len(toDriver') : i \in 1..n \/ i = n + 1
        /\ \A i \in 1..n : toDriver'[i] = toDriver[i]
        /\ toDriver'[n + 1] = RESPONSE_RESEND
    BY <1>8, <1>10, <1>11
  <2>3. /\ QueueInv(driver)' /\ TypeOK' /\ OneByteAtATime' /\ LineInv'
        /\ InitializedMeansSet2' /\ driver'.init_state # "INITIALIZED"
    BY <1>1, <1>9, <2>1, <2>2 DEF TypeOK
  <2>4. ASSUME NEW i \in 1..Len(toDriver')
        PROVE  /\ toDriver'[i].kind # "response" /\ toDriver'[i] # RESPONSE_ACK
               /\ IsScancode(toDriver'[i]) => i \in 1..n /\ IsScancode(toDriver[i])
    <3>1. CASE i = n + 1
      BY <2>2, <3>1 DEF RESPONSE_RESEND, RESPONSE_ACK, IsScancode
    <3>2. CASE i \in 1..n
      BY <1>7, <2>2, <3>2
    <3> QED BY <2>2, <3>1, <3>2
  <2>5. ResponseAwaited' /\ NoKeysAfterDisable' /\ Set2Enabled'
    BY <1>1, <1>3, <2>1, <2>4 DEF ResponseAwaited, NoKeysAfterDisable, Set2Enabled
  <2>6. NoKeysMeanwhile'
    BY <1>1, <1>3, <1>6, <2>1, <2>4 DEF NoKeysMeanwhile
  <2> QED BY <2>3, <2>5, <2>6 DEF CommandsInv, KeyboardInv
<1>12. CASE (TakesCommand \/ TakesSet) /\ bytes = <<RESPONSE_ACK>>
  <2>1. /\ keyboard' \in [scanning : BOOLEAN, set : 1..3, knowsSet2 : BOOLEAN,
                           awaiting : BOOLEAN]
        /\ c = CMD_DISABLE_SCAN => ~keyboard'.scanning
        /\ c \in {CMD_SCAN_CODE_SET, "2", "0"} => keyboard'.scanning = keyboard.scanning
        /\ c = CMD_ENABLE_SCAN => /\ keyboard'.scanning /\ ~keyboard'.awaiting
                                  /\ keyboard'.set = keyboard.set
        /\ garbled' = garbled
    <3>1. keyboard \in [scanning : BOOLEAN, set : 1..3, knowsSet2 : BOOLEAN, awaiting : BOOLEAN]
      BY <1>1 DEF TypeOK
    <3>2. CASE TakesSet
      <4>1. PICK set \in 1..3 : keyboard' = [keyboard EXCEPT !.awaiting = FALSE, !.set = set]
        <5>1. (IF keyboard.knowsSet2 THEN 2 ELSE keyboard.set) \in 1..3
          BY <3>1
        <5> QED BY <3>2, <5>1 DEF TakesSet
      <4>2. c = "2" /\ garbled' = garbled
        BY <1>4, <3>2 DEF TakesSet
      <4> QED BY <3>1, <4>1, <4>2 DEF CMD_DISABLE_SCAN, CMD_ENABLE_SCAN
    <3>3. CASE TakesCommand
      <4>1. c \in Codes /\ garbled' = garbled
        BY <1>4, <3>3 DEF TakesCommand
      <4>2. keyboard' = CASE c = CMD_SCAN_CODE_SET -> [keyboard EXCEPT !.awaiting = TRUE]
                          [] c = CMD_ENABLE_SCAN ->
                               [keyboard EXCEPT !.awaiting = FALSE, !.scanning = TRUE]
                          [] c = CMD_DISABLE_SCAN ->
                               [keyboard EXCEPT !.awaiting = FALSE, !.scanning = FALSE]
        BY <1>4, <3>3 DEF TakesCommand
      <4>3. CASE c = CMD_SCAN_CODE_SET
        <5>1. keyboard' = [keyboard EXCEPT !.awaiting = TRUE]
          BY <4>2, <4>3 DEF CMD_SCAN_CODE_SET, CMD_ENABLE_SCAN, CMD_DISABLE_SCAN
        <5> QED BY <3>1, <4>1, <4>3, <5>1
                DEF CMD_SCAN_CODE_SET, CMD_ENABLE_SCAN, CMD_DISABLE_SCAN
      <4>4. CASE c = CMD_ENABLE_SCAN
        <5>1. keyboard' = [keyboard EXCEPT !.awaiting = FALSE, !.scanning = TRUE]
          BY <4>2, <4>4 DEF CMD_SCAN_CODE_SET, CMD_ENABLE_SCAN, CMD_DISABLE_SCAN
        <5> QED BY <3>1, <4>1, <4>4, <5>1
                DEF CMD_SCAN_CODE_SET, CMD_ENABLE_SCAN, CMD_DISABLE_SCAN
      <4>5. CASE c = CMD_DISABLE_SCAN
        <5>1. keyboard' = [keyboard EXCEPT !.awaiting = FALSE, !.scanning = FALSE]
          BY <4>2, <4>5 DEF CMD_SCAN_CODE_SET, CMD_ENABLE_SCAN, CMD_DISABLE_SCAN
        <5> QED BY <3>1, <4>1, <4>5, <5>1
                DEF CMD_SCAN_CODE_SET, CMD_ENABLE_SCAN, CMD_DISABLE_SCAN
      <4> QED BY <4>1, <4>3, <4>4, <4>5 DEF Codes
    <3> QED BY <1>12, <3>2, <3>3
  <2>2. /\ toDriver' \in Seq(BytesOfKeyboard)
        /\ \A i \in 1..Len(toDriver') : i \in 1..n \/ i = n + 1
        /\ \A i \in 1..n : toDriver'[i] = toDriver[i]
        /\ toDriver'[n + 1] = RESPONSE_ACK
    BY <1>8, <1>10, <1>12
  <2>3. /\ QueueInv(driver)' /\ TypeOK' /\ OneByteAtATime' /\ LineInv'
        /\ InitializedMeansSet2' /\ driver'.init_state # "INITIALIZED"
    BY <1>1, <1>9, <2>1, <2>2 DEF TypeOK
  <2>4. ASSUME NEW i \in 1..Len(toDriver')
        PROVE  /\ toDriver'[i].kind # "response" /\ (toDriver'[i] = RESPONSE_ACK => i = n + 1)
               /\ IsScancode(toDriver'[i]) => i \in 1..n /\ IsScancode(toDriver[i])
    <3>1. CASE i = n + 1
      BY <2>2, <3>1 DEF RESPONSE_ACK, IsScancode
    <3>2. CASE i \in 1..n
      BY <1>7, <2>2, <3>2
    <3> QED BY <2>2, <3>1, <3>2
  <2>5. ResponseAwaited'
    BY <2>4 DEF ResponseAwaited
  <2>6. NoKeysAfterDisable'
    <3>1. driver.init_state = "DISABLE_SCAN" => c = CMD_DISABLE_SCAN
      BY <1>5 DEF BytesOf
    <3> QED BY <1>3, <1>6, <2>1, <2>4, <3>1 DEF NoKeysAfterDisable
  <2>7. NoKeysMeanwhile'
    <3>1. driver.init_state \in {"SET_SCAN_SET_2", "GET_SCAN_SET"} =>
            c \in {CMD_SCAN_CODE_SET, "2", "0"}
      BY <1>5 DEF BytesOf
    <3> QED BY <1>1, <1>3, <1>6, <2>1, <2>4, <3>1 DEF NoKeysMeanwhile
  <2>8. Set2Enabled'
    <3>1. driver.init_state = "ENABLE_SCAN" => c = CMD_ENABLE_SCAN
      BY <1>5 DEF BytesOf
    <3> QED BY <1>1, <1>3, <1>5, <2>1, <3>1 DEF Set2Enabled
  <2> QED BY <2>3, <2>5, <2>6, <2>7, <2>8 DEF CommandsInv, KeyboardInv
<1>13. CASE TellsSet /\ bytes = <<RESPONSE_ACK, Response(keyboard.set)>>
  <2>1. /\ c = "0" /\ garbled' = garbled
        /\ keyboard' \in [scanning : BOOLEAN, set : 1..3, knowsSet2 : BOOLEAN,
                           awaiting : BOOLEAN]
        /\ keyboard'.scanning = keyboard.scanning /\ ~keyboard'.awaiting
        /\ keyboard'.set = keyboard.set
    <3>1. keyboard \in [scanning : BOOLEAN, set : 1..3, knowsSet2 : BOOLEAN, awaiting : BOOLEAN]
      BY <1>1 DEF TypeOK
    <3>2. c = "0" /\ garbled' = garbled /\ keyboard' = [keyboard EXCEPT !.awaiting = FALSE]
      BY <1>4, <1>13 DEF TellsSet
    <3> QED BY <3>1, <3>2
  <2>2. driver.init_state = "GET_SCAN_SET" /\ Current(driver).sub_sent
    BY <1>5, <2>1
    DEF BytesOf, Stages, Arguments, CMD_SCAN_CODE_SET, CMD_ENABLE_SCAN, CMD_DISABLE_SCAN
  <2>3. PICK response : response = Response(keyboard.set)
    OBVIOUS
  <2>4. /\ response.kind = "response" /\ response.value = keyboard.set
        /\ response \in BytesOfKeyboard /\ response # RESPONSE_RESEND
        /\ ~IsAnswer(response)
    BY <1>8, <2>3 DEF Response, RESPONSE_ACK, RESPONSE_RESEND, IsAnswer
  <2>5. /\ toDriver' \in Seq(BytesOfKeyboard)
        /\ \A i \in 1..Len(toDriver') : i \in 1..n \/ i = n + 1 \/ i = n + 2
        /\ \A i \in 1..n : toDriver'[i] = toDriver[i]
        /\ toDriver'[n + 1] = RESPONSE_ACK /\ toDriver'[n + 2] = response
    <3>1. /\ bytes \in Seq(BytesOfKeyboard) /\ Len(bytes) = 2
          /\ bytes[1] = RESPONSE_ACK /\ bytes[2] = response
      BY <1>8, <1>13, <2>3
    <3>2. toDriver \in Seq(BytesOfKeyboard)
      BY <1>1 DEF TypeOK
    <3>3. /\ toDriver' \in Seq(BytesOfKeyboard) /\ Len(toDriver') = n + 2
          /\ \A i \in 1..n + 2 :
                toDriver'[i] = IF i <= n THEN toDriver[i] ELSE bytes[i - n]
      <4>1. PICK new : new = toDriver \o bytes
        OBVIOUS
      <4>2. /\ new \in Seq(BytesOfKeyboard) /\ Len(new) = Len(toDriver) + Len(bytes)
            /\ \A i \in 1..Len(toDriver) + Len(bytes) :
                  new[i] = IF i <= Len(toDriver) THEN toDriver[i] ELSE bytes[i - Len(toDriver)]
        BY <3>1, <3>2, <4>1, ConcatProperties
      <4>3. Len(toDriver) = n /\ Len(bytes) = 2 /\ toDriver' = new
        BY <1>3, <1>6, <3>1, <4>1
      <4> QED BY <4>2, <4>3
    <3>4. toDriver'[n + 1] = bytes[1] /\ toDriver'[n + 2] = bytes[2]
      <4>1. (n + 1) - n = 1 /\ (n + 2) - n = 2
        OBVIOUS
      <4> QED BY <3>3, <4>1
    <3> QED BY <3>1, <3>3, <3>4
  <2>6. /\ QueueInv(driver)' /\ TypeOK' /\ OneByteAtATime' /\ LineInv'
        /\ InitializedMeansSet2' /\ driver'.init_state # "INITIALIZED"
    BY <1>1, <1>9, <2>1, <2>4, <2>5 DEF TypeOK
  <2>7. ASSUME NEW i \in 1..Len(toDriver')
        PROVE  /\ toDriver'[i] # RESPONSE_RESEND
               /\ toDriver'[i].kind = "response" => i = n + 2
               /\ IsScancode(toDriver'[i]) => i \in 1..n /\ IsScancode(toDriver[i])
    <3>1. CASE i = n + 1
      BY <2>5, <3>1 DEF RESPONSE_ACK, RESPONSE_RESEND, IsScancode
    <3>2. CASE i = n + 2
      BY <2>4, <2>5, <3>2 DEF IsScancode
    <3>3. CASE i \in 1..n
      BY <1>7, <2>5, <3>3
    <3> QED BY <2>5, <3>1, <3>2, <3>3
  <2>8. ResponseAwaited'
    <3> SUFFICES ASSUME NEW i \in 1..Len(toDriver'), toDriver'[i].kind = "response"
                 PROVE  /\ driver'.queue_count = 1 /\ driver'.init_state = "GET_SCAN_SET"
                        /\ Current(driver').sub_sent
                        /\ toDriver'[i].value = keyboard'.set /\ ~keyboard'.awaiting
                        /\ toKeyboard' = <<>>
                        /\ \A j \in 1..Len(toDriver') :
                             /\ toDriver'[j] # RESPONSE_RESEND
                             /\ toDriver'[j].kind = "response" => j = i
      BY DEF ResponseAwaited
    <3>1. i = n + 2
      BY <2>7
    <3>2. toDriver'[i].value = keyboard'.set /\ ~keyboard'.awaiting
      BY <2>1, <2>4, <2>5, <3>1
    <3> QED BY <1>3, <1>4, <1>5, <2>2, <2>7, <3>1, <3>2
  <2>9. NoKeysMeanwhile'
    BY <1>1, <1>3, <1>6, <2>1, <2>7 DEF NoKeysMeanwhile
  <2>10. NoKeysAfterDisable' /\ Set2Enabled'
    BY <1>3, <2>2 DEF NoKeysAfterDisable, Set2Enabled
  <2> QED BY <2>6, <2>8, <2>9, <2>10 DEF CommandsInv, KeyboardInv
<1> QED BY <1>2, <1>11, <1>12, <1>13

\* A key hit while the keyboard scans.
LEMMA ScancodeKeeps == CommandsInv /\ SendsScancode => CommandsInv'
<1> SUFFICES ASSUME CommandsInv, SendsScancode PROVE CommandsInv'
  OBVIOUS
<1>1. /\ driver \in Driver /\ QueueInv(driver) /\ TypeOK /\ OneByteAtATime
      /\ LineInv /\ ResponseAwaited /\ NoKeysAfterDisable /\ NoKeysMeanwhile
      /\ Set2Enabled /\ InitializedMeansSet2
      /\ driver.init_state = "INITIALIZED" => driver.queue_count = 0
  BY DEF CommandsInv, QueueInv, KeyboardInv
<1>2. /\ keyboard.scanning /\ typed < MaxKeys /\ typed' = typed + 1
      /\ toDriver' = Append(toDriver, Scancode(typed + 1))
      /\ driver' = driver /\ main' = main /\ pressed' = pressed /\ keyboard' = keyboard
      /\ toKeyboard' = toKeyboard /\ garbled' = garbled /\ lost' = lost
  BY DEF SendsScancode
<1>3. PICK key : key = Scancode(typed + 1)
  OBVIOUS
<1>4. typed + 1 \in 1..MaxKeys /\ typed + 1 \in 0..MaxKeys
  BY <1>1, <1>2, CommandAssumption DEF TypeOK
<1>5. /\ key \in BytesOfKeyboard /\ key.kind = "key" /\ ~IsAnswer(key)
      /\ key # RESPONSE_ACK /\ key # RESPONSE_RESEND
  BY <1>3, <1>4 DEF BytesOfKeyboard, Scancode, IsAnswer, RESPONSE_ACK, RESPONSE_RESEND
<1>6. PICK n \in Nat : n = Len(toDriver)
  BY <1>1, LenProperties DEF TypeOK
<1>7. /\ toDriver' \in Seq(BytesOfKeyboard)
      /\ \A i \in 1..Len(toDriver') : i \in 1..n \/ i = n + 1
      /\ \A i \in 1..n : toDriver'[i] = toDriver[i]
      /\ toDriver'[n + 1] = key
  BY <1>1, <1>2, <1>3, <1>5, <1>6, AppendProperties DEF TypeOK
<1>8. ASSUME NEW i \in 1..Len(toDriver'), toDriver'[i] # key
      PROVE  i \in 1..Len(toDriver) /\ toDriver'[i] = toDriver[i]
  BY <1>6, <1>7, <1>8
<1>9. \A i \in 1..Len(toDriver') : IsAnswer(toDriver'[i]) =>
        i \in 1..Len(toDriver) /\ toDriver'[i] = toDriver[i]
  BY <1>5, <1>8
<1>10. TypeOK' /\ QueueInv(driver)'
  BY <1>1, <1>2, <1>4, <1>7 DEF TypeOK, QueueInv
<1>11. OneByteAtATime'
  <2>1. ASSUME NEW i \in 1..Len(toDriver'), NEW j \in 1..Len(toDriver'),
               IsAnswer(toDriver'[i]), IsAnswer(toDriver'[j])
        PROVE  i = j
    BY <1>1, <1>9, <2>1 DEF OneByteAtATime
  <2>2. ASSUME toKeyboard # <<>>, NEW i \in 1..Len(toDriver')
        PROVE  ~IsAnswer(toDriver'[i])
    BY <1>1, <1>9, <2>2 DEF OneByteAtATime
  <2> QED BY <1>1, <1>2, <2>1, <2>2 DEF OneByteAtATime
<1>12. LineInv'
  <2>1. Pending' => Pending
    <3> SUFFICES ASSUME NEW i \in 1..Len(toDriver'), IsAnswer(toDriver'[i])
                 PROVE  \E k \in 1..Len(toDriver) : IsAnswer(toDriver[k])
      BY <1>2 DEF Pending
    <3> QED BY <1>9
  <2> QED BY <1>1, <1>2, <2>1 DEF LineInv
<1>13. ResponseAwaited'
  <2> SUFFICES ASSUME NEW i \in 1..Len(toDriver'), toDriver'[i].kind = "response"
               PROVE  /\ driver'.queue_count = 1 /\ driver'.init_state = "GET_SCAN_SET"
                      /\ Current(driver').sub_sent
                      /\ toDriver'[i].value = keyboard'.set /\ ~keyboard'.awaiting
                      /\ toKeyboard' = <<>>
                      /\ \A j \in 1..Len(toDriver') :
                           /\ toDriver'[j] # RESPONSE_RESEND
                           /\ toDriver'[j].kind = "response" => j = i
    BY DEF ResponseAwaited
  <2>1. i \in 1..Len(toDriver) /\ toDriver'[i] = toDriver[i]
    BY <1>5, <1>8
  <2>2. driver.queue_count = 1 /\ driver.init_state = "GET_SCAN_SET"
    BY <1>1, <2>1 DEF ResponseAwaited
  <2> QED BY <1>1, <1>2, <2>2 DEF NoKeysMeanwhile
<1>14. NoKeysAfterDisable'
  <2> SUFFICES ASSUME driver.queue_count = 1, driver.init_state = "DISABLE_SCAN",
                      NEW i \in 1..Len(toDriver'), toDriver'[i] = RESPONSE_ACK
               PROVE  FALSE
    BY <1>2 DEF NoKeysAfterDisable
  <2>1. i \in 1..Len(toDriver) /\ toDriver[i] = RESPONSE_ACK
    BY <1>5, <1>8
  <2> QED BY <1>1, <1>2, <2>1 DEF NoKeysAfterDisable
<1>15. NoKeysMeanwhile' /\ Set2Enabled' /\ InitializedMeansSet2'
  BY <1>1, <1>2 DEF NoKeysMeanwhile, Set2Enabled, InitializedMeansSet2
<1> QED BY <1>1, <1>2, <1>10, <1>11, <1>12, <1>13, <1>14, <1>15 DEF CommandsInv, KeyboardInv

\* A step that changes nothing.
LEMMA StutterKeeps == CommandsInv /\ UNCHANGED vars => CommandsInv'
<1> SUFFICES ASSUME CommandsInv, UNCHANGED vars PROVE CommandsInv'
  OBVIOUS
<1>1. /\ driver' = driver /\ main' = main /\ pressed' = pressed
      /\ toKeyboard' = toKeyboard /\ toDriver' = toDriver /\ keyboard' = keyboard
      /\ typed' = typed /\ garbled' = garbled /\ lost' = lost
  BY DEF vars
<1>2. QueueInv(driver)' /\ TypeOK' /\ OneByteAtATime'
  BY <1>1 DEF CommandsInv, QueueInv, TypeOK, OneByteAtATime
<1>3. LineInv'
  BY <1>1 DEF CommandsInv, LineInv, Pending
<1>4. KeyboardInv' /\ InitializedMeansSet2'
  BY <1>1 DEF CommandsInv, InitializedMeansSet2, KeyboardInv, ResponseAwaited,
              NoKeysAfterDisable, NoKeysMeanwhile, Set2Enabled
<1> QED BY <1>1, <1>2, <1>3, <1>4 DEF CommandsInv

-----------------------------------------------------------------------------

\* The invariant of the driver, its line and its keyboard.
THEOREM CommandsCorrect == Spec => []CommandsInv
<1>1. CommandsInv /\ [Next]_vars => CommandsInv'
  BY MainKeeps, InterruptKeeps, KeyboardAnswersKeep, ScancodeKeeps, StutterKeeps DEF Next
<1> QED BY <1>1, CommandsInit, PTL DEF Spec

\* The driver's statics and the two lines stay of their types: the queue never holds
\* more than MAX_COMMANDS commands and no byte is sent more often than allowed.
THEOREM CommandsTyped == Spec => []TypeOK
<1>1. CommandsInv => TypeOK
  BY DEF CommandsInv
<1> QED BY <1>1, CommandsCorrect, PTL

\* The driver sends no byte before the last one is answered, however bytes are garbled
\* or given up on and whenever keys are hit.
THEOREM NeverTwoBytes == Spec => []OneByteAtATime
<1>1. CommandsInv => OneByteAtATime
  BY DEF CommandsInv
<1> QED BY <1>1, CommandsCorrect, PTL

\* A driver that ended its initialisation without an error has a keyboard that scans
\* and sends set 2.
THEOREM InitializedKeyboard == Spec => []InitializedMeansSet2
<1>1. CommandsInv => InitializedMeansSet2
  BY DEF CommandsInv
<1> QED BY <1>1, CommandsCorrect, PTL

-----------------------------------------------------------------------------
(* Where the scancodes are: decoded or on their way, in the order typed.   *)

\* ScancodesReachDecoder of a record of what was decoded, a line and a count.
InOrder(decoded, line, count) ==
  /\ Len(decoded) <= count
  /\ \A n \in 1..Len(decoded) : decoded[n] = Scancode(n)
  /\ \A i \in 1..Len(line) :
       IsScancode(line[i]) => line[i].value \in Len(decoded) + 1..count
  /\ \A n \in Len(decoded) + 1..count :
       \E i \in 1..Len(line) : IsScancode(line[i]) /\ line[i].value = n
  /\ \A i, j \in 1..Len(line) :
       IsScancode(line[i]) /\ IsScancode(line[j]) /\ i < j => line[i].value < line[j].value

LEMMA InOrderIsReached == ScancodesReachDecoder <=> InOrder(pressed, toDriver, typed)
BY DEF ScancodesReachDecoder, InOrder

\* A byte that is not a scancode leaves the line.
LEMMA OtherLeaves ==
  ASSUME NEW decoded \in Seq(BytesOfKeyboard), NEW line \in Seq(BytesOfKeyboard),
         NEW count \in Nat, NEW rest \in Seq(BytesOfKeyboard),
         InOrder(decoded, line, count),
         line # <<>>, ~IsScancode(line[1]), rest = Tail(line)
  PROVE  InOrder(decoded, rest, count)
<1>1. PICK d \in Nat, n \in Nat : d = Len(decoded) /\ n = Len(line) /\ n > 0
  <2>1. Len(decoded) \in Nat /\ Len(line) \in Nat /\ Len(line) # 0
    BY LenProperties, EmptySeq
  <2> QED BY <2>1
<1>2. Len(rest) = n - 1 /\ \A i \in 1..n - 1 : rest[i] = line[i + 1]
  BY <1>1, HeadTailProperties
<1>3. ASSUME NEW k \in d + 1..count
      PROVE  \E i \in 1..n - 1 : IsScancode(rest[i]) /\ rest[i].value = k
  <2>1. PICK j \in 1..n : IsScancode(line[j]) /\ line[j].value = k
    BY <1>1 DEF InOrder
  <2>2. j # 1 /\ j - 1 \in 1..n - 1 /\ (j - 1) + 1 = j
    BY <2>1
  <2>3. rest[j - 1] = line[j]
    BY <1>2, <2>2
  <2> QED BY <2>1, <2>2, <2>3
<1>4. ASSUME NEW i \in 1..n - 1
      PROVE  i + 1 \in 1..n /\ rest[i] = line[i + 1]
  BY <1>2
<1>5. ASSUME NEW i \in 1..n - 1, IsScancode(rest[i]) PROVE rest[i].value \in d + 1..count
  BY <1>1, <1>4, <1>5 DEF InOrder
<1>6. ASSUME NEW i \in 1..n - 1, NEW j \in 1..n - 1,
             IsScancode(rest[i]), IsScancode(rest[j]), i < j
      PROVE  rest[i].value < rest[j].value
  <2>1. i + 1 < j + 1
    BY <1>6
  <2> QED BY <1>1, <1>4, <1>6, <2>1 DEF InOrder
<1> QED BY <1>1, <1>2, <1>3, <1>5, <1>6 DEF InOrder

\* A scancode leaves the line and is decoded: it is the next one.
LEMMA ScancodeDecoded ==
  ASSUME NEW decoded \in Seq(BytesOfKeyboard), NEW line \in Seq(BytesOfKeyboard),
         NEW count \in Nat, NEW rest \in Seq(BytesOfKeyboard), NEW more,
         InOrder(decoded, line, count),
         line # <<>>, IsScancode(line[1]), rest = Tail(line), more = Append(decoded, line[1])
  PROVE  InOrder(more, rest, count)
<1>1. PICK d \in Nat, n \in Nat : d = Len(decoded) /\ n = Len(line) /\ n > 0
  <2>1. Len(decoded) \in Nat /\ Len(line) \in Nat /\ Len(line) # 0
    BY LenProperties, EmptySeq
  <2> QED BY <2>1
<1>2. Len(rest) = n - 1 /\ \A i \in 1..n - 1 : rest[i] = line[i + 1]
  BY <1>1, HeadTailProperties
<1>3. ASSUME NEW i \in 1..n - 1
      PROVE  i \in Nat /\ i + 1 \in 1..n /\ rest[i] = line[i + 1]
  BY <1>2
<1>4. 1 \in 1..n /\ line[1] \in BytesOfKeyboard
  BY <1>1
<1>5. line[1].value = d + 1 /\ d + 1 <= count
  <2>1. line[1].value \in d + 1..count
    BY <1>1, <1>4 DEF InOrder
  <2>2. PICK j \in 1..n : IsScancode(line[j]) /\ line[j].value = d + 1
    BY <1>1, <2>1 DEF InOrder
  <2>3. j > 1 => line[1].value < line[j].value
    BY <1>1, <1>4, <2>2 DEF InOrder
  <2> QED BY <2>1, <2>2, <2>3
<1>6. line[1] = Scancode(d + 1)
  BY <1>4, <1>5
  DEF BytesOfKeyboard, Scancode, Response, RESPONSE_ACK, RESPONSE_RESEND, IsScancode
<1>7. /\ Len(more) = d + 1
      /\ \A i \in 1..d : more[i] = decoded[i]
      /\ more[d + 1] = line[1]
  BY <1>1, <1>4, AppendProperties
<1>8. \A i \in 1..d + 1 : more[i] = Scancode(i)
  <2> SUFFICES ASSUME NEW i \in 1..d + 1 PROVE more[i] = Scancode(i)
    OBVIOUS
  <2>1. i \in 1..d \/ i = d + 1
    OBVIOUS
  <2> QED BY <1>1, <1>6, <1>7, <2>1 DEF InOrder
<1>9. ASSUME NEW i \in 1..n - 1, IsScancode(rest[i]) PROVE rest[i].value \in d + 2..count
  <2>1. 1 < i + 1 /\ i + 1 \in 1..n /\ IsScancode(line[i + 1]) /\ rest[i] = line[i + 1]
    <3>1. i >= 1 /\ i \in Nat
      BY <1>1
    <3>2. i + 1 \in 1..n /\ rest[i] = line[i + 1]
      BY <1>3
    <3>3. 1 < i + 1
      BY <3>1
    <3> QED BY <1>9, <3>2, <3>3
  <2>2. line[1].value < line[i + 1].value /\ line[i + 1].value \in d + 1..count
    BY <1>1, <1>4, <2>1 DEF InOrder
  <2>3. PICK v \in d + 1..count : v = rest[i].value
    BY <2>1, <2>2
  <2>4. d + 1 < v
    BY <1>5, <2>1, <2>2, <2>3
  <2>5. v \in d + 2..count
    BY <2>4
  <2> QED BY <2>3, <2>5
<1>10. ASSUME NEW k \in d + 2..count
       PROVE  \E i \in 1..n - 1 : IsScancode(rest[i]) /\ rest[i].value = k
  <2>1. k \in d + 1..count /\ k # d + 1
    OBVIOUS
  <2>2. PICK j \in 1..n : IsScancode(line[j]) /\ line[j].value = k
    BY <1>1, <2>1 DEF InOrder
  <2>3. j # 1 /\ j - 1 \in 1..n - 1 /\ (j - 1) + 1 = j
    BY <1>5, <2>1, <2>2
  <2>4. rest[j - 1] = line[j]
    BY <1>2, <2>3
  <2> QED BY <2>2, <2>3, <2>4
<1>11. ASSUME NEW i \in 1..n - 1, NEW j \in 1..n - 1,
              IsScancode(rest[i]), IsScancode(rest[j]), i < j
       PROVE  rest[i].value < rest[j].value
  <2>1. i + 1 < j + 1
    BY <1>11
  <2> QED BY <1>1, <1>3, <1>11, <2>1 DEF InOrder
<1>12. (d + 1) + 1 = d + 2
  OBVIOUS
<1> QED BY <1>1, <1>2, <1>5, <1>7, <1>8, <1>9, <1>10, <1>11, <1>12 DEF InOrder

\* Bytes that are not scancodes come onto the line.
LEMMA OthersJoin ==
  ASSUME NEW decoded \in Seq(BytesOfKeyboard), NEW line \in Seq(BytesOfKeyboard),
         NEW count \in Nat, NEW longer \in Seq(BytesOfKeyboard),
         InOrder(decoded, line, count),
         Len(line) <= Len(longer),
         \A i \in 1..Len(line) : longer[i] = line[i],
         \A i \in 1..Len(longer) : i \in 1..Len(line) \/ ~IsScancode(longer[i])
  PROVE  InOrder(decoded, longer, count)
<1>1. PICK n \in Nat, m \in Nat : n = Len(line) /\ m = Len(longer) /\ n <= m
  BY LenProperties
<1>2. ASSUME NEW i \in 1..m, IsScancode(longer[i]) PROVE i \in 1..n /\ longer[i] = line[i]
  BY <1>1, <1>2
<1>3. ASSUME NEW k \in Len(decoded) + 1..count
      PROVE  \E i \in 1..m : IsScancode(longer[i]) /\ longer[i].value = k
  <2>1. PICK j \in 1..n : IsScancode(line[j]) /\ line[j].value = k
    BY <1>1 DEF InOrder
  <2> QED BY <1>1, <2>1
<1>4. ASSUME NEW i \in 1..m, NEW j \in 1..m,
             IsScancode(longer[i]), IsScancode(longer[j]), i < j
      PROVE  longer[i].value < longer[j].value
  BY <1>1, <1>2, <1>4 DEF InOrder
<1>5. ASSUME NEW i \in 1..m, IsScancode(longer[i])
      PROVE  longer[i].value \in Len(decoded) + 1..count
  BY <1>1, <1>2, <1>5 DEF InOrder
<1> QED BY <1>1, <1>3, <1>4, <1>5 DEF InOrder

\* The user hits a key.
LEMMA ScancodeJoins ==
  ASSUME NEW decoded \in Seq(BytesOfKeyboard), NEW line \in Seq(BytesOfKeyboard),
         NEW count \in Nat, NEW longer,
         InOrder(decoded, line, count),
         Scancode(count + 1) \in BytesOfKeyboard,
         longer = Append(line, Scancode(count + 1))
  PROVE  InOrder(decoded, longer, count + 1)
<1>1. PICK d \in Nat, n \in Nat : d = Len(decoded) /\ n = Len(line)
  BY LenProperties
<1>2. PICK key : key = Scancode(count + 1)
  OBVIOUS
<1>3. key \in BytesOfKeyboard /\ IsScancode(key) /\ key.value = count + 1
  BY <1>2 DEF Scancode, IsScancode
<1>4. /\ Len(longer) = n + 1
      /\ \A i \in 1..n : longer[i] = line[i]
      /\ longer[n + 1] = key
  BY <1>1, <1>2, <1>3, AppendProperties
<1>5. d <= count
  BY <1>1 DEF InOrder
<1>6. ASSUME NEW i \in 1..n + 1, IsScancode(longer[i]), i # n + 1
      PROVE  i \in 1..n /\ longer[i] = line[i] /\ longer[i].value \in d + 1..count
  <2>1. i \in 1..n /\ longer[i] = line[i]
    BY <1>4, <1>6
  <2> QED BY <1>1, <1>6, <2>1 DEF InOrder
<1>7. ASSUME NEW i \in 1..n + 1, IsScancode(longer[i])
      PROVE  longer[i].value \in d + 1..count + 1
  BY <1>3, <1>4, <1>5, <1>6, <1>7
<1>8. ASSUME NEW k \in d + 1..count + 1
      PROVE  \E i \in 1..n + 1 : IsScancode(longer[i]) /\ longer[i].value = k
  <2>1. CASE k = count + 1
    BY <1>3, <1>4, <2>1
  <2>2. CASE k # count + 1
    <3>1. k \in d + 1..count
      BY <2>2
    <3>2. PICK j \in 1..n : IsScancode(line[j]) /\ line[j].value = k
      BY <1>1, <3>1 DEF InOrder
    <3> QED BY <1>4, <3>2
  <2> QED BY <2>1, <2>2
<1>9. ASSUME NEW i \in 1..n + 1, NEW j \in 1..n + 1,
             IsScancode(longer[i]), IsScancode(longer[j]), i < j
      PROVE  longer[i].value < longer[j].value
  <2>1. i \in 1..n /\ longer[i] = line[i] /\ longer[i].value \in d + 1..count
    <3>1. i # n + 1
      BY <1>9
    <3> QED BY <1>6, <1>9, <3>1
  <2>2. CASE j = n + 1
    BY <1>3, <1>4, <2>1, <2>2
  <2>3. CASE j # n + 1
    BY <1>1, <1>6, <1>9, <2>1, <2>3 DEF InOrder
  <2> QED BY <2>2, <2>3
<1>10. d <= count + 1 /\ \A k \in 1..d : decoded[k] = Scancode(k)
  BY <1>1, <1>5 DEF InOrder
<1> QED BY <1>1, <1>4, <1>7, <1>8, <1>9, <1>10 DEF InOrder

\* A response comes behind the acknowledgement that makes the driver wait for it, so it
\* is not decoded.
ResponseAcknowledged ==
  \A i \in 1..Len(toDriver) : toDriver[i].kind = "response" =>
    \/ Current(driver).acknowledged
    \/ \E j \in 1..i - 1 : toDriver[j] = RESPONSE_ACK

ScancodesInv == ScancodesReachDecoder /\ ResponseAcknowledged

\* A step that leaves the scancodes in order, and the response behind its
\* acknowledgement, keeps the invariant.
LEMMA ReachedNext ==
  InOrder(pressed', toDriver', typed') /\ ResponseAcknowledged' => ScancodesInv'
BY DEF ScancodesInv, ScancodesReachDecoder, InOrder

\* The interrupt of the keyboard: a scancode is decoded, and nothing else.
LEMMA InterruptKeepsOrder == CommandsInv /\ ScancodesInv /\ Interrupt => ScancodesInv'
<1> SUFFICES ASSUME CommandsInv, ScancodesInv, Interrupt PROVE ScancodesInv'
  OBVIOUS
<1>1. /\ driver \in Driver /\ QueueInv(driver) /\ TypeOK /\ OneByteAtATime
      /\ LineInv /\ ResponseAwaited /\ NoKeysMeanwhile
      /\ driver.sent = <<>> /\ driver.keys = <<>>
      /\ InOrder(pressed, toDriver, typed) /\ ResponseAcknowledged
  BY InOrderIsReached DEF CommandsInv, QueueInv, TypeOK, KeyboardInv, ScancodesInv
<1>2. PICK b, e : b = Head(toDriver) /\ e = OnKeyboardSendByte(driver, b)
  OBVIOUS
<1>3. /\ Settle(e) /\ typed' = typed /\ pressed' = pressed \o e.keys
      /\ toDriver # <<>> /\ toDriver' = Tail(toDriver)
  BY <1>2 DEF Interrupt, Settle
<1>4. /\ pressed \in Seq(BytesOfKeyboard) /\ toDriver \in Seq(BytesOfKeyboard) /\ typed \in Nat
      /\ toDriver' \in Seq(BytesOfKeyboard)
      /\ b \in BytesOfKeyboard /\ b = toDriver[1] /\ 1 \in 1..Len(toDriver)
      /\ \A i \in 1..Len(toDriver') :
            i \in Nat \ {0} /\ i + 1 \in 1..Len(toDriver) /\ toDriver'[i] = toDriver[i + 1]
  <2>1. pressed \in Seq(BytesOfKeyboard) /\ toDriver \in Seq(BytesOfKeyboard) /\ typed \in Nat
    BY <1>1, CommandAssumption DEF TypeOK
  <2>2. /\ Head(toDriver) \in BytesOfKeyboard
        /\ Tail(toDriver) \in Seq(BytesOfKeyboard)
        /\ Len(Tail(toDriver)) = Len(toDriver) - 1
        /\ \A i \in 1..Len(Tail(toDriver)) : Tail(toDriver)[i] = toDriver[i + 1]
    BY <1>3, <2>1, HeadTailProperties
  <2>3. Len(toDriver) \in Nat /\ Len(toDriver) # 0
    BY <1>3, <2>1, LenProperties, EmptySeq
  <2>4. Head(toDriver) = toDriver[1]
    BY <1>3, <2>1
  <2> QED BY <1>2, <1>3, <2>1, <2>2, <2>3, <2>4
<1>5. QueueInv(e) /\ Outcome(driver, b, e)
  <2>1. IsAnswer(b) => Pending
    BY <1>4 DEF Pending
  <2>2. driver.queue_count = 1 /\ IsAnswer(b) => ~Current(driver).acknowledged
    BY <1>1, <2>1 DEF LineInv
  <2> QED BY <1>1, <1>2, <1>4, <2>2, OnKeyboardSendByteEffect
<1>6. Current(driver') = Current(e)
  BY <1>1, <1>3, <1>5, SettleEffect DEF QueueInv
<1>7. CASE Decodes(driver, b, e)
  <2>1. /\ driver.queue_count = 0 \/ (~IsAnswer(b) /\ ~Current(driver).acknowledged)
        /\ e.keys = <<b>> /\ Current(e) = Current(driver)
    BY <1>7 DEF Decodes, Current
  <2>2. ~IsAnswer(b)
    BY <1>1, <1>4, <2>1 DEF LineInv, Pending
  \* Nothing stands before the head of the line.
  <2>3. b.kind # "response"
    <3> SUFFICES ASSUME b.kind = "response" PROVE FALSE
      OBVIOUS
    <3>1. driver.queue_count = 1
      BY <1>1, <1>4 DEF ResponseAwaited
    <3>2. PICK j \in 1..1 - 1 : toDriver[j] = RESPONSE_ACK
      BY <1>1, <1>4, <2>1, <3>1 DEF ResponseAcknowledged
    <3> QED BY <3>2
  <2>4. IsScancode(b)
    BY <1>4, <2>2, <2>3, ByteKinds DEF IsScancode
  <2>5. pressed' = Append(pressed, toDriver[1])
    BY <1>3, <1>4, <2>1, AppendIsConcat
  <2>6. InOrder(pressed', toDriver', typed')
    BY <1>1, <1>3, <1>4, <2>4, <2>5, ScancodeDecoded
  <2>7. ResponseAcknowledged'
    <3> SUFFICES ASSUME NEW i \in 1..Len(toDriver'), toDriver'[i].kind = "response",
                        ~Current(driver').acknowledged
                 PROVE  \E j \in 1..i - 1 : toDriver'[j] = RESPONSE_ACK
      BY DEF ResponseAcknowledged
    <3>1. i \in Nat \ {0} /\ i + 1 \in 1..Len(toDriver) /\ toDriver'[i] = toDriver[i + 1]
      BY <1>4
    <3>2. PICK j \in 1..(i + 1) - 1 : toDriver[j] = RESPONSE_ACK
      BY <1>1, <1>6, <2>1, <3>1 DEF ResponseAcknowledged
    <3>3. j # 1
      BY <1>4, <2>2, <3>2 DEF IsAnswer
    <3>4. j - 1 \in 1..i - 1 /\ j - 1 \in 1..Len(toDriver') /\ (j - 1) + 1 = j
      BY <3>1, <3>2, <3>3
    <3>5. toDriver'[j - 1] = toDriver[j]
      BY <1>4, <3>4
    <3> QED BY <3>2, <3>4, <3>5
  <2> QED BY <2>6, <2>7, ReachedNext
<1>8. CASE ~Decodes(driver, b, e)
  <2>1. driver.queue_count = 1 /\ e.keys = <<>>
    BY <1>5, <1>8
    DEF Outcome, SendsAgain, SendsArgument, WaitsForResponse, Stops, GoesOn, IsDone
  <2>2. pressed' = pressed
    BY <1>3, <1>4, <2>1, ConcatEmptySeq
  <2>3. IsAnswer(b) \/ Current(driver).acknowledged
    BY <1>5, <1>8
    DEF Outcome, SendsAgain, SendsArgument, WaitsForResponse, Stops, GoesOn, IsDone, IsAnswer
  <2>4. ~IsScancode(b)
    <3>1. CASE IsAnswer(b)
      BY <1>4, <3>1, ByteKinds DEF IsScancode
    <3>2. CASE Current(driver).acknowledged
      <4>1. driver.init_state = "GET_SCAN_SET"
        BY <1>1, <2>1, <3>2 DEF QueueInv, IsStageCommand
      <4> QED BY <1>1, <1>4, <2>1, <4>1 DEF NoKeysMeanwhile
    <3> QED BY <2>3, <3>1, <3>2
  <2>5. InOrder(pressed', toDriver', typed')
    <3>1. PICK rest : rest = toDriver'
      OBVIOUS
    <3>2. rest \in Seq(BytesOfKeyboard) /\ rest = Tail(toDriver) /\ ~IsScancode(toDriver[1])
      BY <1>3, <1>4, <2>4, <3>1
    <3>3. InOrder(pressed, rest, typed)
      BY <1>1, <1>3, <1>4, <3>2, OtherLeaves
    <3> QED BY <1>3, <2>2, <3>1, <3>3
  <2>6. ResponseAcknowledged'
    <3> SUFFICES ASSUME NEW i \in 1..Len(toDriver'), toDriver'[i].kind = "response"
                 PROVE  Current(driver').acknowledged
      BY DEF ResponseAcknowledged
    <3>1. i + 1 \in 1..Len(toDriver) /\ toDriver[i + 1].kind = "response" /\ i + 1 # 1
      BY <1>4
    <3>2. /\ driver.init_state = "GET_SCAN_SET" /\ Current(driver).sub_sent
          /\ \A j \in 1..Len(toDriver) : /\ toDriver[j] # RESPONSE_RESEND
                                         /\ toDriver[j].kind = "response" => j = i + 1
      BY <1>1, <3>1 DEF ResponseAwaited
    <3>3. b # RESPONSE_RESEND /\ b.kind # "response"
      BY <1>4, <3>1, <3>2
    <3>4. b = RESPONSE_ACK
      BY <1>4, <2>4, <3>3, ByteKinds DEF IsScancode
    <3>5. ~IsDone(driver, b)
      BY <3>2, <3>3, <3>4 DEF IsDone, IsAnswer
    <3>6. WaitsForResponse(driver, b, e)
      BY <1>5, <1>8, <3>2, <3>3, <3>5 DEF Outcome, SendsAgain, SendsArgument, Stops, GoesOn
    <3> QED BY <1>6, <3>6 DEF WaitsForResponse
  <2> QED BY <2>5, <2>6, ReachedNext
<1> QED BY <1>7, <1>8

\* The answers of the keyboard are no scancodes, and a response follows its acknowledgement.
LEMMA AnswersKeepOrder == CommandsInv /\ ScancodesInv /\ KeyboardAnswers => ScancodesInv'
<1> SUFFICES ASSUME CommandsInv, ScancodesInv, KeyboardAnswers PROVE ScancodesInv'
  OBVIOUS
<1>1. /\ TypeOK /\ OneByteAtATime /\ ResponseAwaited
      /\ InOrder(pressed, toDriver, typed) /\ ResponseAcknowledged
  BY InOrderIsReached DEF CommandsInv, KeyboardInv, ScancodesInv
<1>2. PICK bytes : /\ Answer(bytes)
                   /\ \/ bytes = <<RESPONSE_ACK>>
                      \/ bytes = <<RESPONSE_ACK, Response(keyboard.set)>>
                      \/ bytes = <<RESPONSE_RESEND>>
  BY DEF KeyboardAnswers, TakesCommand, TakesSet, TellsSet, AsksAgain
<1>3. /\ toKeyboard # <<>> /\ toDriver' = toDriver \o bytes
      /\ driver' = driver /\ pressed' = pressed /\ typed' = typed
  BY <1>2 DEF Answer
<1>4. /\ pressed \in Seq(BytesOfKeyboard) /\ toDriver \in Seq(BytesOfKeyboard)
      /\ typed \in Nat /\ keyboard.set \in 1..3
  BY <1>1, CommandAssumption DEF TypeOK
<1>5. PICK response : response = Response(keyboard.set)
  OBVIOUS
<1>6. /\ RESPONSE_ACK \in BytesOfKeyboard /\ RESPONSE_RESEND \in BytesOfKeyboard
      /\ response \in BytesOfKeyboard
      /\ ~IsScancode(RESPONSE_ACK) /\ ~IsScancode(RESPONSE_RESEND) /\ ~IsScancode(response)
      /\ RESPONSE_ACK.kind # "response" /\ RESPONSE_RESEND.kind # "response"
  BY <1>4, <1>5 DEF BytesOfKeyboard, Response, RESPONSE_ACK, RESPONSE_RESEND, IsScancode
<1>7. /\ bytes \in Seq(BytesOfKeyboard)
      /\ \A k \in 1..Len(bytes) : /\ ~IsScancode(bytes[k])
                                  /\ bytes[k].kind = "response" => k = 2 /\ bytes[1] = RESPONSE_ACK
  <2>1. CASE bytes = <<RESPONSE_ACK>>
    BY <1>6, <2>1
  <2>2. CASE bytes = <<RESPONSE_RESEND>>
    BY <1>6, <2>2
  <2>3. CASE bytes = <<RESPONSE_ACK, response>>
    <3>1. bytes \in Seq(BytesOfKeyboard) /\ Len(bytes) = 2
      BY <1>6, <2>3
    <3>2. bytes[1] = RESPONSE_ACK /\ bytes[2] = response
      BY <2>3
    <3> QED BY <1>6, <3>1, <3>2
  <2> QED BY <1>2, <1>5, <2>1, <2>2, <2>3
<1>8. PICK n \in Nat, m \in Nat : n = Len(toDriver) /\ m = Len(bytes)
  BY <1>4, <1>7, LenProperties
<1>9. /\ toDriver' \in Seq(BytesOfKeyboard) /\ Len(toDriver') = n + m
      /\ \A i \in 1..n + m : toDriver'[i] = IF i <= n THEN toDriver[i] ELSE bytes[i - n]
  BY <1>3, <1>4, <1>7, <1>8, ConcatProperties
<1>10. ASSUME NEW i \in 1..n PROVE toDriver'[i] = toDriver[i]
  BY <1>9
<1>11. ASSUME NEW i \in 1..n + m, i \notin 1..n
       PROVE  i - n \in 1..m /\ toDriver'[i] = bytes[i - n]
  BY <1>9, <1>11
<1>12. InOrder(pressed', toDriver', typed')
  <2>1. ASSUME NEW i \in 1..n + m, i \notin 1..n PROVE ~IsScancode(toDriver'[i])
    BY <1>7, <1>8, <1>11, <2>1
  <2>2. PICK longer : longer = toDriver'
    OBVIOUS
  <2>3. /\ longer \in Seq(BytesOfKeyboard) /\ Len(toDriver) <= Len(longer)
        /\ \A i \in 1..Len(toDriver) : longer[i] = toDriver[i]
        /\ \A i \in 1..Len(longer) : i \in 1..Len(toDriver) \/ ~IsScancode(longer[i])
    BY <1>8, <1>9, <1>10, <2>1, <2>2
  <2>4. InOrder(pressed, longer, typed)
    BY <1>1, <1>4, <2>3, OthersJoin
  <2> QED BY <1>3, <2>2, <2>4
<1>13. ResponseAcknowledged'
  <2> SUFFICES ASSUME NEW i \in 1..n + m, toDriver'[i].kind = "response"
               PROVE  \E j \in 1..i - 1 : toDriver'[j] = RESPONSE_ACK
    BY <1>9 DEF ResponseAcknowledged
  <2>1. i \notin 1..n
    BY <1>1, <1>3, <1>8, <1>10 DEF ResponseAwaited
  <2>2. i - n = 2 /\ bytes[1] = RESPONSE_ACK
    BY <1>7, <1>8, <1>11, <2>1
  <2>3. n + 1 \in 1..i - 1 /\ n + 1 \in 1..n + m /\ n + 1 \notin 1..n /\ (n + 1) - n = 1
    BY <2>2
  <2>4. toDriver'[n + 1] = bytes[1]
    BY <1>11, <2>3
  <2> QED BY <2>2, <2>3, <2>4
<1> QED BY <1>12, <1>13, ReachedNext

\* A key is hit.
LEMMA ScancodeKeepsOrder == CommandsInv /\ ScancodesInv /\ SendsScancode => ScancodesInv'
<1> SUFFICES ASSUME CommandsInv, ScancodesInv, SendsScancode PROVE ScancodesInv'
  OBVIOUS
<1>1. TypeOK /\ InOrder(pressed, toDriver, typed) /\ ResponseAcknowledged
  BY InOrderIsReached DEF CommandsInv, ScancodesInv
<1>2. /\ typed < MaxKeys /\ typed' = typed + 1
      /\ toDriver' = Append(toDriver, Scancode(typed + 1))
      /\ driver' = driver /\ pressed' = pressed
  BY DEF SendsScancode
<1>3. /\ pressed \in Seq(BytesOfKeyboard) /\ toDriver \in Seq(BytesOfKeyboard)
      /\ typed \in Nat /\ typed + 1 \in 1..MaxKeys
  BY <1>1, <1>2, CommandAssumption DEF TypeOK
<1>4. PICK key : key = Scancode(typed + 1)
  OBVIOUS
<1>5. key \in BytesOfKeyboard /\ key.kind = "key"
  BY <1>3, <1>4 DEF BytesOfKeyboard, Scancode
<1>6. InOrder(pressed', toDriver', typed')
  BY <1>1, <1>2, <1>3, <1>4, <1>5, ScancodeJoins
<1>7. ResponseAcknowledged'
  <2>1. PICK n \in Nat : n = Len(toDriver)
    BY <1>3, LenProperties
  <2>2. /\ Len(toDriver') = n + 1
        /\ \A i \in 1..n : toDriver'[i] = toDriver[i]
        /\ toDriver'[n + 1] = key
    BY <1>2, <1>3, <1>4, <1>5, <2>1, AppendProperties
  <2> SUFFICES ASSUME NEW i \in 1..n + 1, toDriver'[i].kind = "response",
                      ~Current(driver).acknowledged
               PROVE  \E j \in 1..i - 1 : toDriver'[j] = RESPONSE_ACK
    BY <1>2, <2>2 DEF ResponseAcknowledged
  <2>3. i \in 1..n
    BY <1>5, <2>2
  <2>4. toDriver[i].kind = "response"
    BY <2>2, <2>3
  <2>5. PICK j \in 1..i - 1 : toDriver[j] = RESPONSE_ACK
    BY <1>1, <2>1, <2>3, <2>4 DEF ResponseAcknowledged
  <2>6. j \in 1..n
    BY <2>3
  <2> QED BY <2>2, <2>5, <2>6
<1> QED BY <1>6, <1>7, ReachedNext

\* The main program decodes nothing, and no response is there before it spins.
LEMMA MainKeepsOrder == CommandsInv /\ ScancodesInv /\ Main => ScancodesInv'
<1> SUFFICES ASSUME CommandsInv, ScancodesInv, Main PROVE ScancodesInv'
  OBVIOUS
<1>1. /\ driver \in Driver /\ TypeOK /\ LineInv /\ ResponseAwaited /\ QueueInv(driver)
      /\ driver.sent = <<>> /\ driver.keys = <<>>
  BY DEF CommandsInv, KeyboardInv, QueueInv, TypeOK
<1>2. toDriver' = toDriver /\ typed' = typed
  BY DEF Main, MainSetup, MainCount, MainSend, MainLeaves
<1>3. pressed' = pressed
  <2>1. CASE MainSend
    <3>1. driver.init_state = "DISABLE_SCAN" /\ driver.queue_count = 1
      BY <1>1, <2>1 DEF LineInv, MainSend
    <3>2. PICK byte : byte = Current(driver).code
      OBVIOUS
    <3>3. byte \in Codes \cup Arguments
      BY <1>1, <3>2, CurrentTyped
    <3>4. PICK e : e = SendByte(driver, byte)
      OBVIOUS
    <3>5. e.keys = <<>>
      BY <1>1, <3>3, <3>4, SendByteEffect
    <3>6. pressed' = pressed \o e.keys
      BY <2>1, <3>2, <3>4 DEF MainSend, Settle
    <3> QED BY <1>1, <3>5, <3>6, ConcatEmptySeq DEF TypeOK
  <2> QED BY <2>1 DEF Main, MainSetup, MainCount, MainLeaves
<1>4. ResponseAcknowledged'
  <2>1. CASE MainLeaves
    BY <1>2, <2>1 DEF MainLeaves, ScancodesInv, ResponseAcknowledged
  <2>2. CASE ~MainLeaves
    <3>1. main \in {"setup", "count", "send"}
      BY <2>2 DEF Main, MainSetup, MainCount, MainSend
    <3>2. driver.init_state # "GET_SCAN_SET" \/ driver.queue_count = 0
      BY <1>1, <3>1 DEF LineInv
    <3>3. \A i \in 1..Len(toDriver) : toDriver[i].kind # "response"
      BY <1>1, <3>2 DEF ResponseAwaited
    <3> QED BY <1>2, <3>3 DEF ResponseAcknowledged
  <2> QED BY <2>1, <2>2
<1> QED BY <1>2, <1>3, <1>4 DEF ScancodesInv, ScancodesReachDecoder

-----------------------------------------------------------------------------

\* Every scancode typed is decoded or on its way, once and in the order typed, and
\* nothing else is decoded: the commands under way, the bytes garbled, sent again or
\* given up on make the driver lose no key, and take no answer for one.
THEOREM NoScancodeLost == Spec => []ScancodesReachDecoder
<1>1. Init => ScancodesInv
  <2> SUFFICES ASSUME Init PROVE ScancodesInv
    OBVIOUS
  <2>1. typed = 0 /\ Len(pressed) = 0 /\ Len(toDriver) = 0
    BY DEF Init
  <2> QED BY <2>1 DEF ScancodesInv, ScancodesReachDecoder, ResponseAcknowledged
<1>2. CommandsInv /\ ScancodesInv /\ [Next]_vars => ScancodesInv'
  <2>1. ScancodesInv /\ UNCHANGED vars => ScancodesInv'
    BY DEF vars, ScancodesInv, ScancodesReachDecoder, ResponseAcknowledged
  <2> QED BY <2>1, MainKeepsOrder, InterruptKeepsOrder, AnswersKeepOrder, ScancodeKeepsOrder
          DEF Next
<1>3. ScancodesInv => ScancodesReachDecoder
  BY DEF ScancodesInv
<1> QED BY <1>1, <1>2, <1>3, CommandsCorrect, PTL DEF Spec
=============================================================================
