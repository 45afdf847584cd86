------------------------------- MODULE PS2Proofs -------------------------------
(***************************************************************************)
(* Every interrupt is ended and the processor's flag restored, on every    *)
(* machine, however many keys, late answers, ticks and spurious interrupts *)
(* there are, and whatever the driver of the controller does meanwhile.    *)
(***************************************************************************)
EXTENDS PS2Controller, NaturalsInduction, WellFoundedInduction, TLAPS

\* What a line may call.
Functions == {NoHandler, "timer", "port_1_interrupt", "port_2_interrupt"}

Processors ==
  [hasPic : BOOLEAN, driver : BOOLEAN, offsets : Nat \X Nat,
   mask : SUBSET Lines, requests : SUBSET Lines, service : SUBSET Lines,
   gates : SUBSET Nat, present : SUBSET Nat, isr_handlers : SUBSET Nat,
   irq_handlers : [Lines -> Functions],
   enabled : BOOLEAN, running : Lines \cup {NoLine}, crashed : BOOLEAN]

\* What taking a line puts into service: the line, and the one the second controller
\* comes in by.
WithCascade(irq) == {irq} \cup (IF irq >= 8 THEN {2} ELSE {})

\* With the driver of the interrupt controllers every line has its vector and its handler.
Routed(x) ==
  /\ x.offsets = <<PIC_REMAP_OFFSET, PIC_REMAP_OFFSET + 8>>
  /\ \A i \in Lines : PIC_REMAP_OFFSET + i \in x.gates \cap x.present \cap x.isr_handlers

\* The start runs with interrupts off.
Starting == {"off", "ps2", "main"}

\* A processor that has not crashed, while the kernel is in phase p.  Nothing but the
\* line whose handler runs is in service.
Orderly(x, p) ==
  /\ x.driver => Routed(x)
  /\ x.enabled \/ x.running # NoLine => x.driver
  /\ x.running = NoLine => x.service = {}
  /\ x.running # NoLine => x.service \subseteq WithCascade(x.running)
  /\ p \in Starting => ~x.enabled /\ x.running = NoLine
  /\ p \notin Starting => (x.enabled <=> x.running = NoLine)

InterruptsInv ==
  /\ cpu \in Processors
  /\ ~cpu.crashed => Orderly(cpu, phase)

\* y is x but for its requests, its mask and the functions its lines call.
Alike(x, y) ==
  /\ y \in Processors
  /\ y.driver = x.driver /\ y.offsets = x.offsets /\ y.service = x.service
  /\ y.gates = x.gates /\ y.present = x.present /\ y.isr_handlers = x.isr_handlers
  /\ y.enabled = x.enabled /\ y.running = x.running /\ y.crashed = x.crashed

-----------------------------------------------------------------------------
(* The controllers.                                                        *)

\* Among some lines there is one that comes first.
LEMMA FirstExists ==
  ASSUME NEW lines \in SUBSET Lines, lines # {}
  PROVE  First(lines) \in lines
<1>1. PICK ranks : ranks = {Rank(i) : i \in lines}
  OBVIOUS
<1>2. \A i \in Lines : Rank(i) \in Nat
  BY DEF Lines, Rank
<1>3. ranks \subseteq Nat /\ ranks # {}
  BY <1>1, <1>2
<1>4. PICK least \in ranks : \A n \in ranks : ~ (<<n, least>> \in OpToRel(<, Nat))
  BY <1>3, NatLessThanWellFounded, WFMin
<1>5. ASSUME NEW n \in ranks PROVE least <= n
  <2>1. ~ (n < least)
    BY <1>3, <1>4 DEF OpToRel
  <2> QED BY <1>3, <2>1
<1>6. PICK i \in lines : Rank(i) = least
  BY <1>1
<1>7. \A j \in lines : Rank(i) <= Rank(j)
  BY <1>1, <1>5, <1>6
<1> QED BY <1>6, <1>7 DEF First

\* The controller's lines go up and down; nothing else of the processor changes.
LEMMA WiredEffect ==
  ASSUME NEW x \in Processors, NEW before, NEW after
  PROVE  Alike(x, Wired(x, before, after))
<1>1. PICK requests : requests = (x.requests \ (LinesOf(before) \ LinesOf(after)))
                                 \cup (LinesOf(after) \ LinesOf(before))
  OBVIOUS
<1>2. requests \in SUBSET Lines
  BY <1>1 DEF LinesOf, Lines, Processors
<1>3. Wired(x, before, after) = [x EXCEPT !.requests = requests]
  BY <1>1 DEF Wired
<1> QED BY <1>2, <1>3 DEF Alike, Processors

\* A handler is registered, or the call goes where no driver is.
LEMMA RegisterEffect ==
  ASSUME NEW x \in Processors, NEW irq, NEW handler \in Functions,
         NEW y, y = irq_register_handler(x, irq, handler)
  PROVE  IF x.driver THEN Alike(x, y) ELSE y \in Processors /\ y.crashed
<1>1. CASE ~x.driver
  BY <1>1 DEF irq_register_handler, Processors
<1>2. CASE x.driver
  <2>1. PICK handlers : handlers = [x.irq_handlers EXCEPT ![irq] = handler]
    OBVIOUS
  <2>2. handlers \in [Lines -> Functions]
    BY <2>1 DEF Processors
  <2>3. PICK mask : mask = x.mask \ {irq}
    OBVIOUS
  <2>4. mask \in SUBSET Lines
    BY <2>3 DEF Processors
  <2>5. PICK z : z = [x EXCEPT !.irq_handlers = handlers]
    OBVIOUS
  <2>6. z \in Processors /\ z.mask = x.mask /\ Alike(x, z)
    BY <2>2, <2>5 DEF Processors, Alike
  <2>7. y = [z EXCEPT !.mask = mask]
    BY <1>2, <2>1, <2>3, <2>5, <2>6 DEF irq_register_handler, unmask, set_mask
  <2> QED BY <1>2, <2>4, <2>6, <2>7 DEF Processors, Alike
<1> QED BY <1>1, <1>2

\* The processor takes a line: with every line routed its handler runs.
LEMMA TakenEffect ==
  ASSUME NEW x \in Processors, Routed(x), NEW irq \in Lines,
         NEW y, y = isr_handler_common(x, VectorOf(x, irq), irq)
  PROVE  /\ y \in Processors
         /\ y.running = irq /\ y.service = x.service /\ ~y.enabled
         /\ y.driver = x.driver /\ y.crashed = x.crashed /\ Routed(y)
<1>1. VectorOf(x, irq) = PIC_REMAP_OFFSET + irq
  BY DEF VectorOf, Routed, Lines, PIC_REMAP_OFFSET
<1>2. VectorOf(x, irq) \in x.gates \cap x.present \cap x.isr_handlers
  BY <1>1 DEF Routed
<1>3. y = [x EXCEPT !.running = irq, !.enabled = FALSE]
  BY <1>2 DEF isr_handler_common
<1> QED BY <1>3 DEF Processors, Routed

\* The end of interrupt takes the line whose handler ran out of both controllers.
LEMMA EndEffect ==
  ASSUME NEW x \in Processors, NEW irq \in Lines, x.service \subseteq WithCascade(irq),
         NEW y, y = send_eoi(x, irq)
  PROVE  y = [x EXCEPT !.service = {}]
<1>1. PICK second : second = IF irq >= 8 THEN FirstOf({i \in x.service : i >= 8}) ELSE {}
  OBVIOUS
<1>2. PICK first : first = FirstOf({i \in x.service : i < 8})
  OBVIOUS
<1>3. ASSUME NEW lines \in SUBSET Lines, NEW i, lines \subseteq {i}
      PROVE  FirstOf(lines) = lines
  BY <1>3, FirstExists DEF FirstOf
<1>4. CASE irq < 8
  <2>1. {i \in x.service : i < 8} = x.service /\ x.service \subseteq {irq}
    BY <1>4 DEF WithCascade, Lines
  <2>2. first = x.service
    BY <1>2, <1>3, <2>1 DEF Processors
  <2> QED BY <1>1, <1>2, <2>2 DEF send_eoi
<1>5. CASE irq >= 8
  <2>1. /\ {i \in x.service : i >= 8} \subseteq {irq} /\ {i \in x.service : i < 8} \subseteq {2}
        /\ {i \in x.service : i >= 8} \in SUBSET Lines /\ {i \in x.service : i < 8} \in SUBSET Lines
        /\ x.service \subseteq {i \in x.service : i >= 8} \cup {i \in x.service : i < 8}
    BY <1>5 DEF WithCascade, Lines, Processors
  <2>2. x.service \ (first \cup second) = {}
    BY <1>1, <1>2, <1>3, <1>5, <2>1
  <2> QED BY <1>1, <1>2, <2>2 DEF send_eoi
<1> QED BY <1>4, <1>5 DEF Lines

-----------------------------------------------------------------------------
(* The actions.                                                            *)

\* The invariant holds before the kernel's start.
LEMMA InterruptsInit == PS2Init => InterruptsInv
<1> SUFFICES ASSUME PS2Init PROVE InterruptsInv
  OBVIOUS
<1>1. machine.pic \in BOOLEAN
  BY PS2Assumption DEF PS2Init
<1>2. PICK requests \in {{}, {0, 1}} : cpu = Cpu0(machine.pic, requests)
  BY DEF PS2Init
<1>3. requests \in SUBSET Lines /\ {3, 4, 5} \in SUBSET Lines /\ <<8, 112>> \in Nat \X Nat
  BY <1>2 DEF Lines
<1>4. PICK handlers : handlers = [i \in Lines |-> NoHandler]
  OBVIOUS
<1>5. handlers \in [Lines -> Functions]
  BY <1>4 DEF Functions
<1>6. cpu \in Processors
  BY <1>1, <1>2, <1>3, <1>4, <1>5 DEF Cpu0, Processors
<1>7. phase \in Starting
  BY DEF PS2Init, Starting
<1> QED BY <1>2, <1>6, <1>7 DEF Cpu0, Orderly, InterruptsInv

\* A step that changes of the processor its requests, its mask or its functions, and of
\* the kernel no phase that would turn interrupts on.
LEMMA AlikeKeeps ==
  ASSUME InterruptsInv, Alike(cpu, cpu'), phase' \in Starting <=> phase \in Starting
  PROVE  InterruptsInv'
<1>1. ~cpu.crashed => Orderly(cpu', phase')
  BY DEF InterruptsInv, Alike, Orderly, Routed
<1> QED BY <1>1 DEF InterruptsInv, Alike

\* The interrupt controllers are remapped and every line gets its handler, if there are any.
LEMMA StartKeeps == InterruptsInv /\ Start => InterruptsInv'
<1> SUFFICES ASSUME InterruptsInv, Start PROVE InterruptsInv'
  OBVIOUS
<1>1. PICK x : x = isr_initialize(cpu)
  OBVIOUS
<1>2. /\ x \in Processors
      /\ x.driver = cpu.driver /\ x.offsets = cpu.offsets /\ x.service = cpu.service
      /\ x.enabled = cpu.enabled /\ x.running = cpu.running /\ x.crashed = cpu.crashed
      /\ x.isr_handlers = cpu.isr_handlers
      /\ Vectors \subseteq x.gates /\ cpu.gates \subseteq x.gates
      /\ Vectors \subseteq x.present /\ cpu.present \subseteq x.present
  <2>1. PICK gates : gates = cpu.gates \cup Vectors
    OBVIOUS
  <2>2. PICK cleared : cleared = cpu.present \ Vectors
    OBVIOUS
  <2>3. PICK present : present = cleared \cup Vectors
    OBVIOUS
  <2>4. /\ gates \in SUBSET Nat /\ cleared \in SUBSET Nat /\ present \in SUBSET Nat
        /\ cpu.gates \subseteq gates /\ cpu.present \subseteq present
        /\ Vectors \subseteq gates /\ Vectors \subseteq present
    BY <2>1, <2>2, <2>3 DEF InterruptsInv, Processors, Vectors
  <2>5. PICK z : z = [cpu EXCEPT !.gates = gates, !.present = cleared]
    OBVIOUS
  <2>6. z \in Processors /\ z.present = cleared
    BY <2>4, <2>5 DEF InterruptsInv, Processors
  <2>7. x = [z EXCEPT !.present = present]
    BY <1>1, <2>1, <2>2, <2>3, <2>5, <2>6
    DEF isr_initialize, isr_initialize_gates, idt_enable_gate, idt_set_gate
  <2> QED BY <2>4, <2>5, <2>6, <2>7 DEF InterruptsInv, Processors
<1>3. cpu' = irq_initialize(x) /\ phase \in Starting /\ phase' \in Starting
  BY <1>1 DEF Start, Starting
<1>4. CASE ~x.hasPic
  <2>1. cpu' = x
    BY <1>3, <1>4 DEF irq_initialize, probe
  <2>2. Orderly(cpu, phase) => Orderly(x, phase')
    BY <1>2, <1>3 DEF Orderly, Routed
  <2> QED BY <1>2, <2>1, <2>2 DEF InterruptsInv
<1>5. CASE x.hasPic
  <2>1. PICK handled : handled = x.isr_handlers \cup {PIC_REMAP_OFFSET + i : i \in Lines}
    OBVIOUS
  <2>2. PICK present : present = x.present \cup {PIC_REMAP_OFFSET + i : i \in Lines}
    OBVIOUS
  <2>3. /\ handled \in SUBSET Nat /\ present \in SUBSET Nat /\ x.present \subseteq present
        /\ \A i \in Lines : PIC_REMAP_OFFSET + i \in handled \cap present
    BY <1>2, <2>1, <2>2 DEF Processors, PIC_REMAP_OFFSET, Lines
  <2>4. PICK offsets : offsets = <<PIC_REMAP_OFFSET, PIC_REMAP_OFFSET + 8>>
    OBVIOUS
  <2>5. offsets \in Nat \X Nat
    BY <2>4 DEF PIC_REMAP_OFFSET
  <2>6. PICK a : a = [x EXCEPT !.driver = TRUE]
    OBVIOUS
  <2>7. PICK b : b = [a EXCEPT !.offsets = offsets, !.requests = {}, !.service = {}]
    OBVIOUS
  <2>8. PICK c : c = [b EXCEPT !.mask = Lines]
    OBVIOUS
  <2>9. /\ c \in Processors /\ c.driver /\ c.offsets = offsets /\ c.service = {}
        /\ c.gates = x.gates /\ c.present = x.present /\ c.isr_handlers = x.isr_handlers
        /\ c.enabled = cpu.enabled /\ c.running = cpu.running /\ c.crashed = cpu.crashed
    BY <1>2, <2>5, <2>6, <2>7, <2>8 DEF Processors
  <2>10. PICK e : e = [c EXCEPT !.isr_handlers = handled]
    OBVIOUS
  <2>11. e \in Processors /\ e.present = x.present
    BY <2>3, <2>9, <2>10 DEF Processors
  <2>12. cpu' = [e EXCEPT !.present = present]
    BY <1>3, <1>5, <2>1, <2>2, <2>4, <2>6, <2>7, <2>8, <2>9, <2>10, <2>11
    DEF irq_initialize, probe, configure, set_mask, isr_register_handler, idt_enable_gate
  <2>13. /\ cpu' \in Processors /\ cpu'.service = {} /\ cpu'.driver
         /\ cpu'.offsets = offsets /\ cpu'.gates = x.gates /\ cpu'.present = present
         /\ cpu'.isr_handlers = handled /\ cpu'.enabled = cpu.enabled
         /\ cpu'.running = cpu.running /\ cpu'.crashed = cpu.crashed
    BY <2>3, <2>9, <2>10, <2>11, <2>12 DEF Processors
  <2>14. \A i \in Lines : PIC_REMAP_OFFSET + i \in x.gates
    BY <1>2 DEF PIC_REMAP_OFFSET, Lines, Vectors
  <2>15. Routed(cpu')
    BY <2>3, <2>4, <2>13, <2>14 DEF Routed
  <2>16. Orderly(cpu, phase) => Orderly(cpu', phase')
    BY <1>3, <2>13, <2>15 DEF Orderly
  <2> QED BY <2>13, <2>16 DEF InterruptsInv
<1> QED BY <1>2, <1>4, <1>5 DEF Processors

\* The driver's accesses to the controller.
LEMMA AccessKeeps == InterruptsInv /\ AccessPorts => InterruptsInv'
<1> SUFFICES ASSUME InterruptsInv, AccessPorts PROVE InterruptsInv'
  OBVIOUS
<1>1. cpu \in Processors
  BY DEF InterruptsInv
<1>2. phase' = phase
  BY DEF AccessPorts, SkipAccess, SendCommand, WriteByte, WriteConfiguration, ReadByte,
         WaitedReady, GiveUpWaiting, ReadNothing, Flush, RegisterHandler, Initialized, Next1
<1>3. ASSUME cpu' = cpu PROVE InterruptsInv'
  BY <1>2, <1>3 DEF InterruptsInv
<1>4. CASE \/ SkipAccess \/ SendCommand \/ WaitedReady \/ GiveUpWaiting
           \/ ReadNothing \/ Initialized
  BY <1>3, <1>4 DEF SkipAccess, SendCommand, WaitedReady, GiveUpWaiting, ReadNothing, Initialized
<1>5. CASE WriteByte \/ WriteConfiguration \/ ReadByte \/ Flush
  <2>1. cpu' = Wired(cpu, controller, controller')
    BY <1>5 DEF WriteByte, WriteConfiguration, Data, ReadByte, Flush
  <2>2. Alike(cpu, cpu')
    BY <1>1, <2>1, WiredEffect
  <2> QED BY <1>2, <2>2, AlikeKeeps
<1>6. CASE RegisterHandler
  <2>1. PICK handler \in Functions : cpu' = irq_register_handler(cpu, Program[step].arg, handler)
    BY <1>6 DEF RegisterHandler, Functions
  <2>2. PICK irq : irq = Program[step].arg
    OBVIOUS
  <2>3. IF cpu.driver THEN Alike(cpu, cpu') ELSE cpu' \in Processors /\ cpu'.crashed
    BY <1>1, <2>1, <2>2, RegisterEffect
  <2>4. CASE cpu.driver
    BY <1>2, <2>3, <2>4, AlikeKeeps
  <2>5. CASE ~cpu.driver
    BY <2>3, <2>5 DEF InterruptsInv
  <2> QED BY <2>4, <2>5
<1> QED BY <1>4, <1>5, <1>6 DEF AccessPorts

\* sti, with the timer's handler registered.
LEMMA EnableKeeps == InterruptsInv /\ EnableInterrupts => InterruptsInv'
<1> SUFFICES ASSUME InterruptsInv, EnableInterrupts PROVE InterruptsInv'
  OBVIOUS
<1>1. cpu \in Processors /\ ~cpu.crashed /\ cpu.running = NoLine /\ Orderly(cpu, phase)
  BY DEF InterruptsInv, EnableInterrupts, InMain
<1>2. PICK x : x = irq_register_handler(cpu, 0, "timer")
  OBVIOUS
<1>3. IF cpu.driver THEN Alike(cpu, x) ELSE x \in Processors /\ x.crashed
  BY <1>1, <1>2, RegisterEffect DEF Functions
<1>4. phase' \notin Starting
  BY DEF EnableInterrupts, Starting
<1>5. PICK enabled \in BOOLEAN : enabled = ~x.crashed
  OBVIOUS
<1>6. cpu' = [x EXCEPT !.enabled = enabled]
  BY <1>2, <1>5 DEF EnableInterrupts
<1>7. CASE ~cpu.driver
  <2>1. cpu' \in Processors /\ cpu'.crashed
    BY <1>3, <1>5, <1>6, <1>7 DEF Processors
  <2> QED BY <2>1 DEF InterruptsInv
<1>8. CASE cpu.driver
  <2>1. /\ cpu' \in Processors /\ cpu'.driver /\ cpu'.enabled /\ cpu'.running = NoLine
        /\ cpu'.service = cpu.service /\ cpu'.offsets = cpu.offsets /\ cpu'.gates = cpu.gates
        /\ cpu'.present = cpu.present /\ cpu'.isr_handlers = cpu.isr_handlers
    BY <1>1, <1>3, <1>5, <1>6, <1>8 DEF Processors, Alike
  <2>2. Orderly(cpu', phase')
    BY <1>1, <1>4, <1>8, <2>1 DEF Orderly, Routed
  <2> QED BY <2>1, <2>2 DEF InterruptsInv
<1> QED BY <1>7, <1>8

\* Interrupts, asked for and spurious: a handler is entered with nothing else in service.
LEMMA TakeKeeps == InterruptsInv /\ (TakeInterrupt \/ SpuriousRequest) => InterruptsInv'
<1> SUFFICES ASSUME InterruptsInv, TakeInterrupt \/ SpuriousRequest PROVE InterruptsInv'
  OBVIOUS
<1>1. /\ cpu \in Processors /\ Orderly(cpu, phase) /\ phase' = phase
      /\ cpu.running = NoLine /\ cpu.enabled /\ ~cpu.crashed
  BY DEF InterruptsInv, TakeInterrupt, SpuriousRequest, Interruptible
<1>2. /\ cpu.driver /\ Routed(cpu) /\ cpu.service = {} /\ phase \notin Starting
  BY <1>1 DEF Orderly
<1>3. ASSUME NEW irq \in Lines, NEW service \in SUBSET Lines, service \subseteq WithCascade(irq),
             NEW requests \in SUBSET Lines,
             NEW z, z = [cpu EXCEPT !.requests = requests, !.service = service],
             cpu' = isr_handler_common(z, VectorOf(z, irq), irq)
      PROVE  InterruptsInv'
  <2>1. /\ cpu' \in Processors
        /\ cpu'.running = irq /\ cpu'.service = service /\ ~cpu'.enabled
        /\ cpu'.driver = cpu.driver /\ cpu'.crashed = cpu.crashed /\ Routed(cpu')
    <3>1. /\ z \in Processors /\ Routed(z) /\ z.service = service
          /\ z.driver = cpu.driver /\ z.crashed = cpu.crashed
      BY <1>1, <1>2, <1>3 DEF Processors, Routed
    <3>2. PICK y : y = cpu'
      OBVIOUS
    <3>3. y = isr_handler_common(z, VectorOf(z, irq), irq)
      BY <1>3, <3>2
    <3>4. /\ y \in Processors
          /\ y.running = irq /\ y.service = z.service /\ ~y.enabled
          /\ y.driver = z.driver /\ y.crashed = z.crashed /\ Routed(y)
      BY <3>1, <3>3, TakenEffect
    <3> QED BY <3>1, <3>2, <3>4
  <2>2. irq # NoLine
    BY DEF Lines, NoLine
  <2>3. Orderly(cpu', phase')
    BY <1>1, <1>2, <1>3, <2>1, <2>2 DEF Orderly
  <2> QED BY <2>1, <2>3 DEF InterruptsInv
<1>4. CASE TakeInterrupt
  <2>1. PICK irq : irq = First(Deliverable(cpu))
    OBVIOUS
  <2>2. irq \in Lines /\ Deliverable(cpu) \in SUBSET Lines
    BY <1>1, <1>4, <2>1, FirstExists DEF TakeInterrupt, Deliverable, Processors
  <2>3. PICK requests : requests = cpu.requests \ {irq}
    OBVIOUS
  <2>4. PICK service : service = WithCascade(irq)
    OBVIOUS
  <2>5. requests \in SUBSET Lines /\ service \in SUBSET Lines
    BY <1>1, <2>2, <2>3, <2>4 DEF Processors, WithCascade, Lines
  <2>6. cpu.service \cup {irq} \cup (IF irq >= 8 THEN {2} ELSE {}) = service
    BY <1>2, <2>4 DEF WithCascade
  <2>7. PICK z : z = [cpu EXCEPT !.requests = requests, !.service = service]
    OBVIOUS
  <2>8. cpu' = isr_handler_common(z, VectorOf(cpu, irq), irq)
    BY <1>4, <2>1, <2>3, <2>6, <2>7 DEF TakeInterrupt, Interrupt
  <2>9. VectorOf(cpu, irq) = VectorOf(z, irq)
    BY <1>1, <2>7 DEF VectorOf, Processors
  <2> QED BY <1>3, <2>2, <2>4, <2>5, <2>7, <2>8, <2>9
<1>5. CASE SpuriousRequest
  <2>1. PICK requests \in SUBSET Lines : requests = cpu.requests
    BY <1>1 DEF Processors
  <2>2. PICK service : service = {}
    OBVIOUS
  <2>3. PICK z : z = [cpu EXCEPT !.requests = requests, !.service = service]
    OBVIOUS
  <2>4. z = cpu
    BY <1>1, <1>2, <2>1, <2>2, <2>3 DEF Processors
  <2>5. PICK irq : irq = 7
    OBVIOUS
  <2>6. cpu' = isr_handler_common(z, VectorOf(z, irq), irq)
    BY <1>5, <2>4, <2>5 DEF SpuriousRequest, SpuriousInterrupt
  <2>7. irq \in Lines /\ service \in SUBSET Lines /\ service \subseteq WithCascade(irq)
    BY <2>2, <2>5 DEF Lines
  <2> QED BY <1>3, <2>1, <2>3, <2>6, <2>7
<1> QED BY <1>4, <1>5

\* The handler ends: its line leaves service and the flag is set.
LEMMA ReturnKeeps == InterruptsInv /\ irq_handler => InterruptsInv'
<1> SUFFICES ASSUME InterruptsInv, irq_handler PROVE InterruptsInv'
  OBVIOUS
<1>1. cpu \in Processors /\ cpu.running # NoLine /\ cpu.running \in Lines
  BY DEF InterruptsInv, irq_handler, Processors
<1>2. phase' \in Starting <=> phase \in Starting
  <2>1. phase' = phase \/ (phase = "keyboard" /\ phase' = "running")
    BY DEF irq_handler, port_interrupt, on_keyboard_send_byte
  <2> QED BY <2>1 DEF Starting
<1>3. PICK x : x = Wired(cpu, controller, controller')
  OBVIOUS
<1>4. Alike(cpu, x) /\ x \in Processors
  BY <1>1, <1>3, WiredEffect DEF Alike
<1>5. PICK y : y = send_eoi(x, x.running)
  OBVIOUS
<1>6. cpu' = [y EXCEPT !.running = NoLine, !.enabled = TRUE]
  BY <1>3, <1>5 DEF irq_handler, irq_return
<1>7. PICK rest : rest \in SUBSET Lines /\ y = [x EXCEPT !.service = rest]
  <2>1. PICK rest : rest = x.service \ (FirstOf({i \in x.service : i < 8}) \cup
                                        (IF x.running >= 8
                                           THEN FirstOf({i \in x.service : i >= 8}) ELSE {}))
    OBVIOUS
  <2>2. rest \in SUBSET Lines
    BY <1>4, <2>1 DEF Processors
  <2>3. y = [x EXCEPT !.service = rest]
    BY <1>5, <2>1 DEF send_eoi
  <2> QED BY <2>2, <2>3
<1>8. /\ y \in Processors /\ Alike(x, [y EXCEPT !.service = x.service])
      /\ y.driver = x.driver /\ y.offsets = x.offsets /\ y.gates = x.gates
      /\ y.present = x.present /\ y.isr_handlers = x.isr_handlers /\ y.crashed = x.crashed
  BY <1>4, <1>7 DEF Processors, Alike
<1>9. /\ cpu' \in Processors
      /\ cpu'.driver = cpu.driver /\ cpu'.offsets = cpu.offsets /\ cpu'.gates = cpu.gates
      /\ cpu'.present = cpu.present /\ cpu'.isr_handlers = cpu.isr_handlers
      /\ cpu'.crashed = cpu.crashed /\ cpu'.running = NoLine /\ cpu'.enabled
      /\ cpu'.service = y.service
  BY <1>4, <1>6, <1>8 DEF Processors, Alike
<1>10. ASSUME ~cpu.crashed PROVE Orderly(cpu', phase')
  <2>1. Orderly(cpu, phase)
    BY <1>10 DEF InterruptsInv
  <2>2. x.running \in Lines /\ x.service \subseteq WithCascade(x.running)
    BY <1>1, <1>4, <2>1 DEF Orderly, Alike
  <2>3. y = [x EXCEPT !.service = {}]
    BY <1>4, <1>5, <2>2, EndEffect
  <2>4. y.service = {}
    BY <1>4, <2>3 DEF Processors
  <2> QED BY <1>1, <1>2, <1>9, <2>1, <2>4 DEF Orderly, Routed
<1> QED BY <1>9, <1>10 DEF InterruptsInv

\* What leaves the processor alone or only asks it for an interrupt.
LEMMA OthersKeep ==
  InterruptsInv /\ (kbd_initialize \/ ControllerBrings \/ HitKey \/ SecondDeviceSends
                    \/ TimerTicks \/ UNCHANGED ps2Vars) => InterruptsInv'
<1> SUFFICES ASSUME InterruptsInv,
                    kbd_initialize \/ ControllerBrings \/ HitKey \/ SecondDeviceSends
                    \/ TimerTicks \/ UNCHANGED ps2Vars
             PROVE  InterruptsInv'
  OBVIOUS
<1>1. cpu \in Processors
  BY DEF InterruptsInv
<1>2. CASE kbd_initialize
  <2>1. phase' \in Starting <=> phase \in Starting
    BY <1>2 DEF kbd_initialize, Starting
  <2>2. cpu' = Wired(cpu, controller, controller')
    BY <1>2 DEF kbd_initialize
  <2>3. Alike(cpu, cpu')
    BY <1>1, <2>2, WiredEffect
  <2> QED BY <2>1, <2>3, AlikeKeeps
<1>3. CASE HitKey \/ SecondDeviceSends \/ UNCHANGED ps2Vars
  <2>1. cpu' = cpu /\ phase' = phase
    BY <1>3 DEF HitKey, SecondDeviceSends, ps2Vars
  <2> QED BY <2>1 DEF InterruptsInv
<1>4. CASE ControllerBrings
  <2>1. phase' = phase /\ cpu' = Wired(cpu, controller, controller')
    BY <1>4 DEF ControllerBrings, ControllerMoves
  <2> QED BY <1>1, <2>1, WiredEffect, AlikeKeeps
<1>5. CASE TimerTicks
  <2>1. PICK requests : requests = cpu.requests \cup {0}
    OBVIOUS
  <2>2. requests \in SUBSET Lines
    BY <1>1, <2>1 DEF Processors, Lines
  <2>3. phase' = phase /\ cpu' = [cpu EXCEPT !.requests = requests]
    BY <1>5, <2>1 DEF TimerTicks
  <2>4. Alike(cpu, cpu')
    BY <1>1, <2>2, <2>3 DEF Processors, Alike
  <2> QED BY <2>3, <2>4, AlikeKeeps
<1> QED BY <1>2, <1>3, <1>4, <1>5

-----------------------------------------------------------------------------

\* No line stays in service after its handler, and once the kernel has turned interrupts
\* on they are off while a handler runs and never else.
THEOREM InterruptsEnd == PS2Spec => []NothingLeftInService
<1>1. InterruptsInv => NothingLeftInService
  BY DEF InterruptsInv, Orderly, NothingLeftInService, Starting
<1>2. InterruptsInv /\ [PS2Next]_ps2Vars => InterruptsInv'
  BY StartKeeps, AccessKeeps, EnableKeeps, TakeKeeps, ReturnKeeps, OthersKeep
  DEF PS2Next, Processor, Environment
<1> QED BY <1>1, <1>2, InterruptsInit, PTL DEF PS2Spec
=============================================================================
