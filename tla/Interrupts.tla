------------------------------ MODULE Interrupts ------------------------------
(***************************************************************************)
(* How a device's request becomes a call of a handler: the two 8259s       *)
(* (kernel/arch/i686/i8259.c), the vectors (idt.c, isrs_gen.c, isr.c) and  *)
(* the handlers of the sixteen lines (irq.c).  The module has no variable  *)
(* of its own: cpu is a record of all of it, and a device that interrupts  *)
(* says what its handlers do.                                              *)
(***************************************************************************)
EXTENDS Integers, Sequences, FiniteSets

Lines == 0..15
Vectors == 0..47  \* of 256: the exceptions and the lines'

PIC_REMAP_OFFSET == 32

NoHandler == "NULL"
NoLine == 16

\* The processor and its controllers as the boot loader leaves them: the lines on the
\* vectors of the BIOS, interrupts off, and lines that have asked before.
Cpu0(hasPic, requests) ==
  [hasPic |-> hasPic, driver |-> FALSE,
   offsets |-> <<8, 112>>, mask |-> {3, 4, 5}, requests |-> requests, service |-> {},
   gates |-> {}, present |-> {}, isr_handlers |-> {}, irq_handlers |-> [i \in Lines |-> NoHandler],
   enabled |-> FALSE, running |-> NoLine, crashed |-> FALSE]

-----------------------------------------------------------------------------
(* i8259.c                                                                 *)

set_mask(cpu, mask) == [cpu EXCEPT !.mask = mask]

\* Fault: the lines unmasked before are masked again.
UnmaskOnly(cpu, irq) == set_mask(cpu, Lines \ {irq})

unmask(cpu, irq) == set_mask(cpu, cpu.mask \ {irq})

\* The mask read back is the one written where there is a controller.
probe(cpu) == cpu.hasPic

\* Initializing a controller forgets what was asked and what was in service.
configure(cpu, offset1, offset2) ==
  set_mask([cpu EXCEPT !.offsets = <<offset1, offset2>>,
                       !.requests = {}, !.service = {}], Lines)

\* The order in which the controllers serve: the second one's lines come in by line 2.
Rank(irq) == IF irq < 8 THEN 8 * irq ELSE 8 * 2 + (irq - 8)
First(lines) == CHOOSE i \in lines : \A j \in lines : Rank(i) <= Rank(j)
FirstOf(lines) == IF lines = {} THEN {} ELSE {First(lines)}

\* Fault: the second controller's interrupts end there only, the first one's not at all.
EndsSecondOnly(cpu, irq) == [cpu EXCEPT !.service = {i \in @ : i < 8}]

\* An end of interrupt takes the first line in service out of it.
send_eoi(cpu, irq) ==
  LET second == IF irq >= 8 THEN FirstOf({i \in cpu.service : i >= 8}) ELSE {}
      first == FirstOf({i \in cpu.service : i < 8})
  IN [cpu EXCEPT !.service = @ \ (first \cup second)]

\* What the controllers may interrupt the processor for.
Deliverable(cpu) ==
  {i \in cpu.requests \ cpu.mask :
     /\ i >= 8 => 2 \notin cpu.mask
     /\ \A s \in cpu.service : Rank(i) < Rank(s)}

VectorOf(cpu, irq) ==
  IF irq < 8 THEN cpu.offsets[1] + irq ELSE cpu.offsets[2] + irq - 8

-----------------------------------------------------------------------------
(* idt.c, isrs_gen.c, isr.c.  A gate is set without its present bit, and   *)
(* is of the type that turns interrupts off.                               *)

idt_set_gate(cpu, vectors) == [cpu EXCEPT !.gates = @ \cup vectors, !.present = @ \ vectors]
idt_enable_gate(cpu, vectors) == [cpu EXCEPT !.present = @ \cup vectors]

isr_initialize_gates(cpu) == idt_set_gate(cpu, Vectors)
isr_initialize(cpu) == idt_enable_gate(isr_initialize_gates(cpu), Vectors)

isr_register_handler(cpu, vectors) ==
  idt_enable_gate([cpu EXCEPT !.isr_handlers = @ \cup vectors], vectors)

-----------------------------------------------------------------------------
(* irq.c                                                                   *)

irq_initialize(cpu) ==
  IF probe(cpu)
    THEN LET remapped == configure([cpu EXCEPT !.driver = TRUE],
                                   PIC_REMAP_OFFSET, PIC_REMAP_OFFSET + 8)
         IN isr_register_handler(remapped, {PIC_REMAP_OFFSET + i : i \in Lines})
    ELSE cpu

\* Without a driver this calls what memory holds at its unmask.
irq_register_handler(cpu, irq, handler) ==
  IF cpu.driver
    THEN unmask([cpu EXCEPT !.irq_handlers[irq] = handler], irq)
    ELSE [cpu EXCEPT !.crashed = TRUE]

\* The processor takes vector v for line irq: isr_handler_common finds irq_handler, or
\* prints and returns without an end of interrupt, or panics over an exception.
isr_handler_common(cpu, v, irq) ==
  IF v \in cpu.gates \cap cpu.present \cap cpu.isr_handlers
    THEN [cpu EXCEPT !.running = irq, !.enabled = FALSE]
    ELSE IF v \in cpu.gates \cap cpu.present /\ v >= 32 THEN cpu
    ELSE [cpu EXCEPT !.crashed = TRUE]

Interruptible(cpu) == cpu.enabled /\ cpu.running = NoLine /\ ~cpu.crashed

\* The first request the controllers let through.
Interrupt(cpu) ==
  LET irq == First(Deliverable(cpu))
  IN isr_handler_common(
       [cpu EXCEPT !.requests = @ \ {irq},
                   !.service = @ \cup {irq} \cup (IF irq >= 8 THEN {2} ELSE {})],
       VectorOf(cpu, irq), irq)

\* A request withdrawn before the processor answers comes as line 7, masked or not, and
\* with nothing in service.
SpuriousInterrupt(cpu) == isr_handler_common(cpu, VectorOf(cpu, 7), 7)

\* irq_handler ends: the end of interrupt, and iret sets the flag again.
irq_return(cpu) ==
  [send_eoi(cpu, cpu.running) EXCEPT !.running = NoLine, !.enabled = TRUE]
=============================================================================
