# Specifications of the experimental OS kernel

TLA+ modules that model the kernel under `src/kernel`, TLC configurations that check them
on small instances, and theorems about the heap, the memory it starts with, the keyboard,
the console, the interrupts, the files, the PCI buses and the disks that TLAPS proves for
every instance. Every definition is translated from the source; `PROJECT.json` names the
lines each one stands for.

## The system

The bootloader reads a memory map and loads the kernel; `Start` (`main.c`) sets up
the heap, the interrupt controllers, the PS/2 controller, the disks and the FAT
driver, starts the keyboard, prints a file and enters `loop`. From then on
everything happens in two places: interrupt handlers, which run to the end with
interrupts disabled (the gates are interrupt gates), and the main program, which
takes events off a queue and otherwise halts.

| Part | State | Operations | Talks to |
|---|---|---|---|
| Heap (`libc/memory.c`) | the free list, kept in the free memory itself; a header before every object | `aligned_alloc`, `malloc`, `calloc`, `free`, `realloc` | everyone calls it, interrupt handlers too |
| Memory map (`libc/memory.c`) | the map of the bootloader, sorted and cut in place | `memory_initialize` and what it calls | frees the first memory of the heap |
| Event loop (`events.c`, `main.c`) | `head`, `tail`, `event_count` | `add_event` (from an interrupt), `call_next_event`, `loop` | heap, keyboard, shell |
| Keyboard commands (`keyboard.c`) | the ring `cmd_queue`, `init_state`, `initialized` | `add_command`, `next_command`, `on_keyboard_send_byte`, `continue_init`, `kbd_initialize` | PS/2 port, keyboard |
| Keyboard scancodes (`keyboard.c`) | `scancode_bytes`, pressed keys, modifiers, toggles | `on_key_pressed` | event queue |
| Shell (`bash.c`) | the line being typed | `keypress_handler`, the commands | screen, I/O ports |
| Text output (`vga_text.c`, `format_print.c`, `stdio.c`) | the VGA buffer, the cursor | `vga_putc`, `vga_scrollback`, `printf` and its relatives | everyone prints |
| PS/2 controller (`ps2.c`) | the two devices | `ps2_initialize`, `send_byte`, port interrupts | keyboard, ACPI |
| Interrupts (`i8259.c`, `irq.c`, `isr.c`, `idt.c`) | masks, handler tables | registration, dispatch, end of interrupt | every driver |
| Files (`stdio.c`, `hal/vfs.c`) | 16 streams with buffers | `fopen`, `fgets`, `fread`, `fclose`, ... | FAT driver, screen |
| FAT driver (`fat.c`) | partitions, open files, one sector each | cluster chains, reading, directories | disks |
| Disks (`disk.c`, `ide.c`) | drives, partitions, the selected device | sector reads, GPT | I/O ports |
| PCI (`pci.c`) | the list of functions | the walk over the buses | IDE driver |
| ACPI, strings, lists, debug output, APIC, bootloader | | | |

What is hard in it: the interrupt of a key calls `malloc` and `add_event` between
any two instructions of the main program; memory is freed by one party and used
again by another; protocols with devices that repeat, refuse or do not answer;
and byte arithmetic on lists that live in the memory they describe. What must be
true of each part:

- the heap loses no byte and hands none out twice, and stays one list in order;
- the memory map gives it all of the memory it may use and nothing else;
- every key is handled once, in order, whole, and its memory comes back;
- the keyboard driver sends one byte at a time, never confuses a scancode with a
  response, and ends its initialisation with a keyboard it can decode;
- a decoder is in step with the keyboard after every key; a line stays in its buffer;
- a file is read as its cluster chain says; a sector read is of the selected drive;
- a registered interrupt is delivered, and acknowledged at the right controllers;
- the start of the kernel ends, and with the devices that are really there.

The hazards behind these, each at its line, are listed in `PROJECT.json`.

## Modules

| Module | Models | State and actions |
|---|---|---|
| `FreeList` | `free_memory` and `aligned_alloc` as operators on a list of nodes, by the byte | none: used by the next four |
| `Heap` | the heap's calls, one at a time | `freeList`, `blocks` (by their headers), `contents`, what the last call asked for and returned (`request`, `result`); `AlignedAlloc` / `AllocFails`, `Free`, `Realloc`, and `Write` for the owner of an object |
| `MemoryPool` | what a caller of the heap may rely on, without a list | `blocks`, `request`, `result`; `Grant`, `Refuse`, `Release`, `Move` |
| `MemoryMap` | `memory_initialize` | the map, the calls of `free_memory` made and due, the list; one action per turn of each loop: `SortNext`, `ClampFirst`, `NextRegion`, then `GoPast`, `StopBehind` or `FreeBefore` for each region a piece is compared with, `FreeRest`; `Finish` |
| `EventLoop` | `loop`, `call_next_event`, the interrupt of a key with `add_event`, bash's handler | the words of memory, the heap, `head`, `tail`, `event_count`, the program counter; one action per step of the main program, `KeyInterrupt`, `TimerInterrupt` |
| `EventQueue` | what `events.h` promises: every event once, in order | `queue`, `handled`; `Add`, `Handle` |
| `KeyboardCommands` | the command queue, its handler and `kbd_initialize`, with the keyboard and the line | `driver` (the statics), the bytes under way in each direction, the keyboard; `MainSetup`, `MainCount`, `MainSend`, `MainLeaves`, `Interrupt`, and the keyboard's answers |
| `FileStreams` | `fopen`, `fread`, `fgetc`, `fgets`, `fclose` over `vfs_read` and the FAT driver | `volume` (boot record and image), `files` (each stream with its `FatFileData` and buffer), `fatSector` and `fatBuffer`, the call under way; `FOpen`, `FRead`, `FGets`, `FClose`, and one action per turn of the loops of `load_file_buffer`, `find_file_in_dir` and `fat_read`, each sector read with an action that fails |
| `ByteFiles` | what a program may rely on from streams, without sectors | `open` (a name and a position for each stream), `fault`, `result`; `Open`, `OpenFails`, `Read`, `Gets`, `Close` |
| `Scancodes` | the decoder's tables, the decoder with modifiers and toggles, and what a keyboard of 104 keys sends for each, in a table of its own | operators on a decoder record: `on_key_pressed` and its parts |
| `Printf` | `format_print`, `print_num`, `vsnprintf` | operators from a format and arguments to characters |
| `Screen` | `vga_text.c` | operators on a screen record: `put_char`, `Backspace`, `vga_scrollback` |
| `Shell` | `bash.c`, over `Printf` and `Screen` | operators on a shell record: `keypress_handler`, `process_command` and the commands |
| `Console` | a user, the keyboard's bytes, the interrupt that decodes them, the event queue, the shell | `Press`, `Typematic`, `Release`, `Stroke`, `KeyInterrupt`, `StartShell`, `HandleEvent` |
| `Interrupts` | the 8259s, the gates, the dispatch to handlers | operators on a record of processor and controllers |
| `PS2Controller` | `ps2_initialize` as the sequence of its port accesses, the 8042, the devices, both interrupts, the end of `Start` | `cpu`, `controller`, `ps2` (the statics), `step`; one action per kind of access, `ControllerMoves`, `TakeInterrupt`, `irq_handler`, the user's and the devices' own |
| `PciBus` | the walk over the PCI buses | operators on a tree of functions |
| `IdeDrives` | `pci_initialize`, `ide_initialize` and `read_sectors`, over `PciBus` | `channels`, `drives`, what each drive is `working` at, the call of `read_sectors`, the channels with sectors `unread` (a history variable); one action per stretch between two waits, or per register written, and `DriveAnswers` |
| `Partitions` | `disk.c`, over `IdeDrives` | `partitions`, `partition_count`, `memory`; the loop of `read_gpt`, `disk_read_sectors` |
| `FreeListProofs`, `HeapProofs`, `MemoryMapProofs`, `KeyboardProofs`, `PS2Proofs`, `FileStreamsProofs`, `ConsoleProofs`, `DisksProofs` | theorems | |
| `MC*` | values for TLC | |

Some abstractions. Sizes are those of the i686 build: a header has 12 bytes, a node 8, an
`Event` 12, a `KeypressEvent` 20. `BestFit` and `NodesBefore` say by a property what the
scans of the list find; the loops have no other effect. `calloc` is `malloc` of a product.
Sums of sizes are those of a `size_t`, modulo `PointerSpan`; callers are assumed to ask
for so little that none of them wraps (`NoWrap`), and for such products of `calloc`: what
the code does with more is not modelled. In `EventLoop` a word of memory holds a pointer,
part of the key press it was written for, a handler or junk (headers, nodes, memory never
written), so an object that is overwritten, or read after it was freed and used again,
shows. `malloc` and `free` are single steps there. In `KeyboardCommands` a byte of the
keyboard carries what it is (answer, response, scancode) next to its value; the driver
looks at the value only. The functions of the driver are operators on the record of its
statics, because one interrupt goes through several of them.

In `FileStreams` a sector holds bytes, entries of the FAT or entries of a directory;
a byte says of which file and which place it is, so a byte from the wrong sector
shows, and whether it is a newline or 0xFF. Sizes are constants. A call runs in
several steps because each sector it reads may fail; calls do not overlap, since
only the main program uses files. `read_sectors` (`ide.c`) ends without a `return`;
what the compiler leaves there in both builds is the number of sectors read, so a
read that succeeds returns 1. A read that fails has not touched the buffer. A volume
comes with the `objects` on it, a chain of clusters and a size for each path, a
directory's size being 0. Volumes are consistent: the image is the one its objects
describe (`IsConsistent`, which TLC evaluates on the volumes of the run). The data
begins at least two clusters behind the start of the partition (true of any FAT 32
volume of the usual size), and `malloc` succeeds.

Where the code writes outside an array (`scancode_bytes`, `command`, the screen's
first row) the model notes it and ends there: what follows depends on the layout of
the build. A character is a name. The PS/2 driver has no loop whose number of turns
depends on a device, so its code is data: a sequence of accesses, some of which are
made on a condition or left out after a wrong answer. A machine, a PCI tree, a set of
drives and a partition table are chosen at the start and stay; the widths of bytes
and words are constants where values wrap. `wait_ps2_data` gives up after 65535
reads, which `ReadNothing` does when nothing is coming, or, as trouble, when
something is. `wait_ps2_cmd` gives up, as trouble too, in `GiveUpWaiting`: `send_byte`
and `initialize_device` return then, the others write to a controller that is busy and
does not take it.

A drive that is busy or has data to give takes no register and no command (IDENTIFY only
comes to drives that do nothing). After an error the
registers keep what was written to them last. It ends a sector it cannot read with an
error or with a device fault alone, and IDENTIFY with either, as its kind says. The ports
of a channel in native mode are off by one, so the status is read from a register that
belongs to no drive: a computer is chosen for which it reads as 0 or as 0xFF, and no
other value is tried.

A definition introduced by "Fault" is not the code: it is a wrong version of the
definition below it, and the properties are known to fail with it in place.

## Runs

`tlc -config X.cfg M`, in this directory.

| Run | Question | Bounds |
|---|---|---|
| `heap` (`MCHeap`) | Does any order of calls lose, share or strand a byte? Does the heap implement `MemoryPool`? | two regions of 72 and 40 bytes, objects of 0, 5 and 20 bytes: at most four objects, odd sizes (so padding 0 to 7, remainders of 8 bytes and less), merges on both sides, and exhaustion all occur |
| `heap_realloc` | Does realloc keep the contents? | the same; **violated** |
| `memory_map` (`MCMemoryMap`) | Is exactly the available memory free at the end? | every map of one to three regions in order and without overlaps in 0..9, and of one region with a reserved one without a byte at or in it, or with reserved ones that end at the last pointer and lie above it; the kernel at 4..5, first available byte 1 or 3, pointers modulo 16 |
| `memory_map_reserved` | Does a reserved region stay reserved when it overlaps an available one? | two maps; **violated** |
| `event_loop` (`MCEventLoop`) | Is the queue right when interrupts come at the points in `Interruptible`? | five keys, ten free lists with holes for an event, a key press, either or none |
| `event_handler` | The same, with keys also hit while the handler runs | three keys suffice; **violated** |
| `keyboard` (`MCKeyboard`) | Does initialisation end, with the right keyboard, and lose no scancode? | two scancodes, five garbled bytes (one more than fail a command), one byte given up on, a ring of three (so it wraps; the code has ten and never more than two in it) |
| `keyboard_argument` | Is a command acknowledged only once all of it was sent? | the same; **violated** |
| `files` (`MCFiles`) | Do streams give the bytes of their files, whatever other streams do and whichever sector cannot be read? | two streams; two volumes, of one and two sectors to a cluster, with chains that go back and forth over three sectors of the FAT; files of five, four (a whole number of sectors) and no bytes; a directory; reads of 1 and 3 bytes over sectors of 2; lines of up to 3 |
| `files_open` | Does fopen return? | the same; **violated** |
| `console` (`MCConsole`) | Is every key reported as it was hit, does the line on the screen match the shell's, does Enter run what was typed, do numbers print as they are? | a fast user with seven keys, two at a time, five presses, repeats and releases, up to eight events behind; for each of the 104 keys a user with it and Shift, two presses, repeats and releases; a typist with six keys and seven strokes; a line of 5 characters (so it fills), a screen of 4 by 3 (so it wraps and scrolls), words of 8 bits; 1920 directives with five numbers each side of their limits, 12-bit `long long` |
| `devices` (`MCDevices`) | Does the start of the kernel find the devices that are there, whatever they are, and do keys and sectors come through after it? | every pair of PS/2 devices with a self test that resets or not, one channel, an early key, a late answer or a wait given up (one each), no PIC, no PS/2; two keys, two ticks or spurious interrupts; four buses, two devices of two functions; every pair of drives on a channel in each mode, good, failing or faulting, a reserved register of 0 or 0xFF, two controllers; tables of five entries at 1, 2 and 4 to a sector, bad sectors, memory for 0 to 8 blocks; two requests, of counts that narrow to 0 too; bytes of 4 values and nibbles of 2 (so addresses pass 28 and 32 bits' equivalents) |

### The heap

`BytesAccountedFor` and `NoByteTwice` compare the initial list with what is free
and what is allocated, byte by byte. `FreeListCoalesced` is what makes a later
allocation succeed, and with it `NoFragmentation` holds: when everything is freed,
in any order, the list is the first one again. `PoolSpec` says the same from
outside: what is granted was nobody's, and NULL is returned only if no run of free
bytes would have held the object with the worst padding.

`ReallocKeepsContents` fails: the copy of `realloc` runs from the new object to the
old one. Two more divergences have no run: the padding is computed as
`(base + 12) % alignment`, right only for addresses that are multiples of 4 (after
an object of 5 bytes the next is not aligned), and `calloc` does not clear.

### The memory map

A map is tidy (`IsTidy`) if its regions are in order and do not overlap, but for
reserved regions without a byte, which the bootloader passes on as the BIOS gives them
and which may lie anywhere; if its regions end below 2^32, but for reserved ones
whose end is cut to 0, as that of the BIOS is; and if only the first reaches below
the first available byte. For a tidy map the first list is exactly the memory that
should be free (`ExactlyTheAvailable`), no byte is freed twice (the precondition
of `free_memory`), regions that touch are merged, and the number returned is the
number of bytes in the list. The list therefore meets the assumption
`HeapAssumption` of `Heap`, but for the size of a node: a region of fewer than 8
bytes would not hold one. Outside these maps the code does not do what its
comments say: after an overlap it goes on from the start of the overlapping region
(`ReservedNotFreed` fails); two available regions that overlap are freed twice; a
map out of order loses regions in `sort_regions`, whose swap does not write the
element it saved; available regions after the first are not cut at the first
available byte; regions above 4 GiB are taken modulo 2^32.

### The event loop

The main program is cut before every access that an interrupt could fall between,
with `head = head->next` and `event_count--` cut in a load and a store, as the
default build compiles them. `Interruptible` is the set of points at which a key
may be hit. The code disables interrupts nowhere, so the real set is all of them.
The runs find where that is harmless: at `check`, `test`, `fetch`, `load`, `idle`
and `halted` the loop implements `EventQueue`, liveness included, and all memory
comes back (`QuietHeap`). That is not obvious: `tail` keeps pointing at freed
events, so events get linked to themselves and `head` is left dangling; it works
because the heap, once empty of keys, gives the next event the same memory.
At the other points it breaks. While the handler of a key runs, memory is not as it
was, and a new event gets other memory than the dangling `head` points at
(`AddsToHead` fails, run `event_handler`). At `store` and `countStore` the value
loaded is stale: a key is lost, or `event_count` is. At `release` and `countLoad`
the queue is already past its last event but its memory is not free.

Fairness: the main program runs (`WF_vars(Main)`) and the timer ticks
(`WF_vars(TimerInterrupt)`), which `Start` enables before the loop. Without the
timer a key hit between the check of `event_count` and `hlt` would wait for the next.

### The keyboard

The keyboard is external: it answers each byte once and in order; it takes a
command where an argument is due as a new command, as PS/2 keyboards do; it may
ask for any byte again. `send_byte` may give up on a busy controller, and its
callers ignore that. `OneByteAtATime` is what keeps answers and commands paired.
`ScancodesReachDecoder` relates what was typed with what `on_key_pressed` got,
in spite of the driver not being able to tell a scancode from a response: the
initialisation first turns scanning off. `InitializedMeansSet2` relates the
driver's last state with the keyboard's. `InitEnds` holds but for two exceptions
it names: a byte given up on, for which there is no timeout, and an argument
that was never sent. The second is a bug: on a resend request for an argument the
command byte goes out instead (`AcknowledgedMeansSent`, run `keyboard_argument`).

Fairness: main program, interrupt of a byte that is there, answer of the keyboard.
Nobody has to type.

### Files

`BytesSpec` says that whatever two streams do, each delivers its file's bytes in
order, and falls short only at the end of the file or when a sector could not be
read during the call; an error stays until the stream is closed. It rests on
`BufferHoldsPosition` (between calls the buffer has the sector of the next byte) and
on `FatBufferIsItsSector` (the FAT sector the streams share is the one its label
says). `ReadsReturn` says that reading ends, `fgets` at the end of a file included.

`ByteFiles` says of `fgets` what the code does with a byte 0xFF: it ends the line and
is lost, since `fgetc`'s 255 is EOF once it is a `char`. Neither an error nor the end
of the file need be the reason when `fgets` returns NULL.

`OpensReturn` fails: in a directory that goes on behind its first sector, a name
that is not in that sector is looked for there forever (`fat.c:411`). The image the
build makes has so few files that this does not happen. An `fopen` that fails also
loses the `FatFileData` it allocated; no property counts it.

Fairness: a call runs on, and the drive answers each command with data or an error
(`WF_vars(Runs)`). The program need not call.

### The console

`KeysReported` compares what the decoder reports with what the user did: key, press or
release, and the character under the Shift and Caps Lock the user sees. It holds until a
key is hit that the decoder gets wrong, and `Mistaken` is the list of these: the keys that
the tables have otherwise or not at all (`MissingKeys`: 6 on the pad is a 7 at
`keyboard.c:117`, Enter on the pad reads as Escape, and the arrows are moves of a mouse or
Escape); Pause; Print Screen when it is released (its second scan begins in the middle of
the break code) or hit with Shift; the keys of the middle block with Shift (the fake Shift
codes around them change the modifier); releasing one Shift while the other is down (there
is one flag); and Caps Lock held down (it toggles at each repeat). What a key sends and
what is written on it comes from tables of 104 keys and their characters (`KeyBytes`,
`EKeyBytes`, `Legends`) that, but for Pause, share nothing with the decoder's; each of the
six in `MissingKeys` is needed, since without it the run fails. The pad counts as digits:
Num Lock is kept and looked at by nothing. Multimedia and power keys are not among the
104, so the decoder's entries for those are compared with nothing. `ScancodesInBounds`
says that Pause alone runs over `scancode_bytes`: its eight bytes are all a prefix of
themselves, so the scan does not end with the eighth.

`LineOnScreen` relates the buffer of the VGA with the shell's array and with what was
typed, also across the edge of the screen and while it scrolls. It needs that no Tab
was typed: Backspace takes one column of the up to four. With Tabs, erasing can run
past the prompt and, on the first rows, out of the buffer; without, it cannot
(`ShellInBounds`), though a row is found to end by its characters. `ShellInBounds`
also finds the length up to which a line is safe: two less than the array. The code
looks at no length at all.

`ExecutedIsTyped` states commands from the typed text alone, over arrays and
remainders of earlier lines. It holds until Backspace is used: `process_command`
clears up to `command_length`, so a character taken back stays and is part of a later
line. The array holds NULs at first and blanks where longer lines were. That both
print alike is in the property; that `memcmp` tells them apart is left out of it
(`EndsOutsideWords`): a word typed without the blank it ends with, `inb` alone, is an
invalid command until a longer line was run, and the command from then on.

`PrintsFaithfully` reads printed numbers back. It names what the code does otherwise:
`-` with `0` appends zeros to the number; `#` takes two characters of the field
whatever it prints; a zero of precision 0 counts a digit it does not print; flags
stay on until the end of the format. `stdio.h` and the comment of `print_num` promise
the behaviour of C's `fprintf`.

No liveness is checked here: that events are handled is the subject of `EventLoop`,
and that interrupts come of `PS2Controller`.

### The devices

`DevicesFound` is about a protocol without any check: a timeout is not seen by the
callers of `wait_ps2_data` (its `bool` makes the error a 1), so each step relies on
the last answer having been taken. It holds if every answer comes in time, the
controller takes each byte in time, and nobody touches a device before the driver runs; a
key hit earlier, or an answer that is late, is read as the answer to the next command, and
what a busy controller was not sent is waited for all the same. The run has all three.
On a
controller of one channel the driver finds a second one anyway (the comparison at
`ps2.c:391` has no effect, and the answer tested is the last byte again), which is
why the property speaks of both ports only for two channels.

`KeysServed`: the kernel's start ends and every key reaches the driver, unless
something on port 2 sends a byte. Line 12 is never delivered: unmasking it leaves the
cascade masked, and `enable_irqs` sets no bit for port 2 (`0x02 & channel_2_ok` is 0).
So its byte stays in the output buffer and the keyboard's never get there. The
branch of `irq_handler` for port 2 does not run in any behaviour. A keyboard on port 2
would have `kbd_initialize` wait for ever; without a PIC the first registration calls
through NULL (`crashed`). `NothingLeftInService` covers ticks, keys, unregistered lines
and spurious interrupts, for which the code sends an end of interrupt too many: harmless,
since handlers do not nest.

`PciOnce` needs that each bridge leads to a higher bus of its own (`Sound`). The trees
of the run have others too: a circle fills the stack. A tree without one can fill it as
well, if the buses stand deeper behind one another than the stack holds (it begins at
0x1000); `PciOnce` says that this takes fewer than there are buses. `DrivesFound` covers the
cache of the selected drive, that a second controller's drives replace the first's, and
that channels in native mode have no drives (the BAR's low bit is taken for part of
the port: `There`). `PartitionsAreTheEntries` has the size one sector short, as the code
does; it says that all memory is accounted for, what `read_gpt` loses included
(`leaked`): a partition that finds no memory for its list node is counted and lost.
`SectorsAsAsked` leaves out what narrowing changes: addresses from 2^32 on, which lose
their high bits, and counts that a byte does not hold. Of these 0 has a sequel: to the
drive it is 256 sectors, which it holds while the next request of its channel, whichever
drive that is for, writes registers that are not taken and a command that is not either
(`ide.c:137` to 143), and reads those sectors as its own. The property excepts such
requests and no others (`unread`); that none gives more sectors than were asked for it says
of all. It does not say that a read ends within its partition: only the first
sector is tested.

`DisksStart` excepts three places where the driver polls for ever: a channel that floats at
0xFF and the reserved register of a channel in native mode that reads 0xFF (`ide.c:212`),
and a drive that ends IDENTIFY with a device fault and no error (`ide.c:233` looks at ERR
and DRQ alone, where a read looks at DF too). The exceptions name the step and the drive
the driver is at, so a computer with such a drive is excepted only once it gets there.

Fairness (`MCFairness`): the processor goes on with its program and takes the interrupts
it may; the 8042 brings bytes it has; a drive ends what it was asked. All three are the
hardware's; nobody has to hit a key. The kernel's memory suffices for the list of
PCI functions (the code panics otherwise).

The runs that set `CHECK_DEADLOCK FALSE` model a part that ends: initialisation,
or a search for one violation.

## Proofs

`FreeListProofs` proves of the two operators every other module uses, for any list
and any arguments the code could pass:

- `FreeMemoryEffect`: after `free_memory` of bytes none of which were free the list
  covers those it covered and the new ones, is in order, has a gap between any two
  nodes and no node under 8 bytes;
- `AllocationEffect`: `aligned_alloc` with room, of a size whose sums do not wrap
  (`NoWrap`), returns a block out of one node, the object fits behind its header, and the
  list loses exactly the block's bytes;
- `SameBytesSameList`: two lists in order and merged that cover the same bytes are one
  list.

The first two go through `Splice`, the replacement of a few neighbouring nodes by at most
one: `SpliceElements` says what its elements are, `SpliceOrigin` where an element
comes from, `SpliceSeparated` when the order survives. `NodesBeforeExists` and
`BestFitExists` justify the `CHOOSE`s; the latter needs a least element of a set
of numbers, `LeastElement`. `SameBytesSameList` goes from node to node: where one
begins (`NextNodeBegins`) and ends (`NextNodeEnds`) can be told from the bytes.

`HeapProofs` proves `Spec => []HeapInv` (`HeapCorrect`) for every memory size,
every initial list that is in order, merged and in memory, every set of sizes whose sums
do not wrap and every set of alignments up to 116 (the offset is kept in a `char`). The
inductive invariant is `HeapInv` itself: what malloc hands out is disjoint from the
other blocks only because the list is, and the list stays merged only because no
freed byte was free, so none of its five parts is inductive alone. `Shape` states
it of a list and a set of blocks, over all naturals instead of the bytes of memory,
so that the two changes of `realloc` can be taken one after the other.
`ObjectsInside` is a part of it. `NothingFragments` follows by `SameBytesSameList`: with
no blocks left the list covers the bytes of the initial one.
`HeapImplementsPool` shows every step of `Heap` to be a step of `MemoryPool` or a
stutter; its main lemma, `FailureMeansNoRoom`, is that a run of unowned bytes lies
in a single node, because nodes never touch.

`MemoryMapProofs` proves the four properties of the memory map for every kernel,
pointer width and number of regions, if every map is tidy (`IsTidy`, as above; TLC
evaluates that the maps of the run are, `TidyMapsAreTidy`). The inductive invariant is
`TidyInv`:

- the loops change nothing in the map but its first region (`RegionsInv`), since in
  order nothing is moved;
- what is due is memory of the region before `index`, outside the kernel, in at most two
  parts, the first of which ends before the second (`PiecesInv`);
- the list covers the bytes of the regions before `index`, but for those due and the
  kernel's (`BytesInv`), whatever turn the loops are at. An empty region can cut a piece
  in two, and this is the only turn of the inner loop that frees anything;
- the list is in order and merged, nothing was freed twice, and the count is that of
  the bytes covered (`ListInv`).

`FreedOnce` rests on all of them: a piece is not free yet because no other region before
`index` has its bytes (`RegionsApart`) and what is due is not covered.

`FileStreamsProofs` proves of every consistent volume, number of streams and sector size
the types (`StreamsTyped`), `BufferHoldsPosition` (`BuffersCorrect`) and
`FatBufferIsItsSector` (`FatBufferCorrect`). The last is inductive as it stands: only two
actions, both turns of `next_cluster`, touch the label or the buffer (`CallsKeepCache`,
`RunsKeepCache`). The other two are not, because a buffer is right between calls
only if each call leaves it so. `StreamsInv` (`StreamsStayInOrder`) therefore says how far
the call under way has come: `OpenInv` that the search of `fopen` is at the object of
a prefix of the path, in its first sector, or reads on in a directory where the name
is not; `ReadInv` that the walk over clusters is at or before the cluster of the
position, and that what was delivered so far are the file's bytes from where the
position was when the call began.

From `StreamsInv` it follows that every behaviour of `Spec` is one of `ByteFiles`
(`StreamsAreFiles`). A stream that is being read is seen as the call found it
(`before`), so every step but the last of a call changes nothing that is seen, except
that a disk may fail; the last is `Read`, `Gets`, `Open` or `OpenFails`. The theorems
are about `Spec`; `FairSpec`, which the run checks, only adds fairness.

`KeyboardProofs` proves of the command queue, for every size of it, every number of
resends and any number of keys, garbled bytes and bytes given up on: its types
(`CommandsTyped`), that no two bytes are under way (`NeverTwoBytes`), and that an
initialisation without an error leaves a keyboard in set 2 that scans
(`InitializedKeyboard`). The inductive invariant is `CommandsInv`:

- the queue (`QueueInv`) holds at most one command between two steps, the one of its
  stage, at most with its argument in the place of its code;
- the line (`LineInv`): a byte or an answer is under way only while that command waits
  for its acknowledgement, and the byte is one the stage may send;
- the keyboard (`KeyboardInv`): what each stage has brought about. `ResponseAwaited` ties
  the set the keyboard tells to the one it is in, and the two parts about keys are what
  makes sure that the byte taken for the response is no scancode.

`NoScancodeLost` proves `ScancodesReachDecoder` on top of it, with one more part: the
response is behind its acknowledgement (`ScancodesInv`), so that no byte of a
key is taken for either.

None of these theorems is inductive alone: a second byte is ruled out by the queue,
and the keyboard's set by which bytes can be on the line. `Outcome` lists what one byte
may do to the driver (`OnKeyboardSendByteEffect`); the actions then argue over outcomes
and never over the code.

`ConsoleProofs` proves every safety property of the console but two, for any users who
hit any keys, any screen and any size of line that fits it with the prompt, any width of
word. Three invariants stand behind them:

- `WireInv`: but for Pause, what is on the wire has at most two prefixes in a row and a
  plain byte behind them (`Tame`), and where the decoder has more than three bytes the
  next ones on the wire end its scan (`Room`). Nothing is assumed about which key's
  bytes the decoder is at; a code begins only when the wire is silent. From it
  `ScancodesStayInBounds` (`scancode_bytes` is not overrun);
- `ShellInv`: the array, the line and `longest` agree, and the text before the cursor is
  the prompt and the line (`Behind`). `put_char` and the scroll move that text as a whole
  (`WriteKeepsScreen` and the lemmas before it), a line never wraps by more than the screen
  because it is shorter than all rows but one, and Backspace finds the end of the row above
  because everything from the cursor on is NUL (`RestBlank`). From it `ConsoleTyped`,
  `ShellStaysInBounds` and `LineStaysOnScreen`;
- `RestBlanked`: while nothing was taken back there is nothing but blanks and NULs behind
  the line. With it `run_command` finds in the array what `Meant` reads in the typed
  text, word by word and number by number, and `TypedIsExecuted` follows.

Assumed (`ScreenAssumption`, `ShellAssumption`, `ConsoleAssumption`): the prompt and a
full line fit on all rows but one (82 characters of 1920), a word is shorter than the
array by two or more (5 of 80), users hit keys that have a code, and ports answer
numbers.

`to_int`, `print_num`'s digits and the output are folds. A fold is known by its
equation; that the equation has a solution is shown by induction over the texts' length,
which goes by a least counterexample (`LeastElement`) since the library's induction
takes an operator.

`PS2Proofs` proves `NothingLeftInService` for every machine (`InterruptsEnd`). What it
needs besides (`Orderly`): nothing but the running line, and line 2 for a line of the
second controller, is in service; interrupts are on only after every line has got its
vector and handler (`Routed`); and a kernel that registered a handler without a driver
has crashed. Nothing is assumed of the 8042, so it holds whatever bytes that brings.

`DisksProofs` proves `DrivesFound`, `PartitionsAreTheEntries` and `SectorsAsAsked` for
every number of values a byte and a nibble have, every set of controllers and drives, every
table and any number of requests (`DrivesAreFound`, `PartitionsFound`, `RequestsServed`).
They are about `DiskSpec`, the disks by themselves; a behaviour of the run is one of the
disks or one of the PS/2 controller. The inductive invariant is `DiskInv`:

- the search (`SearchInv`, `SelectInv`): the drives before the one looked for are found,
  and that one as far as its steps have come; until the drives are known a channel's last
  selected drive is the one its register names, which is what makes the answer to
  IDENTIFY that of the drive asked (`Probing`). Afterwards `read_sectors` names the
  drive without `selected_dev`, which is not used again;
- between calls (`QuietInv`): a drive of a channel that is not `unread`, and that no call
  reads from, is neither busy nor has data, so that it takes the registers of the next call;
- a read (`ReaderInv`): of a channel that is not `unread` the registers written so far hold
  what the call names (`Registered`), the drive is then at the sector that is due with as
  many left as are to come (`Reading`), so the count of the drive and that of the loop end
  together. Behind it
  stands `SectorNamed`: an address of at most 28 bits, taken apart into registers, is put
  together again by the drive;
- the table (`GptInv`, `TableInv`): the sector in the buffer is the one `gpt.lba` says, the
  entry at an offset in it is the next (`EntryIs`), and the partitions are those of the
  entries so far until one is lost, after which no memory is left. `UsedBefore` counts the
  entries in use: where entry `i` is among the partitions is a number and not a search;
- a request (`RequestInv`): the call that runs is the one the last request made.

`FunctionsEnteredOnce` is `PciOnce` for every tree, and the walk is a recursion over
how deep buses may nest. The argument is about sets of buses: what is behind a bus is the
least set that has it and is closed under bridges (`Behind`). On a sound tree two bridges
of one bus have nothing in common behind them: a least bus in common would be reached
through one bridge, which is then behind both (`BehindApart`). So the parts of
`scan_bus` enter disjoint sets, everything once (`Looked`, `LooksInTurns`, `DeviceLooks`),
and by induction over the nesting so does the whole (`BusWalks`); each bus behind another
has a higher number, so as many levels as there are buses suffice. `Reached`, which
takes steps through bridges, is the same set: as long as it grows it takes in another
bridge, and there are no more than it takes steps (`ReachedIsBehind`).

Assumed of a computer (`IdeAssumption`, `DiskAssumption`): that the buses, devices and
functions in its tree are numbers of their widths (`IsTree`; `scan_bus` takes a byte, and
its loops give devices 5 and functions 3 bits), that the IDE controllers listed by the
walk over its buses have drives, which TLC evaluates, and that a table is one of its
format: it lies behind its header, within the addresses of 32 bits, its entries fill
sectors evenly, and none ends before it starts. Whether a table, drive or sector can be
read, and whether memory suffices, is open.

Left to TLC:

- liveness (`InitEnds`, `ReadsReturn`, `KeysServed`, `DisksStart`, the violated
  `OpensReturn` and the fairness part of `EventsSpec`), which the prover does not do;
- everything in `EventLoop`. Its properties hold for the ten lists of the run and not for
  every list: `tail` is not reset when the queue is emptied, and `add_event` writes
  through it into memory that was freed. With a list that is nearly full the next event
  is not where the last one was, and the write hits something else, for instance with
  nodes of 60 bytes at 28 and 92 at 100 and four keys. A theorem would need to
  assume what makes it work, that the heap gives the first event of a burst always the
  same memory;
- `KeysReported`, whose decoder and keyboard are two tables that the run compares for each
  of the 104 keys, alone and with Shift, and for those of the fast user in pairs; and
  `PrintsFaithfully`, which reads the printed number back with a parser of its own, over
  formats listed in `MCConsole`;
- what the PS/2 driver finds (`DevicesFound`), which follows a program of some sixty
  accesses whose answers depend on the machine, and `PS2TypeOK`, which bounds the keys
  served by those hit and those hit early: which bytes are left in flight when the driver
  starts depends on that program and on late answers, so its invariant would be the
  program again, access by access.

## Plan

1. Heap, memory map, event loop, keyboard commands, files.
2. Scancodes, shell, screen, formatting; PS/2 controller, interrupts; PCI, IDE drives,
   partitions.
3. Theorems: of the heap, the memory map, the keyboard's commands, the interrupts,
   the files, the disks, the console and the PCI buses (this version). Next: the queue of
   events for a heap that gives the first event of a burst always the same memory. A
   pointer-level `free` interrupted by `malloc`.

## Not modelled

- ACPI tables (`acpi.c`): a search of firmware memory and sums over bytes, once and
  with nothing else running. `find_rsdp` divides the address it is given by 16
  where it would round it up, so it searches from a sixteenth of it on. A model would
  restate the sums.
- `string.c`, and `list_remove`, which has no caller: loops over their arguments that
  a unit test covers. The models use what they do to lists and bytes.
- `debug.c`, `e9.c`, `hexdump`, colours: output only.
- `gdt.c`: a constant table. `apic.c`: never called.
- The bootloader: BIOS calls, mode switches, and a FAT 32 reader in assembly that runs
  once, alone.
