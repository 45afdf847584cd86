------------------------------- MODULE Partitions -------------------------------
(***************************************************************************)
(* The partitions of the first disk (kernel/disk.c): reading its table at  *)
(* the start of the kernel, and then sectors of a partition.               *)
(*                                                                         *)
(* Memory is counted in blocks: malloc fails when none is left.            *)
(***************************************************************************)
EXTENDS IdeDrives

CONSTANTS
  Requests,     \* [sectors, lba]: what is asked of the partitions
  MaxRequests   \* bound: how many in a row

SectorSize == 512

\* A table is that of its format: behind its header, in sectors of 32-bit numbers, with
\* entries of 128 bytes at least that lie in a sector or begin at one.
ASSUME DiskAssumption ==
  /\ MaxRequests \in Nat
  /\ Requests \subseteq [sectors : Nat, lba : Nat]
  /\ \A c \in Computers :
       /\ c.memory \in Nat
       /\ c.gpt \in [valid : BOOLEAN, start : Nat \ {0, 1}, entrySize : Nat,
                    entries : Seq([used : BOOLEAN, start : Nat, end : Nat])]
       /\ c.gpt.entrySize >= 128
       /\ SectorSize % c.gpt.entrySize = 0 \/ c.gpt.entrySize % SectorSize = 0
       /\ c.gpt.start + (c.gpt.entrySize * Len(c.gpt.entries)) \div SectorSize < Width(4)
       /\ \A i \in 1..Len(c.gpt.entries) : c.gpt.entries[i].start <= c.gpt.entries[i].end

VARIABLES
  gpt,              \* read_gpt: [drive, i, lba, loaded, step], and buffer's sector
  partitions,       \* the list: [start, size, drive]
  partition_count,
  memory,           \* blocks left
  leaked,           \* blocks given up while nobody had them any more
  request,          \* the call of disk_read_sectors that runs, or was last: [p, sectors, lba]
  answer,           \* its result and the sectors in its buffer
  requests          \* requests so far

diskVars == <<ideVars, gpt, partitions, partition_count, memory, leaked, request, answer,
              requests>>
tableVars == <<partitions, partition_count, memory, leaked>>
requestVars == <<request, answer, requests>>

NoDisk == -1
NoRequest == [p |-> 0, sectors |-> 0, lba |-> 0]
NoAnswer == [sectors |-> 0, buffer |-> <<>>]
Gpt0 == [drive |-> NoDisk, i |-> 0, lba |-> 0, loaded |-> 0, step |-> "off"]

DiskInit ==
  /\ IdeInit
  /\ gpt = Gpt0 /\ partitions = <<>> /\ partition_count = 0
  /\ memory = computer.memory /\ leaked = 0
  /\ request = NoRequest /\ answer = NoAnswer /\ requests = 0

\* The table on the disk: [valid, start, entrySize, entries], an entry [used, start, end].
\* Sector 1 holds its header; the entries follow one another from its start on.
Header == computer.gpt
EntryCount == Len(Header.entries)
Unused == [used |-> FALSE, start |-> 0, end |-> 0]

\* The entry that begins at an offset into a sector.
EntryAt(sector, offset) ==
  LET at == (sector - Header.start) * SectorSize + offset
  IN IF at >= 0 /\ at % Header.entrySize = 0 /\ at \div Header.entrySize < EntryCount
       THEN Header.entries[at \div Header.entrySize + 1] ELSE Unused

-----------------------------------------------------------------------------

\* What the driver's callers leave alone.
ideStill == <<computer, device_list, controllers, channels, drives, working, ide, unread>>

\* disk_initialize: the first drive that is there, and read_gpt's buffer and first read.
disk_initialize ==
  /\ ide.step = "ready" /\ gpt.step = "off"
  /\ LET there == UNION {ide_get_drive(n) : n \in DriveNumbers}
     IN IF there = {} \/ memory = 0
          THEN gpt' = [gpt EXCEPT !.step = "done"] /\ UNCHANGED <<memory, reader>>
          ELSE LET drive == CHOOSE n \in there : \A m \in there : n <= m
               IN /\ gpt' = [gpt EXCEPT !.drive = drive, !.step = "header"]
                  /\ memory' = memory - 1
                  /\ reader' = Call(drive, 1, 1)
  /\ UNCHANGED <<ideStill, partitions, partition_count, leaked, requestVars>>

\* read_gpt returns: the buffer is free again.
Ends == /\ gpt' = [gpt EXCEPT !.step = "done"] /\ memory' = memory + 1

ReadHeader ==
  /\ gpt.step = "header" /\ Return
  /\ IF Result = 0 \/ ~Header.valid THEN Ends
     ELSE gpt' = [gpt EXCEPT !.step = "entries"] /\ UNCHANGED memory
  /\ UNCHANGED <<ideStill, partitions, partition_count, leaked, requestVars>>

TargetLba(i) == (i * Header.entrySize) \div SectorSize + Header.start

\* Fault: the offset of an entry is taken from the start of the table.
OffsetInTable(i) == i * Header.entrySize

Offset(i) == (i * Header.entrySize) % SectorSize

\* The sector of the next entry is read unless it is in the buffer.
LoadEntries ==
  /\ gpt.step = "entries" /\ gpt.i < EntryCount /\ gpt.lba # TargetLba(gpt.i)
  /\ gpt' = [gpt EXCEPT !.lba = TargetLba(gpt.i), !.step = "load"]
  /\ reader' = Call(gpt.drive, 1, TargetLba(gpt.i))
  /\ UNCHANGED <<ideStill, tableVars, requestVars>>

EntriesLoaded ==
  /\ gpt.step = "load" /\ Return
  /\ IF Result = 0 THEN Ends
     ELSE /\ gpt' = [gpt EXCEPT !.loaded = reader.buffer[1][2], !.step = "entries"]
          /\ UNCHANGED memory
  /\ UNCHANGED <<ideStill, partitions, partition_count, leaked, requestVars>>

\* An entry in use becomes a partition: two blocks, or the table ends here and what was
\* given is lost; and one for the list, without which the partition is lost and counted.
ReadEntry ==
  /\ gpt.step = "entries" /\ gpt.i < EntryCount /\ gpt.lba = TargetLba(gpt.i)
  /\ LET entry == EntryAt(gpt.loaded, Offset(gpt.i))
         partition == [start |-> entry.start, size |-> entry.end - entry.start,
                       drive |-> gpt.drive]
         next == [gpt EXCEPT !.i = @ + 1]
     IN CASE ~entry.used -> gpt' = next /\ UNCHANGED tableVars
          [] entry.used /\ memory < 2 ->
               /\ gpt' = [gpt EXCEPT !.step = "done"]
               /\ memory' = 1 /\ leaked' = leaked + memory
               /\ UNCHANGED <<partitions, partition_count>>
          [] entry.used /\ memory >= 2 ->
               /\ gpt' = next
               /\ partition_count' = partition_count + 1
               /\ IF memory = 2
                    THEN memory' = 0 /\ leaked' = leaked + 2 /\ UNCHANGED partitions
                    ELSE /\ memory' = memory - 3 /\ UNCHANGED leaked
                         /\ partitions' = Append(partitions, partition)
  /\ UNCHANGED <<ideVars, requestVars>>

LastEntry ==
  /\ gpt.step = "entries" /\ gpt.i = EntryCount
  /\ Ends
  /\ UNCHANGED <<ideVars, partitions, partition_count, leaked, requestVars>>

read_gpt == ReadHeader \/ LoadEntries \/ EntriesLoaded \/ ReadEntry \/ LastEntry

-----------------------------------------------------------------------------
(* Sectors of a partition.                                                 *)

disk_read_sectors(p, sectors, lba) ==
  /\ gpt.step = "done" /\ reader.step = "none" /\ requests < MaxRequests
  /\ request' = [p |-> p, sectors |-> sectors, lba |-> lba]
  /\ answer' = NoAnswer /\ requests' = requests + 1
  /\ reader' = IF lba >= partitions[p].size THEN NoReader
               ELSE Call(partitions[p].drive, sectors, lba + partitions[p].start)
  /\ UNCHANGED <<ideStill, gpt, tableVars>>

SectorsRead ==
  /\ gpt.step = "done" /\ Return
  /\ answer' = [sectors |-> Result, buffer |-> reader.buffer]
  /\ UNCHANGED <<ideStill, gpt, tableVars, request, requests>>

\* What the kernel does, down to the calls of the driver.
Kernel ==
  \/ Ide /\ UNCHANGED <<gpt, tableVars, requestVars>>
  \/ disk_initialize \/ read_gpt \/ SectorsRead

SomeDriveAnswers ==
  /\ \E n \in DriveNumbers : DriveAnswers(n)
  /\ UNCHANGED <<gpt, tableVars, requestVars>>

Asked == \E p \in DOMAIN partitions : \E r \in Requests : disk_read_sectors(p, r.sectors, r.lba)

DiskNext == Kernel \/ SomeDriveAnswers \/ Asked

DiskSpec == DiskInit /\ [][DiskNext]_diskVars

-----------------------------------------------------------------------------

\* The walk over the buses enters each function that can be reached exactly once, where
\* the firmware gave each bridge a bus of its own; and the stack is not full unless it
\* holds fewer buses behind one another than there are.
PciOnce ==
  (Sound(computer.tree) /\ ide.step # "off") =>
    LET reached == {at \in Shown(computer.tree) : at[1] \in Reached(computer.tree)}
    IN IF ide.step = "lost" THEN MaxNesting < NumBuses
       ELSE ToSet(device_list) = reached /\ Len(device_list) = Cardinality(reached)

\* When the controllers are initialized, the four drives are those of the last one, a
\* drive present if and only if it is a hard disk of a channel the kernel can address,
\* and of the size the disk says, unless it failed.
DrivesFound ==
  (ide.step = "ready" /\ ide.at # NoController) => \A n \in DriveNumbers :
    /\ drives[n].present <=> There(n).kind \in {"PATA", "broken PATA"}
    /\ There(n).kind = "PATA" => drives[n].size = SizeOf(There(n))

\* Entries in use up to the i-th.
UsedBefore(i) == Cardinality({j \in 1..i : Header.entries[j].used})

TableSectors == {1} \cup {TargetLba(i) : i \in 0..EntryCount - 1}
Readable(d, s) == d.kind = "PATA" /\ s <= MaxLba28 /\ s < SizeOf(d) /\ s \notin d.bad

\* The partitions are the table's entries in use, in their order and each inside its
\* entry; all of them, and all memory in use is theirs, unless a sector could not be
\* read or memory ran out.
PartitionsAreTheEntries ==
  LET used == UsedBefore(EntryCount)
      complete == /\ gpt.drive # NoDisk /\ Header.valid
                  /\ computer.memory >= 1 + 3 * used
                  /\ \A s \in TableSectors : Readable(computer.drives[ide.at][gpt.drive], s)
  IN gpt.step = "done" =>
       /\ Len(partitions) <= used
       /\ \A i \in 1..EntryCount :
            LET entry == Header.entries[i]
                p == UsedBefore(i)
            IN entry.used /\ p <= Len(partitions) =>
                 /\ partitions[p].start = entry.start
                 /\ partitions[p].start + partitions[p].size <= entry.end
       /\ complete => Len(partitions) = used
       /\ memory + 3 * Len(partitions) + leaked = computer.memory
       /\ leaked = 0 => partition_count = Len(partitions)

\* The sectors of a partition are read from its drive, from its start on and in order;
\* as many as were asked for, unless a byte or 28 bits do not hold the numbers or the
\* drive fails.  Addresses of more than 32 bits are left out: they lose their high bits.
\* And once a count lost its high bits down to 0, the channel's requests are: the drive
\* has 256 sectors to give that nobody read, and gives those.
SectorsAsAsked ==
  (requests > 0 /\ reader.step = "none") =>
    LET p == partitions[request.p]
        first == p.start + request.lba
        d == computer.drives[ide.at][p.drive]
        asked == first..(first + request.sectors - 1)
        readable == request.lba < p.size /\ request.sectors < Width(1)
                    /\ d.kind = "PATA" /\ \A s \in asked : Readable(d, s)
        undisturbed == ChannelOf(p.drive) \notin unread \/ request.sectors % Width(1) = 0
    IN /\ answer.sectors <= request.sectors
       /\ (first < Width(4) /\ undisturbed) =>
            /\ answer.buffer = [k \in 1..answer.sectors |-> <<p.drive, first + k - 1>>]
            /\ readable => answer.sectors = request.sectors

\* The start of the disks ends, whatever the drives are, unless it comes to a channel that
\* reads 0xFF, which the driver takes for a busy drive, or to a drive that ends IDENTIFY
\* with a device fault alone, which it takes for one not ready; or the stack is full.
DisksStart ==
  LET PollsForEver ==
        \/ ide.step = "busy" /\ There(ide.n).kind = "floating"
        \/ ide.step = "data" /\ There(ide.n).kind = "faulting PATA"
  IN (ide.step # "off") ~> (gpt.step = "done" \/ PollsForEver \/ ide.step = "lost")
=============================================================================
