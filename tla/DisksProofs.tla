------------------------------ MODULE DisksProofs ------------------------------
(***************************************************************************)
(* Theorems about the drives and the partitions: the driver finds the      *)
(* drives there are, the partitions are those of the table, and a request  *)
(* gets the sectors it asks for, for every computer whose table is one of  *)
(* its format, and any number of requests.                                 *)
(***************************************************************************)
EXTENDS Partitions, FiniteSetTheorems, SequenceTheorems, NaturalsInduction,
        WellFoundedInduction, TLAPS

\* What the driver keeps of a drive and a channel, and what a drive is at.
DriveRecords == [present : BOOLEAN, type : {"PATA", "PATAPI", "SATA"}, size : Nat]
Lbas == Nat \X Nat \X Nat
ChannelRecords ==
  [selected_dev : {0, 1, 255}, native : BOOLEAN, drive : {0, 1}, high : Nat, count : Nat,
   lba : Lbas]
Works == [state : {"idle", "busy", "data", "error", "fault"}, sector : Nat, left : Int]
Readers ==
  [n : DriveNumbers, lba : Nat, sectors : Nat, buffer : Seq(DriveNumbers \X Nat),
   written : Nat, step : {"none", "call", "registers", "poll", "done"}]
Sets == DOMAIN computer.drives

IdeTyped ==
  /\ computer \in Computers
  /\ controllers \in Seq(Sets)
  /\ channels \in [Channels -> ChannelRecords]
  /\ drives \in [DriveNumbers -> DriveRecords]
  /\ working \in [DriveNumbers -> Works]
  /\ ide \in [at : Sets \cup {NoController}, n : DriveNumbers,
              step : {"off", "lost", "next", "identify", "status", "busy", "data", "ready"}]
  /\ reader \in Readers
  /\ unread \subseteq Channels

\* What DrivesFound says of a drive.
Found(n) ==
  /\ drives[n].present <=> There(n).kind \in {"PATA", "broken PATA"}
  /\ There(n).kind = "PATA" => drives[n].size = SizeOf(There(n))

\* Nothing at the place is at anything: its channel takes registers and commands.
Quiet(n) ==
  /\ There(n).kind # "floating"
  /\ There(n).kind # "none" => working[n].state \notin {"busy", "data"}

\* IDENTIFY has gone to drive n, and ended for its kind.
Probing(n) ==
  /\ channels[ChannelOf(n)].drive = n % 2
  /\ working[n].left = 0 /\ working[n].state # "idle"
  /\ working[n].state = "data" => There(n).kind = "PATA"
  /\ working[n].state = "error" => There(n).kind \in {"broken PATA", "PATAPI", "SATA"}
  /\ working[n].state = "fault" => There(n).kind = "faulting PATA"

\* The drives before ide.n are found and quiet, and ide.n as far as the steps have come.
SearchInv ==
  /\ ide.step \in {"off", "lost"} => ide.at = NoController
  /\ ide.step \in {"identify", "status", "busy", "data"} =>
       ide.at # NoController /\ \A m \in DriveNumbers : m < ide.n => Found(m) /\ Quiet(m)
  /\ ide.step = "next" /\ ide.at # NoController => \A m \in DriveNumbers : Found(m) /\ Quiet(m)
  /\ ide.step = "ready" /\ ide.at # NoController => \A m \in DriveNumbers : Found(m)
  /\ ide.step \in {"status", "busy", "data"} => Probing(ide.n)
  /\ ide.step = "status" => ~drives[ide.n].present
  /\ ide.step = "busy" => drives[ide.n].present /\ There(ide.n).kind # "none"
  /\ ide.step = "data" => /\ drives[ide.n].present
                          /\ There(ide.n).kind \in {"PATA", "broken PATA", "faulting PATA"}
  /\ ide.at = NoController => \A m \in DriveNumbers : ~drives[m].present

\* Of a channel that has all its sectors read, the drives are quiet but the one being read.
QuietInv ==
  (ide.step = "ready" /\ ide.at # NoController) =>
    \A m \in DriveNumbers :
      ChannelOf(m) \notin unread /\ ~(reader.step = "poll" /\ reader.n = m) => Quiet(m)

\* Until the drives are known, a channel's last selected drive is the one it has selected.
SelectInv ==
  ide.step # "ready" =>
    \A c \in Channels :
      channels[c].selected_dev # 255 => channels[c].drive = channels[c].selected_dev

\* The registers written so far have the numbers of the call.
Registered(n) ==
  LET c == channels[ChannelOf(n)]
      bytes == LbaBytes(reader.lba)
      k == reader.written
  IN /\ reader.lba <= MaxLba28 /\ k <= Registers
     /\ k >= 1 => c.drive = n % 2 /\ c.high = HighBits(reader.lba)
     /\ k >= 2 => c.count = reader.sectors
     /\ k >= 3 => c.lba[1] = bytes[1]
     /\ k >= 4 => c.lba[2] = bytes[2]
     /\ k >= 5 => c.lba[3] = bytes[3]

\* The drive reads the sector that is due, and as many as are left.
Reading(n) ==
  /\ reader.lba <= MaxLba28
  /\ channels[ChannelOf(n)].drive = n % 2
  /\ working[n].sector = reader.lba + Len(reader.buffer)
  /\ working[n].left = reader.sectors - Len(reader.buffer)
  /\ working[n].state \in {"busy", "data", "error", "fault"}
  /\ working[n].state \in {"error", "fault"} => ~Readable(There(n), working[n].sector)

\* A call is for a drive that is there.  On a channel that has all its sectors read the
\* registers take the call's numbers; its buffer has the sectors it has come to, in order,
\* and at its end all of them if they can be read.
ReaderInv ==
  /\ ide.step # "ready" => reader.step = "none"
  /\ reader.step # "none" => drives[reader.n].present /\ Len(reader.buffer) <= reader.sectors
  /\ reader.step \in {"call", "registers"} => reader.buffer = <<>>
  /\ reader.step = "call" => reader.written = 0
  /\ reader.step = "poll" => Len(reader.buffer) < reader.sectors
  /\ ChannelOf(reader.n) \notin unread =>
       /\ reader.step = "registers" => Registered(reader.n)
       /\ reader.step = "poll" => Reading(reader.n)
       /\ reader.step # "none" =>
            reader.buffer = [k \in 1..Len(reader.buffer) |-> <<reader.n, reader.lba + k - 1>>]
       /\ reader.step = "done" =>
            ((\A k \in 0..reader.sectors - 1 : Readable(There(reader.n), reader.lba + k)) =>
               Len(reader.buffer) = reader.sectors)

IdeInv == IdeTyped /\ SearchInv /\ SelectInv /\ QuietInv /\ ReaderInv

PartitionRecords == [start : Nat, size : Nat, drive : DriveNumbers]

\* read_gpt, and what it has called.
GptInv ==
  /\ gpt \in [drive : DriveNumbers \cup {NoDisk}, i : Nat, lba : Nat, loaded : Nat,
              step : {"off", "header", "entries", "load", "done"}]
  /\ gpt.i <= EntryCount
  /\ gpt.step # "off" => ide.step = "ready"
  /\ gpt.drive # NoDisk => drives[gpt.drive].present
  /\ gpt.drive = NoDisk => gpt.step \in {"off", "done"}
  /\ gpt.step = "off" => gpt.drive = NoDisk
  /\ gpt.step # "done" => unread = {}
  /\ gpt.step \in {"off", "header"} => gpt.i = 0 /\ gpt.lba = 0
  /\ gpt.step \in {"off", "entries"} => reader.step = "none"
  /\ gpt.step = "entries" /\ gpt.lba # 0 => gpt.loaded = gpt.lba
  /\ gpt.step = "load" => gpt.i < EntryCount /\ gpt.lba = TargetLba(gpt.i)
  /\ gpt.step \in {"header", "load"} =>
       /\ reader.step # "none" /\ reader.n = gpt.drive /\ reader.sectors = 1
       /\ reader.lba = IF gpt.step = "header" THEN 1 ELSE gpt.lba

\* Everything of the table can be read and finds memory.
Complete ==
  /\ gpt.drive # NoDisk /\ Header.valid
  /\ computer.memory >= 1 + 3 * UsedBefore(EntryCount)
  /\ \A s \in TableSectors : Readable(computer.drives[ide.at][gpt.drive], s)

InTable == gpt.step \in {"header", "entries", "load"}

\* The partitions are those of the entries up to gpt.i until one is lost, when no memory
\* is left.  The buffer has a block as long as read_gpt runs.
TableInv ==
  /\ partitions \in Seq(PartitionRecords)
  /\ memory \in Nat /\ leaked \in Nat /\ partition_count \in Nat
  /\ \A p \in 1..Len(partitions) : drives[partitions[p].drive].present
  /\ memory + (IF InTable THEN 1 ELSE 0) + 3 * Len(partitions) + leaked = computer.memory
  /\ Len(partitions) <= UsedBefore(gpt.i)
  /\ InTable /\ leaked = 0 => Len(partitions) = UsedBefore(gpt.i)
  /\ InTable /\ leaked > 0 => memory = 0
  /\ InTable /\ Complete => leaked = 0
  /\ gpt.step = "done" /\ Complete => Len(partitions) = UsedBefore(EntryCount)
  /\ gpt.step = "off" => partitions = <<>> /\ leaked = 0
  /\ leaked = 0 => partition_count = Len(partitions)
  /\ \A i \in 1..gpt.i :
       Header.entries[i].used /\ UsedBefore(i) <= Len(partitions) =>
         /\ partitions[UsedBefore(i)].start = Header.entries[i].start
         /\ partitions[UsedBefore(i)].start + partitions[UsedBefore(i)].size
              <= Header.entries[i].end

\* A request is of a partition, and a call that runs is the request's.
RequestInv ==
  /\ requests \in Nat
  /\ requests > 0 =>
       /\ gpt.step = "done"
       /\ request \in [p : 1..Len(partitions), sectors : Nat, lba : Nat]
  /\ gpt.step = "done" /\ reader.step # "none" =>
       /\ requests > 0
       /\ request.lba < partitions[request.p].size
       /\ reader.n = partitions[request.p].drive
       /\ reader.lba = (request.lba + partitions[request.p].start) % Width(4)
       /\ reader.sectors = request.sectors % Width(1)
  /\ SectorsAsAsked

DiskInv == IdeInv /\ GptInv /\ TableInv /\ RequestInv

-----------------------------------------------------------------------------
(* Numbers.                                                                *)

LEMMA DivMod ==
  ASSUME NEW a \in Nat, NEW d \in Nat, d > 0
  PROVE  a \div d \in Nat /\ a % d \in Nat /\ a % d < d /\ a = d * (a \div d) + (a % d)
OBVIOUS

LEMMA DivUnique ==
  ASSUME NEW a \in Nat, NEW d \in Nat, NEW q \in Nat, NEW r \in Nat,
         d > 0, r < d, a = d * q + r
  PROVE  a \div d = q /\ a % d = r
OBVIOUS

\* Dividing twice.
LEMMA DivTwice ==
  ASSUME NEW a \in Nat, NEW b \in Nat, NEW c \in Nat, b > 0, c > 0
  PROVE  a \div (b * c) = (a \div b) \div c
<1>1. PICK q \in Nat, r \in Nat : r < b /\ a = b * q + r /\ a \div b = q
  BY DivMod
<1>2. PICK p \in Nat, s \in Nat : s < c /\ q = c * p + s /\ q \div c = p
  BY DivMod
<1>3. PICK t \in Nat : t = b * s + r
  OBVIOUS
<1>4. t < b * c
  <2>1. s + 1 <= c
    BY <1>2
  <2>2. b * (s + 1) <= b * c
    BY <2>1
  <2>3. b * (s + 1) = b * s + b
    OBVIOUS
  <2> QED BY <1>1, <1>3, <2>2, <2>3
<1>5. a = (b * c) * p + t
  <2>1. a = b * (c * p + s) + r
    BY <1>1, <1>2
  <2>2. b * (c * p + s) = (b * c) * p + b * s
    OBVIOUS
  <2> QED BY <1>3, <2>1, <2>2
<1>6. b * c \in Nat /\ b * c > 0
  OBVIOUS
<1>7. a \div (b * c) = p
  BY <1>3, <1>4, <1>5, <1>6, DivUnique
<1> QED BY <1>1, <1>2, <1>7

LEMMA Spans ==
  /\ ByteSpan \in Nat /\ ByteSpan > 1 /\ NibbleSpan \in Nat /\ NibbleSpan > 0
  /\ Width(1) = ByteSpan /\ Width(2) = ByteSpan * ByteSpan
  /\ Width(3) = (ByteSpan * ByteSpan) * ByteSpan
  /\ Width(4) = (ByteSpan * ByteSpan) * (ByteSpan * ByteSpan)
  /\ \A k \in 1..4 : Width(k) \in Nat /\ Width(k) > 1
  /\ MaxLba28 \in Nat
<1>1. ByteSpan \in Nat /\ ByteSpan > 1 /\ NibbleSpan \in Nat /\ NibbleSpan > 0
  BY IdeAssumption
<1>2. /\ Width(1) = ByteSpan /\ Width(2) = ByteSpan * ByteSpan
      /\ Width(3) = (ByteSpan * ByteSpan) * ByteSpan
      /\ Width(4) = (ByteSpan * ByteSpan) * (ByteSpan * ByteSpan)
  BY DEF Width
<1>3. ByteSpan * ByteSpan \in Nat /\ ByteSpan * ByteSpan > 1
  BY <1>1
<1>4. (ByteSpan * ByteSpan) * ByteSpan \in Nat /\ (ByteSpan * ByteSpan) * ByteSpan > 1
  BY <1>1, <1>3
<1>5. /\ (ByteSpan * ByteSpan) * (ByteSpan * ByteSpan) \in Nat
      /\ (ByteSpan * ByteSpan) * (ByteSpan * ByteSpan) > 1
  BY <1>3
<1>6. \A k \in 1..4 : k = 1 \/ k = 2 \/ k = 3 \/ k = 4
  OBVIOUS
<1>7. \A k \in 1..4 : Width(k) \in Nat /\ Width(k) > 1
  BY <1>1, <1>2, <1>3, <1>4, <1>5, <1>6
<1>8. MaxLba28 \in Nat
  <2>1. PICK w \in Nat : w = Width(3) /\ w > 1
    BY <1>7
  <2>2. NibbleSpan * w >= 1
    BY <1>1, <2>1
  <2> QED BY <1>1, <2>1, <2>2 DEF MaxLba28
<1> QED BY <1>1, <1>2, <1>7, <1>8

\* The registers name the sector asked for, if they can.
LEMMA SectorNamed ==
  ASSUME NEW lba \in Nat, lba <= MaxLba28
  PROVE  Addressed(LbaBytes(lba), HighBits(lba)) = lba
<1>1. PICK b \in Nat, w \in Nat, h \in Nat :
        /\ b = ByteSpan /\ b > 1 /\ h = NibbleSpan /\ h > 0
        /\ w = b * b /\ Width(2) = w /\ Width(3) = w * b /\ w > 0 /\ w * b > 0
  BY Spans
<1>2. PICK q1 \in Nat, r1 \in Nat : q1 = lba \div b /\ r1 = lba % b /\ lba = b * q1 + r1
  BY <1>1, DivMod
<1>3. PICK q2 \in Nat, r2 \in Nat : q2 = q1 \div b /\ r2 = q1 % b /\ q1 = b * q2 + r2
  BY <1>1, DivMod
<1>4. PICK q3 \in Nat, r3 \in Nat : q3 = q2 \div b /\ r3 = q2 % b /\ q2 = b * q3 + r3
  BY <1>1, DivMod
<1>5. lba \div w = q2
  BY <1>1, <1>2, <1>3, DivTwice
<1>6. lba \div (w * b) = q3
  BY <1>1, <1>4, <1>5, DivTwice
<1>7. PICK r \in Nat : r < w * b /\ lba = (w * b) * q3 + r
  <2>1. w * b \in Nat
    BY <1>1
  <2> QED BY <1>1, <1>6, <2>1, DivMod
<1>8. q3 < h
  <2>1. PICK v \in Nat : v = w * b /\ v > 0
    BY <1>1
  <2>2. lba <= h * v - 1
    BY <1>1, <2>1 DEF MaxLba28
  <2>3. lba >= v * q3
    BY <1>7, <2>1
  <2>4. ASSUME q3 >= h PROVE FALSE
    <3>1. v * q3 >= v * h
      BY <1>1, <2>1, <2>4
    <3> QED BY <1>1, <2>1, <2>2, <2>3, <3>1
  <2> QED BY <1>1, <2>4
<1>9. q3 % h = q3
  BY <1>1, <1>8
<1>10. LbaBytes(lba) = <<r1, r2, r3>> /\ HighBits(lba) = q3
  BY <1>1, <1>2, <1>3, <1>4, <1>5, <1>6, <1>9 DEF LbaBytes, HighBits
<1>11. Addressed(LbaBytes(lba), HighBits(lba)) = r1 + b * r2 + w * r3 + (w * b) * q3
  BY <1>1, <1>10 DEF Addressed
<1>12. lba = r1 + b * r2 + w * r3 + (w * b) * q3
  <2>1. lba = b * (b * (b * q3 + r3) + r2) + r1
    BY <1>2, <1>3, <1>4
  <2>2. b * (b * (b * q3 + r3) + r2) = (w * b) * q3 + w * r3 + b * r2
    BY <1>1
  <2> QED BY <1>1, <2>1, <2>2
<1> QED BY <1>11, <1>12

LEMMA LbaTyped ==
  ASSUME NEW lba \in Nat
  PROVE  LbaBytes(lba) \in Lbas /\ HighBits(lba) \in Nat
<1>1. lba % ByteSpan \in Nat
  BY Spans
<1>2. (lba \div ByteSpan) % ByteSpan \in Nat
  BY Spans, DivMod
<1>3. (lba \div Width(2)) % ByteSpan \in Nat
  BY Spans, DivMod
<1>4. (lba \div Width(3)) % NibbleSpan \in Nat
  BY Spans, DivMod
<1> QED BY <1>1, <1>2, <1>3, <1>4 DEF LbaBytes, HighBits, Lbas

\* A number that fits is not narrowed.
LEMMA Narrowed ==
  ASSUME NEW a \in Nat, NEW w \in Nat, w > 0
  PROVE  a % w \in Nat /\ a % w <= a /\ a % w < w /\ (a < w => a % w = a)
OBVIOUS

-----------------------------------------------------------------------------
(* The drives and their channels.                                          *)

LEMMA DriveFacts ==
  ASSUME NEW n \in DriveNumbers
  PROVE  /\ n \in {0, 1, 2, 3} /\ ChannelOf(n) \in Channels /\ n % 2 \in {0, 1}
         /\ 2 * ChannelOf(n) + (n % 2) = n
<1>1. n \in Nat /\ n < 4
  BY DEF DriveNumbers
<1>2. PICK q \in Nat, r \in Nat : q = n \div 2 /\ r = n % 2 /\ r < 2 /\ n = 2 * q + r
  BY <1>1, DivMod
<1>3. ChannelOf(n) = q
  BY <1>2 DEF ChannelOf
<1>4. q \in Channels
  BY <1>1, <1>2 DEF Channels
<1>5. r \in {0, 1} /\ n \in {0, 1, 2, 3}
  BY <1>1, <1>2
<1> QED BY <1>2, <1>3, <1>4, <1>5

LEMMA SelectedIs ==
  ASSUME IdeTyped, NEW n \in DriveNumbers
  PROVE  /\ Selecting(n) \in DriveNumbers
         /\ Selecting(n) = 2 * ChannelOf(n) + channels[ChannelOf(n)].drive
         /\ channels[ChannelOf(n)].drive = n % 2 => Selecting(n) = n
<1>1. PICK c \in Channels, r \in {0, 1} : c = ChannelOf(n) /\ r = n % 2 /\ 2 * c + r = n
  BY DriveFacts
<1>2. PICK d \in {0, 1} : d = channels[c].drive
  BY DEF IdeTyped, ChannelRecords
<1>3. c = 0 \/ c = 1
  BY DEF Channels
<1>4. Selecting(n) = 2 * c + d
  BY <1>1, <1>2 DEF Selecting, Selected
<1>5. 2 * c + d \in DriveNumbers
  BY <1>2, <1>3 DEF DriveNumbers
<1>6. d = r => 2 * c + d = n
  BY <1>1
<1> QED BY <1>1, <1>2, <1>4, <1>5, <1>6

LEMMA ThereTyped ==
  ASSUME IdeTyped, ide.at # NoController, NEW n \in DriveNumbers
  PROVE  There(n) \in Drives
<1>1. ide.at \in DOMAIN computer.drives /\ computer \in Computers
  BY DEF IdeTyped, Sets
<1>2. computer.drives[ide.at][n] \in Drives
  BY <1>1, IdeAssumption
<1>3. [Absent EXCEPT !.kind = computer.reserved] \in Drives
  <2>1. computer.reserved \in Kinds
    BY <1>1, IdeAssumption DEF Kinds
  <2> QED BY <2>1 DEF Absent, Drives
<1> QED BY <1>2, <1>3 DEF There

\* What is at a place stays.
LEMMA ThereSame ==
  ASSUME computer' = computer, ide'.at = ide.at,
         \A c \in Channels : channels'[c].native = channels[c].native
  PROVE  \A n \in DriveNumbers : There(n)' = There(n)
BY DriveFacts DEF There

LEMMA SizeTyped ==
  ASSUME NEW d \in Drives
  PROVE  SizeOf(d) \in Nat /\ d.kind \in Kinds
BY DEF Drives, SizeOf

\* A drive that stays found.
LEMMA FoundSame ==
  ASSUME NEW n \in DriveNumbers, There(n)' = There(n), drives'[n] = drives[n], Found(n)
  PROVE  Found(n)'
BY DEF Found

\* A hard disk that was found is one the kernel's addresses reach.
LEMMA FoundIsThere ==
  ASSUME IdeInv, NEW n \in DriveNumbers, Found(n), drives[n].present
  PROVE  /\ There(n).kind \in {"PATA", "broken PATA"}
         /\ There(n) = computer.drives[ide.at][n]
<1>1. There(n).kind \in {"PATA", "broken PATA"}
  BY DEF Found
<1>2. computer.reserved \in {"none", "floating"}
  BY IdeAssumption DEF IdeInv, IdeTyped
<1> QED BY <1>1, <1>2 DEF There, Absent

\* Steps of the drivers' callers: the drives stay, and a call starts or is taken.
LEMMA CallerKeeps ==
  ASSUME IdeInv, UNCHANGED ideStill,
         \/ reader' = reader
         \/ reader' = NoReader /\ reader.step # "poll"
         \/ /\ ide.step = "ready" /\ reader.step # "poll"
            /\ \E n \in DriveNumbers, sectors \in Nat, lba \in Nat :
                 drives[n].present /\ reader' = Call(n, sectors, lba)
  PROVE  IdeInv'
<1>1. /\ computer' = computer /\ controllers' = controllers /\ channels' = channels
      /\ drives' = drives /\ working' = working /\ ide' = ide /\ unread' = unread
  BY DEF ideStill
<1>2. \A n \in DriveNumbers : There(n)' = There(n)
  BY <1>1, ThereSame
<1>3. SearchInv'
  BY <1>1, <1>2 DEF IdeInv, SearchInv, IdeTyped, Found, Quiet, Probing
<1>4. SelectInv'
  BY <1>1 DEF IdeInv, SelectInv
<1>5. CASE reader' = reader
  <2>1. IdeTyped'
    BY <1>1, <1>5 DEF IdeInv, IdeTyped, Sets
  <2>2. ReaderInv'
    BY <1>1, <1>2, <1>5 DEF IdeInv, IdeTyped, Readers, ReaderInv, Reading, Registered
  <2>3. QuietInv'
    BY <1>1, <1>2, <1>5 DEF IdeInv, QuietInv, Quiet
  <2> QED BY <1>3, <1>4, <2>1, <2>2, <2>3 DEF IdeInv
<1>6. CASE reader' = NoReader /\ reader.step # "poll"
  <2>1. NoReader \in Readers
    BY DEF NoReader, Readers, DriveNumbers
  <2>2. IdeTyped'
    BY <1>1, <1>6, <2>1 DEF IdeInv, IdeTyped, Sets
  <2>3. ReaderInv'
    BY <1>6 DEF ReaderInv, NoReader
  <2>4. QuietInv'
    BY <1>1, <1>2, <1>6 DEF IdeInv, QuietInv, Quiet
  <2> QED BY <1>3, <1>4, <2>2, <2>3, <2>4 DEF IdeInv
<1>7. CASE /\ ide.step = "ready" /\ reader.step # "poll"
           /\ \E n \in DriveNumbers, sectors \in Nat, lba \in Nat :
                drives[n].present /\ reader' = Call(n, sectors, lba)
  <2>1. PICK n \in DriveNumbers, sectors \in Nat, lba \in Nat :
          drives[n].present /\ reader' = Call(n, sectors, lba)
    BY <1>7
  <2>2. PICK s \in Nat, a \in Nat : s = sectors % Width(1) /\ a = lba % Width(4)
    BY Spans, Narrowed
  <2>3. reader' = [n |-> n, lba |-> a, sectors |-> s, buffer |-> <<>>, written |-> 0,
                   step |-> "call"]
    BY <2>1, <2>2 DEF Call
  <2>4. reader' \in Readers
    BY <2>3 DEF Readers
  <2>5. IdeTyped'
    BY <1>1, <2>4 DEF IdeInv, IdeTyped, Sets
  <2>6. Len(<<>>) = 0 /\ [k \in 1..0 |-> <<n, a + k - 1>>] = <<>>
    OBVIOUS
  <2>7. ReaderInv'
    BY <1>1, <1>7, <2>1, <2>3, <2>6 DEF ReaderInv
  <2>8. QuietInv'
    BY <1>1, <1>2, <1>7, <2>3 DEF IdeInv, QuietInv, Quiet
  <2> QED BY <1>3, <1>4, <2>5, <2>7, <2>8 DEF IdeInv
<1> QED BY <1>5, <1>6, <1>7

-----------------------------------------------------------------------------
(* Looking for the drives.                                                 *)

LEMMA DrivesBegin == IdeInit => IdeInv
<1> SUFFICES ASSUME IdeInit PROVE IdeInv
  OBVIOUS
<1>1. NoChannel \in ChannelRecords
  BY DEF NoChannel, ChannelRecords, Lbas
<1>2. NoDrive \in DriveRecords /\ ~NoDrive.present
  BY DEF NoDrive, DriveRecords
<1>3. Idle \in Works
  BY DEF Idle, Works
<1>4. NoReader \in Readers /\ NoReader.step = "none"
  BY DEF NoReader, Readers, DriveNumbers
<1>5. IdeTyped
  BY <1>1, <1>2, <1>3, <1>4 DEF IdeInit, IdeTyped, DriveNumbers
<1>6. SearchInv
  BY <1>2 DEF IdeInit, SearchInv
<1>7. SelectInv
  BY DEF IdeInit, SelectInv, NoChannel
<1>8. ReaderInv
  BY <1>4 DEF IdeInit, ReaderInv
<1>9. QuietInv
  BY DEF IdeInit, QuietInv
<1> QED BY <1>5, <1>6, <1>7, <1>8, <1>9 DEF IdeInv

\* While the drives are looked for nothing is read.
LEMMA NoneReads ==
  ASSUME ide'.step # "ready" \/ reader.step = "none", ide.step # "ready", IdeInv,
         reader' = reader, unread' = unread
  PROVE  ReaderInv' /\ reader' \in Readers /\ unread' \subseteq Channels
<1>1. reader.step = "none" /\ reader \in Readers /\ unread \subseteq Channels
  BY DEF IdeInv, IdeTyped, ReaderInv
<1> QED BY <1>1 DEF ReaderInv

\* And the drives found to be quiet are so when the search is over.
LEMMA QuietAtLast ==
  ASSUME ide'.step = "ready" => /\ reader'.step = "none"
                                /\ ide'.at # NoController => \A m \in DriveNumbers : Quiet(m)'
  PROVE  QuietInv'
BY DEF QuietInv

LEMMA WalkKeeps == IdeInv /\ pci_initialize => IdeInv'
<1> SUFFICES ASSUME IdeInv, pci_initialize PROVE IdeInv'
  OBVIOUS
<1>1. /\ computer' = computer /\ channels' = channels /\ drives' = drives
      /\ working' = working /\ reader' = reader /\ unread' = unread /\ ide.step = "off"
      /\ controllers' = ControllersOf(computer.tree)
  BY DEF pci_initialize
<1>2. PICK s \in {"lost", "next"} : ide' = [ide EXCEPT !.step = s]
  BY DEF pci_initialize
<1>3. ide.at = NoController /\ \A m \in DriveNumbers : ~drives[m].present
  BY <1>1 DEF IdeInv, SearchInv
<1>4. /\ ide'.at = ide.at /\ ide'.n = ide.n /\ ide'.step = s
      /\ ide' \in [at : Sets \cup {NoController}, n : DriveNumbers,
                   step : {"off", "lost", "next", "identify", "status", "busy", "data", "ready"}]
  BY <1>2 DEF IdeInv, IdeTyped
<1>5. controllers' \in Seq(Sets)
  BY <1>1, IdeAssumption DEF Sets, IdeInv, IdeTyped
<1>6. IdeTyped'
  BY <1>1, <1>4, <1>5 DEF IdeInv, IdeTyped, Sets
<1>7. SearchInv'
  BY <1>1, <1>3, <1>4 DEF SearchInv
<1>8. SelectInv'
  BY <1>1 DEF IdeInv, SelectInv
<1>9. ReaderInv'
  BY <1>1, <1>4, NoneReads
<1>10. QuietInv'
  BY <1>4, QuietAtLast
<1> QED BY <1>6, <1>7, <1>8, <1>9, <1>10 DEF IdeInv

LEMMA ForgetsDrive ==
  ASSUME NEW e \in ChannelRecords, NEW native \in BOOLEAN, NEW f,
         f = [e EXCEPT !.selected_dev = 255, !.native = native]
  PROVE  f \in ChannelRecords
<1>1. PICK g : g = [e EXCEPT !.selected_dev = 255]
  OBVIOUS
<1>2. g \in ChannelRecords
  BY <1>1 DEF ChannelRecords
<1>3. f = [g EXCEPT !.native = native]
  BY <1>1
<1>4. [g EXCEPT !.native = native] \in ChannelRecords
  BY <1>2 DEF ChannelRecords
<1> QED BY <1>3, <1>4

LEMMA ChannelsKeep == IdeInv /\ initialize_channels => IdeInv'
<1> SUFFICES ASSUME IdeInv, initialize_channels PROVE IdeInv'
  OBVIOUS
<1>1. /\ computer' = computer /\ drives' = drives /\ reader' = reader /\ unread' = unread
      /\ ide.step = "next" /\ controllers # <<>>
      /\ ide' = [at |-> Head(controllers), n |-> 0, step |-> "identify"]
      /\ controllers' = Tail(controllers)
      /\ working' = [n \in DriveNumbers |-> Idle]
  BY DEF initialize_channels
<1>2. PICK progIf : channels' = [c \in Channels |->
          [channels[c] EXCEPT !.selected_dev = 255,
                              !.native = (progIf \div (IF c = 0 THEN 1 ELSE 4)) % 2 = 1]]
  BY DEF initialize_channels
<1>3. ASSUME NEW c \in Channels
      PROVE  channels'[c] \in ChannelRecords /\ channels'[c].selected_dev = 255
  <2>1. PICK e \in ChannelRecords : e = channels[c]
    BY DEF IdeInv, IdeTyped
  <2>2. PICK native \in BOOLEAN : native = ((progIf \div (IF c = 0 THEN 1 ELSE 4)) % 2 = 1)
    OBVIOUS
  <2>3. channels'[c] = [e EXCEPT !.selected_dev = 255, !.native = native]
    BY <1>2, <2>1, <2>2, Zenon
  <2>4. PICK f : f = channels'[c]
    OBVIOUS
  <2>5. f = [e EXCEPT !.selected_dev = 255, !.native = native]
    BY <2>3, <2>4
  <2>6. e \in ChannelRecords /\ native \in BOOLEAN
    BY <2>1, <2>2
  <2> HIDE <2>1, <2>2, <2>3, <2>4
  <2>7. f \in ChannelRecords
    BY <2>5, <2>6, ForgetsDrive
  <2>8. f.selected_dev = 255
    BY <2>5, <2>6 DEF ChannelRecords
  <2> QED BY <2>4, <2>7, <2>8
<1>4. channels' \in [Channels -> ChannelRecords]
  BY <1>2, <1>3
<1>5. Head(controllers) \in Sets /\ Tail(controllers) \in Seq(Sets)
  BY <1>1 DEF IdeInv, IdeTyped
<1>6. NoController \notin Sets
  BY IdeAssumption DEF Sets, IdeInv, IdeTyped
<1>7. Idle \in Works
  BY DEF Idle, Works
<1>8. 0 \in DriveNumbers /\ \A m \in DriveNumbers : ~ (m < 0)
  BY DEF DriveNumbers
<1>9. IdeTyped'
  BY <1>1, <1>4, <1>5, <1>7, <1>8 DEF IdeInv, IdeTyped, Sets
<1>10. ide'.at = Head(controllers) /\ ide'.n = 0 /\ ide'.step = "identify"
  BY <1>1
<1>11. SearchInv'
  BY <1>5, <1>6, <1>8, <1>10 DEF SearchInv
<1>12. SelectInv'
  BY <1>3 DEF SelectInv
<1>13. ReaderInv'
  BY <1>1, <1>10, NoneReads
<1>14. QuietInv'
  BY <1>10, QuietAtLast
<1> QED BY <1>9, <1>11, <1>12, <1>13, <1>14 DEF IdeInv

LEMMA EndKeeps == IdeInv /\ IdeInitialized => IdeInv'
<1> SUFFICES ASSUME IdeInv, IdeInitialized PROVE IdeInv'
  OBVIOUS
<1>1. /\ computer' = computer /\ controllers' = controllers /\ channels' = channels
      /\ drives' = drives /\ working' = working /\ reader' = reader /\ unread' = unread
      /\ ide.step = "next" /\ ide' = [ide EXCEPT !.step = "ready"]
  BY DEF IdeInitialized
<1>2. /\ ide'.at = ide.at /\ ide'.n = ide.n /\ ide'.step = "ready"
      /\ ide' \in [at : Sets \cup {NoController}, n : DriveNumbers,
                   step : {"off", "lost", "next", "identify", "status", "busy", "data", "ready"}]
  BY <1>1 DEF IdeInv, IdeTyped
<1>3. \A n \in DriveNumbers : There(n)' = There(n)
  BY <1>1, <1>2, ThereSame
<1>4. IdeTyped'
  BY <1>1, <1>2 DEF IdeInv, IdeTyped, Sets
<1>5. \A n \in DriveNumbers : Found(n) => Found(n)'
  BY <1>1, <1>3, FoundSame
<1>6. SearchInv'
  BY <1>1, <1>2, <1>5 DEF IdeInv, SearchInv
<1>7. SelectInv'
  BY <1>2 DEF SelectInv
<1>8. reader.step = "none"
  BY <1>1 DEF IdeInv, ReaderInv
<1>9. ReaderInv'
  BY <1>1, <1>8, NoneReads
<1>10. ide.at # NoController => \A m \in DriveNumbers : Quiet(m)'
  BY <1>1, <1>3 DEF IdeInv, SearchInv, Quiet
<1>11. QuietInv'
  BY <1>1, <1>2, <1>8, <1>10, QuietAtLast
<1> QED BY <1>4, <1>6, <1>7, <1>9, <1>11 DEF IdeInv

\* Selecting drive n has its channel name it, and the other channel what it did.
LEMMA SelectEffect ==
  ASSUME IdeTyped, NEW n \in DriveNumbers, ide.step # "ready", SelectInv
  PROVE  /\ select_device(n) \in [Channels -> ChannelRecords]
         /\ select_device(n)[ChannelOf(n)].drive = n % 2
         /\ \A c \in Channels :
              /\ select_device(n)[c].native = channels[c].native
              /\ select_device(n)[c].selected_dev # 255 =>
                   select_device(n)[c].drive = select_device(n)[c].selected_dev
<1>1. PICK c \in Channels, r \in {0, 1} : c = ChannelOf(n) /\ r = n % 2
  BY DriveFacts
<1>2. channels \in [Channels -> ChannelRecords]
  BY DEF IdeTyped
<1>3. \A d \in Channels :
        channels[d].selected_dev # 255 => channels[d].drive = channels[d].selected_dev
  BY DEF SelectInv
<1>4. CASE channels[c].selected_dev = r
  <2>1. select_device(n) = channels
    BY <1>1, <1>4 DEF select_device
  <2> QED BY <1>1, <1>2, <1>3, <1>4, <2>1
<1>5. CASE channels[c].selected_dev # r
  <2>1. select_device(n) =
          [channels EXCEPT ![c].selected_dev = r, ![c].drive = r, ![c].high = 0]
    BY <1>1, <1>5 DEF select_device
  <2>2. PICK e \in ChannelRecords : e = channels[c]
    BY <1>2
  <2>3. PICK f : f = [e EXCEPT !.selected_dev = r, !.drive = r, !.high = 0]
    OBVIOUS
  <2>4. /\ f \in ChannelRecords /\ f.native = e.native
        /\ f.drive = r /\ f.selected_dev = r
    <3>1. f = [selected_dev |-> r, native |-> e.native, drive |-> r, high |-> 0,
               count |-> e.count, lba |-> e.lba]
      BY <2>2, <2>3 DEF ChannelRecords
    <3>2. r \in {0, 1, 255} /\ r \in {0, 1} /\ e.native \in BOOLEAN /\ 0 \in Nat
          /\ e.count \in Nat /\ e.lba \in Lbas
      BY <1>1, <2>2 DEF ChannelRecords
    <3>3. f \in ChannelRecords
      BY <3>1, <3>2 DEF ChannelRecords
    <3> QED BY <3>1, <3>3
  <2>5. select_device(n) = [channels EXCEPT ![c] = f]
    BY <1>2, <2>1, <2>2, <2>3
  <2> QED BY <1>1, <1>2, <1>3, <2>2, <2>4, <2>5
<1> QED BY <1>4, <1>5

\* Steps that look for drives: what the invariant says of the other drives stays.
IdeSteps == {"off", "lost", "next", "identify", "status", "busy", "data", "ready"}
IdeRecords == [at : Sets \cup {NoController}, n : DriveNumbers, step : IdeSteps]

LEMMA StepTyped ==
  ASSUME IdeInv, NEW s \in IdeSteps
  PROVE  /\ ide \in IdeRecords
         /\ [ide EXCEPT !.step = s] \in IdeRecords
         /\ [ide EXCEPT !.step = s].at = ide.at /\ [ide EXCEPT !.step = s].n = ide.n
         /\ [ide EXCEPT !.step = s].step = s
<1>1. ide \in IdeRecords
  BY DEF IdeInv, IdeTyped, IdeRecords, IdeSteps
<1> QED BY <1>1 DEF IdeRecords

LEMMA NextTyped ==
  ASSUME IdeInv, NEW m \in DriveNumbers
  PROVE  /\ [ide EXCEPT !.n = m, !.step = "identify"] \in IdeRecords
         /\ [ide EXCEPT !.n = m, !.step = "identify"].at = ide.at
         /\ [ide EXCEPT !.n = m, !.step = "identify"].n = m
         /\ [ide EXCEPT !.n = m, !.step = "identify"].step = "identify"
<1>1. ide \in IdeRecords
  BY DEF IdeInv, IdeTyped, IdeRecords, IdeSteps
<1> QED BY <1>1 DEF IdeRecords, IdeSteps

LEMMA IdentifyKeeps == IdeInv /\ Identify => IdeInv'
<1> SUFFICES ASSUME IdeInv, Identify PROVE IdeInv'
  OBVIOUS
<1>1. IdeTyped /\ SearchInv /\ SelectInv /\ ide.step = "identify" /\ "status" \in IdeSteps
  BY DEF IdeInv, Identify, IdeSteps
<1>2. PICK n \in DriveNumbers, c \in Channels, r \in {0, 1} :
        n = ide.n /\ c = ChannelOf(n) /\ r = n % 2 /\ 2 * c + r = n
  BY <1>1, DriveFacts DEF IdeTyped
<1>3. PICK sel \in [Channels -> ChannelRecords] :
        /\ sel = select_device(n) /\ sel[c].drive = r
        /\ \A d \in Channels :
              /\ sel[d].native = channels[d].native
              /\ sel[d].selected_dev # 255 => sel[d].drive = sel[d].selected_dev
  BY <1>1, <1>2, SelectEffect
<1>4. /\ computer' = computer /\ controllers' = controllers /\ reader' = reader
      /\ unread' = unread
      /\ channels' = [sel EXCEPT ![c].count = 0, ![c].lba = <<0, 0, 0>>]
      /\ drives' = [drives EXCEPT ![n].present = FALSE]
      /\ ide' = [ide EXCEPT !.step = "status"]
  BY <1>2, <1>3 DEF Identify
<1>5. PICK e \in ChannelRecords : e = sel[c]
  OBVIOUS
<1>6. PICK f : f = [e EXCEPT !.count = 0, !.lba = <<0, 0, 0>>]
  OBVIOUS
<1>7. f \in ChannelRecords /\ f.native = e.native /\ f.drive = e.drive
      /\ f.selected_dev = e.selected_dev
  <2>1. <<0, 0, 0>> \in Lbas
    BY DEF Lbas
  <2> QED BY <1>6, <2>1 DEF ChannelRecords
<1>8. channels' = [sel EXCEPT ![c] = f]
  BY <1>4, <1>5, <1>6
<1>9. /\ channels' \in [Channels -> ChannelRecords]
      /\ channels'[c].drive = r
      /\ \A d \in Channels :
            /\ channels'[d].native = channels[d].native
            /\ channels'[d].selected_dev # 255 => channels'[d].drive = channels'[d].selected_dev
  BY <1>3, <1>5, <1>7, <1>8
<1>10. working' = [working EXCEPT ![n] = [state |-> "busy", sector |-> 0, left |-> 0]]
  <2>1. working' = [working EXCEPT ![2 * c + channels'[c].drive] = [Idle EXCEPT !.state = "busy"]]
    BY <1>2 DEF Identify
  <2>2. [Idle EXCEPT !.state = "busy"] = [state |-> "busy", sector |-> 0, left |-> 0]
    BY DEF Idle
  <2> QED BY <1>2, <1>9, <2>1, <2>2
<1>11. /\ ide' \in IdeRecords /\ ide'.at = ide.at /\ ide'.n = n /\ ide'.step = "status"
  BY <1>1, <1>2, <1>4, StepTyped
<1>12. /\ drives' \in [DriveNumbers -> DriveRecords] /\ ~drives'[n].present
       /\ \A m \in DriveNumbers : m # n => drives'[m] = drives[m]
  BY <1>1, <1>4 DEF IdeTyped, DriveRecords
<1>13. /\ working' \in [DriveNumbers -> Works] /\ working'[n].left = 0 /\ working'[n].state = "busy"
       /\ \A m \in DriveNumbers : m # n => working'[m] = working[m]
  BY <1>1, <1>10 DEF IdeTyped, Works
<1>14. \A m \in DriveNumbers : There(m)' = There(m)
  BY <1>4, <1>9, <1>11, ThereSame
<1>15. IdeTyped'
  BY <1>1, <1>4, <1>9, <1>11, <1>12, <1>13 DEF IdeTyped, Sets, IdeRecords, IdeSteps
<1>16. ide.at # NoController /\ \A m \in DriveNumbers : m < n => Found(m) /\ Quiet(m)
  BY <1>1, <1>2 DEF SearchInv
<1>17. \A m \in DriveNumbers : m < n => Found(m)' /\ Quiet(m)'
  <2>1. \A m \in DriveNumbers : m < n => m # n
    BY DEF DriveNumbers
  <2>2. \A m \in DriveNumbers : m < n => Found(m)'
    BY <1>12, <1>14, <1>16, <2>1, FoundSame
  <2> QED BY <1>13, <1>14, <1>16, <2>1, <2>2 DEF Quiet
<1>18. Probing(n)'
  BY <1>2, <1>9, <1>13 DEF Probing
<1>19. SearchInv'
  BY <1>11, <1>12, <1>16, <1>17, <1>18 DEF SearchInv
<1>20. SelectInv'
  BY <1>9 DEF SelectInv
<1>21. ReaderInv'
  BY <1>1, <1>4, <1>11, NoneReads
<1>22. QuietInv'
  BY <1>11, QuietAtLast
<1> QED BY <1>15, <1>19, <1>20, <1>21, <1>22 DEF IdeInv

\* One drive after another.
LEMMA InTurn ==
  ASSUME NEW n \in DriveNumbers
  PROVE  /\ n # 3 => n + 1 \in DriveNumbers
         /\ \A m \in DriveNumbers :
              /\ m < n => m # n
              /\ m < n + 1 => m < n \/ m = n
              /\ n = 3 => m < n \/ m = n
BY DEF DriveNumbers

Probed == {"status", "busy", "data"}

\* The steps behind IDENTIFY change the drive they are at and no other.
OnlyThisDrive ==
  /\ computer' = computer /\ controllers' = controllers /\ channels' = channels
  /\ reader' = reader /\ unread' = unread
  /\ drives' \in [DriveNumbers -> DriveRecords]
  /\ \A m \in DriveNumbers : m # ide.n => drives'[m] = drives[m] /\ working'[m] = working[m]
  /\ working' \in [DriveNumbers -> Works]

\* Drive ide.n is found and quiet: on to the next.
LEMMA AdvanceKeeps ==
  ASSUME IdeInv, ide.step \in Probed, OnlyThisDrive, ide' = Advanced,
         /\ drives'[ide.n].present <=> There(ide.n).kind \in {"PATA", "broken PATA"}
         /\ There(ide.n).kind = "PATA" => drives'[ide.n].size = SizeOf(There(ide.n))
         /\ There(ide.n).kind # "floating"
         /\ There(ide.n).kind # "none" => working'[ide.n].state \notin {"busy", "data"}
  PROVE  IdeInv'
<1>1. IdeTyped /\ SearchInv /\ SelectInv /\ "next" \in IdeSteps
  BY DEF IdeInv, IdeSteps
<1>2. PICK n \in DriveNumbers : n = ide.n
  BY <1>1 DEF IdeTyped
<1>3. ide \in IdeRecords /\ ide.step # "ready" /\ ide.step \in {"identify", "status", "busy", "data"}
  BY <1>1, StepTyped DEF Probed
<1>4. ide'.at = ide.at /\ ide' \in IdeRecords
      /\ \/ n = 3 /\ ide'.step = "next"
         \/ n # 3 /\ ide'.step = "identify" /\ ide'.n = n + 1
  <2>1. CASE n = 3
    BY <1>1, <1>2, <2>1, StepTyped DEF Advanced
  <2>2. CASE n # 3
    <3>1. n + 1 \in DriveNumbers
      BY <1>2, <2>2, InTurn
    <3>2. ide' = [ide EXCEPT !.n = n + 1, !.step = "identify"]
      BY <1>2, <2>2 DEF Advanced
    <3>3. PICK m \in DriveNumbers : m = n + 1
      BY <3>1
    <3>4. /\ [ide EXCEPT !.n = m, !.step = "identify"] \in IdeRecords
          /\ [ide EXCEPT !.n = m, !.step = "identify"].at = ide.at
          /\ [ide EXCEPT !.n = m, !.step = "identify"].n = m
          /\ [ide EXCEPT !.n = m, !.step = "identify"].step = "identify"
      BY NextTyped
    <3> QED BY <2>2, <3>2, <3>3, <3>4
  <2> QED BY <2>1, <2>2
<1>5. \A m \in DriveNumbers : There(m)' = There(m)
  BY <1>4, ThereSame DEF OnlyThisDrive
<1>6. IdeTyped'
  BY <1>1, <1>4 DEF IdeTyped, Sets, IdeRecords, IdeSteps, OnlyThisDrive
<1>7. ide.at # NoController /\ \A m \in DriveNumbers : m < n => Found(m) /\ Quiet(m)
  BY <1>1, <1>2, <1>3 DEF SearchInv
<1>8. \A m \in DriveNumbers : m < n => Found(m)' /\ Quiet(m)'
  <2>1. \A m \in DriveNumbers : m < n => m # n
    BY <1>2, InTurn
  <2>2. \A m \in DriveNumbers : m < n => Found(m)'
    BY <1>2, <1>5, <1>7, <2>1, FoundSame DEF OnlyThisDrive
  <2> QED BY <1>2, <1>5, <1>7, <2>1, <2>2 DEF OnlyThisDrive, Quiet
<1>9. Found(n)' /\ Quiet(n)'
  <2>1. There(n)' = There(n)
    BY <1>5
  <2>2. Found(n)'
    BY <1>2, <2>1 DEF Found
  <2>3. Quiet(n)'
    BY <1>2, <2>1 DEF Quiet
  <2> QED BY <2>2, <2>3
<1>10. SearchInv'
  <2>1. CASE n = 3 /\ ide'.step = "next"
    <3>1. \A m \in DriveNumbers : m < n \/ m = n
      BY <1>2, <2>1, InTurn
    <3>2. \A m \in DriveNumbers : Found(m)' /\ Quiet(m)'
      BY <1>8, <1>9, <3>1
    <3> QED BY <1>4, <1>7, <2>1, <3>2 DEF SearchInv
  <2>2. CASE n # 3 /\ ide'.step = "identify" /\ ide'.n = n + 1
    <3>1. \A m \in DriveNumbers : m < n + 1 => m < n \/ m = n
      BY <1>2, InTurn
    <3>2. \A m \in DriveNumbers : m < ide'.n => Found(m)' /\ Quiet(m)'
      BY <1>8, <1>9, <2>2, <3>1
    <3> QED BY <1>4, <1>7, <2>2, <3>2 DEF SearchInv
  <2> QED BY <1>4, <2>1, <2>2
<1>11. SelectInv'
  BY <1>1, <1>3 DEF SelectInv, OnlyThisDrive
<1>12. ReaderInv'
  BY <1>3, <1>4, NoneReads DEF OnlyThisDrive
<1>13. QuietInv'
  BY <1>4, QuietAtLast
<1> QED BY <1>6, <1>10, <1>11, <1>12, <1>13 DEF IdeInv

\* On with the same drive.
LEMMA GoOnKeeps ==
  ASSUME IdeInv, ide.step \in Probed, OnlyThisDrive, working' = working,
         NEW s \in {"busy", "data"}, ide' = [ide EXCEPT !.step = s],
         drives'[ide.n].present,
         s = "busy" => There(ide.n).kind # "none",
         s = "data" => There(ide.n).kind \in {"PATA", "broken PATA", "faulting PATA"}
  PROVE  IdeInv'
<1>1. IdeTyped /\ SearchInv /\ SelectInv /\ s \in IdeSteps
  BY DEF IdeInv, IdeSteps
<1>2. PICK n \in DriveNumbers : n = ide.n
  BY <1>1 DEF IdeTyped
<1>3. ide.step # "ready" /\ ide.step \in {"identify", "status", "busy", "data"}
  BY DEF Probed
<1>4. ide'.at = ide.at /\ ide'.n = n /\ ide'.step = s /\ ide' \in IdeRecords
  BY <1>1, <1>2, StepTyped
<1>5. \A m \in DriveNumbers : There(m)' = There(m)
  BY <1>4, ThereSame DEF OnlyThisDrive
<1>6. IdeTyped'
  BY <1>1, <1>4 DEF IdeTyped, Sets, IdeRecords, IdeSteps, OnlyThisDrive
<1>7. /\ ide.at # NoController /\ Probing(n)
      /\ \A m \in DriveNumbers : m < n => Found(m) /\ Quiet(m)
  BY <1>1, <1>2, <1>3 DEF SearchInv, Probed
<1>8. \A m \in DriveNumbers : m < n => Found(m)' /\ Quiet(m)'
  <2>1. \A m \in DriveNumbers : m < n => m # n
    BY <1>2, InTurn
  <2>2. \A m \in DriveNumbers : m < n => Found(m)'
    BY <1>2, <1>5, <1>7, <2>1, FoundSame DEF OnlyThisDrive
  <2> QED BY <1>5, <1>7, <2>2 DEF Quiet
<1>9. Probing(n)'
  BY <1>5, <1>7 DEF Probing, OnlyThisDrive
<1>10. SearchInv'
  BY <1>2, <1>4, <1>5, <1>7, <1>8, <1>9 DEF SearchInv
<1>11. SelectInv'
  BY <1>1, <1>3 DEF SelectInv, OnlyThisDrive
<1>12. ReaderInv'
  BY <1>3, <1>4, NoneReads DEF OnlyThisDrive
<1>13. QuietInv'
  BY <1>4, QuietAtLast
<1> QED BY <1>6, <1>10, <1>11, <1>12, <1>13 DEF IdeInv

\* While the drive is probed, its status is its own.
LEMMA ProbedStatus ==
  ASSUME IdeInv, ide.step \in Probed
  PROVE  /\ ide.n \in DriveNumbers /\ Selecting(ide.n) = ide.n
         /\ There(ide.n) \in Drives /\ ide.at # NoController
         /\ working[ide.n] \in Works /\ Probing(ide.n)
         /\ Status(ide.n) = CASE There(ide.n).kind = "floating" -> "busy"
                              [] There(ide.n).kind = "none" -> "none"
                              [] OTHER -> working[ide.n].state
<1>1. IdeTyped /\ SearchInv
  BY DEF IdeInv
<1>2. PICK n \in DriveNumbers : n = ide.n
  BY <1>1 DEF IdeTyped
<1>3. Probing(n) /\ ide.at # NoController
  BY <1>1, <1>2 DEF SearchInv, Probed
<1>4. Selecting(n) = n
  BY <1>1, <1>3, SelectedIs DEF Probing
<1>5. There(n) \in Drives
  BY <1>1, <1>3, ThereTyped
<1>6. working[n] \in Works
  BY <1>1 DEF IdeTyped
<1> QED BY <1>2, <1>3, <1>4, <1>5, <1>6 DEF Status

LEMMA FirstStatusKeeps == IdeInv /\ FirstStatus => IdeInv'
<1> SUFFICES ASSUME IdeInv, FirstStatus PROVE IdeInv'
  OBVIOUS
<1>1. /\ ide.step = "status" /\ ide.step \in Probed
      /\ computer' = computer /\ controllers' = controllers /\ channels' = channels
      /\ working' = working /\ reader' = reader /\ unread' = unread
  BY DEF FirstStatus, Probed
<1>2. PICK n, d : /\ n \in DriveNumbers /\ n = ide.n /\ d = There(n) /\ d \in Drives
                  /\ working[n] \in Works
  BY <1>1, ProbedStatus
<1>3. /\ drives \in [DriveNumbers -> DriveRecords] /\ working \in [DriveNumbers -> Works]
      /\ ~drives[n].present
  BY <1>1, <1>2 DEF IdeInv, IdeTyped, SearchInv
<1>4. CASE Status(n) = "none"
  <2>1. ide' = Advanced /\ drives' = drives
    BY <1>2, <1>4 DEF FirstStatus
  <2>2. d.kind = "none"
    BY <1>1, <1>2, <1>4, ProbedStatus DEF Works
  <2>3. OnlyThisDrive
    BY <1>1, <1>3, <2>1 DEF OnlyThisDrive
  <2> QED BY <1>1, <1>2, <1>3, <2>1, <2>2, <2>3, AdvanceKeeps
<1>5. CASE Status(n) # "none"
  <2>1. /\ ide' = [ide EXCEPT !.step = "busy"]
        /\ drives' = [drives EXCEPT ![n].present = TRUE]
    BY <1>2, <1>5 DEF FirstStatus
  <2>2. d.kind # "none"
    BY <1>1, <1>2, <1>5, ProbedStatus
  <2>3. /\ drives' \in [DriveNumbers -> DriveRecords] /\ drives'[n].present
        /\ \A m \in DriveNumbers : m # n => drives'[m] = drives[m]
    BY <1>2, <1>3, <2>1 DEF DriveRecords
  <2>4. OnlyThisDrive
    BY <1>1, <1>2, <1>3, <2>3 DEF OnlyThisDrive
  <2> QED BY <1>1, <1>2, <2>1, <2>2, <2>3, <2>4, GoOnKeeps
<1> QED BY <1>4, <1>5

LEMMA SignatureKeeps == IdeInv /\ Signature => IdeInv'
<1> SUFFICES ASSUME IdeInv, Signature PROVE IdeInv'
  OBVIOUS
<1>1. /\ ide.step = "busy" /\ ide.step \in Probed
      /\ computer' = computer /\ controllers' = controllers /\ channels' = channels
      /\ working' = working /\ reader' = reader /\ unread' = unread
  BY DEF Signature, Probed
<1>2. PICK n, d : /\ n \in DriveNumbers /\ n = ide.n /\ d = There(n) /\ d \in Drives
                  /\ Selecting(n) = n
  BY <1>1, ProbedStatus
<1>3. /\ drives \in [DriveNumbers -> DriveRecords] /\ working \in [DriveNumbers -> Works]
      /\ drives[n].present /\ d.kind # "none"
  BY <1>1, <1>2 DEF IdeInv, IdeTyped, SearchInv
<1>4. /\ d.kind \in {"PATA", "broken PATA", "faulting PATA", "PATAPI", "SATA"}
      /\ working[n].state # "busy"
  <2>1. Status(n) # "busy"
    BY <1>2 DEF Signature
  <2>2. d.kind # "floating"
    BY <1>1, <1>2, <2>1, ProbedStatus
  <2>3. Status(n) = working[n].state
    BY <1>1, <1>2, <1>3, <2>2, ProbedStatus
  <2> QED BY <1>2, <1>3, <2>1, <2>2, <2>3, SizeTyped DEF Kinds
<1>5. PICK type : type = TypeBySignature(d.kind)
  OBVIOUS
<1>6. CASE type = "PATA"
  <2>1. /\ ide' = [ide EXCEPT !.step = "data"]
        /\ drives' = [drives EXCEPT ![n].type = type]
    BY <1>2, <1>5, <1>6 DEF Signature
  <2>2. d.kind \in {"PATA", "broken PATA", "faulting PATA"}
    BY <1>4, <1>5, <1>6 DEF TypeBySignature
  <2>3. /\ drives' \in [DriveNumbers -> DriveRecords] /\ drives'[n].present
        /\ \A m \in DriveNumbers : m # n => drives'[m] = drives[m]
    BY <1>2, <1>3, <1>6, <2>1 DEF DriveRecords
  <2>4. OnlyThisDrive
    BY <1>1, <1>2, <1>3, <2>3 DEF OnlyThisDrive
  <2> QED BY <1>1, <1>2, <2>1, <2>2, <2>3, <2>4, GoOnKeeps
<1>7. CASE type # "PATA"
  <2>1. /\ ide' = Advanced
        /\ drives' = [drives EXCEPT ![n] = [present |-> FALSE, type |-> type, size |-> 0]]
    BY <1>2, <1>5, <1>7 DEF Signature
  <2>2. d.kind \in {"PATAPI", "SATA"} /\ type \in {"PATAPI", "SATA"}
    BY <1>4, <1>5, <1>7 DEF TypeBySignature
  <2>3. /\ drives' \in [DriveNumbers -> DriveRecords] /\ ~drives'[n].present
        /\ \A m \in DriveNumbers : m # n => drives'[m] = drives[m]
    BY <1>2, <1>3, <2>1, <2>2 DEF DriveRecords
  <2>4. OnlyThisDrive
    BY <1>1, <1>2, <1>3, <2>3 DEF OnlyThisDrive
  <2>5. working[n].state \notin {"busy", "data"}
    BY <1>1, <1>2, <1>4, <2>2, ProbedStatus DEF Probing
  <2> QED BY <1>1, <1>2, <2>1, <2>2, <2>3, <2>4, <2>5, AdvanceKeeps
<1> QED BY <1>6, <1>7

LEMMA IdentifyDataKeeps == IdeInv /\ IdentifyData => IdeInv'
<1> SUFFICES ASSUME IdeInv, IdentifyData PROVE IdeInv'
  OBVIOUS
<1>1. /\ ide.step = "data" /\ ide.step \in Probed
      /\ computer' = computer /\ controllers' = controllers /\ channels' = channels
      /\ reader' = reader /\ unread' = unread /\ ide' = Advanced
  BY DEF IdentifyData, Probed
<1>2. PICK n, d : /\ n \in DriveNumbers /\ n = ide.n /\ d = There(n) /\ d \in Drives
                  /\ Selecting(n) = n /\ Probing(n)
  BY <1>1, ProbedStatus
<1>3. /\ drives \in [DriveNumbers -> DriveRecords] /\ working \in [DriveNumbers -> Works]
      /\ drives[n].present /\ d.kind \in {"PATA", "broken PATA", "faulting PATA"}
  BY <1>1, <1>2 DEF IdeInv, IdeTyped, SearchInv
<1>4. Status(n) = working[n].state
  BY <1>1, <1>2, <1>3, ProbedStatus
<1>5. /\ working' = [working EXCEPT ![n] = Idle]
      /\ drives' = IF Status(n) = "error" THEN drives ELSE [drives EXCEPT ![n].size = SizeOf(d)]
      /\ Status(n) \in {"data", "error"}
  BY <1>2 DEF IdentifyData
<1>6. /\ working' \in [DriveNumbers -> Works] /\ working'[n].state = "idle"
      /\ \A m \in DriveNumbers : m # n => working'[m] = working[m]
  <2>1. Idle \in Works /\ Idle.state = "idle"
    BY DEF Works, Idle
  <2> QED BY <1>2, <1>3, <1>5, <2>1
<1>7. CASE Status(n) = "error"
  <2>1. d.kind = "broken PATA"
    BY <1>2, <1>3, <1>4, <1>7 DEF Probing
  <2>2. drives' = drives
    BY <1>5, <1>7
  <2>3. OnlyThisDrive
    BY <1>1, <1>2, <1>3, <1>6, <2>2 DEF OnlyThisDrive
  <2> QED BY <1>1, <1>2, <1>3, <1>6, <2>1, <2>2, <2>3, AdvanceKeeps
<1>8. CASE Status(n) = "data"
  <2>1. PICK size \in Nat : size = SizeOf(d)
    BY <1>2, SizeTyped
  <2>2. drives' = [drives EXCEPT ![n].size = size]
    BY <1>5, <1>8, <2>1
  <2>3. /\ drives' \in [DriveNumbers -> DriveRecords] /\ drives'[n].present
        /\ drives'[n].size = SizeOf(d)
        /\ \A m \in DriveNumbers : m # n => drives'[m] = drives[m]
    <3>1. PICK e \in DriveRecords : e = drives[n]
      BY <1>2, <1>3
    <3>2. PICK f : f = [e EXCEPT !.size = size]
      OBVIOUS
    <3>3. f \in DriveRecords
      BY <2>1, <3>1, <3>2 DEF DriveRecords
    <3>4. f.present = e.present /\ f.size = size
      BY <3>1, <3>2 DEF DriveRecords
    <3>5. drives' = [drives EXCEPT ![n] = f]
      BY <1>3, <2>2, <3>1, <3>2
    <3>6. /\ drives' \in [DriveNumbers -> DriveRecords] /\ drives'[n] = f
          /\ \A m \in DriveNumbers : m # n => drives'[m] = drives[m]
      BY <1>2, <1>3, <3>3, <3>5
    <3> QED BY <1>3, <2>1, <3>1, <3>4, <3>6
  <2>4. OnlyThisDrive
    BY <1>1, <1>2, <1>6, <2>3 DEF OnlyThisDrive
  <2>5. d.kind = "PATA"
    BY <1>2, <1>4, <1>8 DEF Probing
  <2> QED BY <1>1, <1>2, <1>3, <1>6, <2>3, <2>4, <2>5, AdvanceKeeps
<1> QED BY <1>5, <1>7, <1>8

\* A call is for a drive that was found.
LEMMA CallHasDrive ==
  ASSUME IdeInv, reader.step # "none"
  PROVE  /\ ide.step = "ready" /\ ide.at # NoController
         /\ reader.n \in DriveNumbers /\ drives[reader.n].present
         /\ There(reader.n) \in Drives /\ Found(reader.n)
<1>1. ide.step = "ready" /\ drives[reader.n].present
  BY DEF IdeInv, ReaderInv
<1>2. reader.n \in DriveNumbers
  BY DEF IdeInv, IdeTyped, Readers
<1>3. ide.at # NoController
  BY <1>1, <1>2 DEF IdeInv, SearchInv
<1>4. There(reader.n) \in Drives
  BY <1>2, <1>3, ThereTyped DEF IdeInv
<1>5. Found(reader.n)
  BY <1>1, <1>2, <1>3 DEF IdeInv, SearchInv
<1> QED BY <1>1, <1>2, <1>3, <1>4, <1>5

\* What is quiet is asked nothing, and answers nothing.
LEMMA QuietStays ==
  ASSUME NEW n \in DriveNumbers, NEW m \in DriveNumbers, IdeTyped, DriveAnswers(n), Quiet(m),
         There(m)' = There(m)
  PROVE  m # n /\ Quiet(m)'
<1>1. m # n
  BY DEF DriveAnswers, Quiet
<1>2. \E state : working' = [working EXCEPT ![n].state = state]
  BY DEF DriveAnswers
<1>3. working'[m] = working[m]
  BY <1>1, <1>2 DEF IdeTyped
<1> QED BY <1>1, <1>3 DEF Quiet

\* A drive's answer is right for its kind and the sector it is at.
LEMMA AnswerKeeps ==
  ASSUME NEW n \in DriveNumbers, IdeInv, DriveAnswers(n)
  PROVE  IdeInv'
<1>1. /\ computer' = computer /\ controllers' = controllers /\ channels' = channels
      /\ drives' = drives /\ ide' = ide /\ reader' = reader /\ unread' = unread
      /\ working[n].state = "busy"
  BY DEF DriveAnswers
<1>2. IdeTyped /\ SearchInv /\ ReaderInv /\ QuietInv
  BY DEF IdeInv
<1>3. PICK d : d = There(n) /\ d.kind \notin {"none", "floating"}
  BY DEF DriveAnswers
<1>4. PICK state \in {"error", "fault", "data"} :
        /\ working' = [working EXCEPT ![n].state = state]
        /\ working[n].left = 0 => state = Identified(d.kind)
        /\ working[n].left # 0 /\ state # "data" => Fails(d, working[n].sector)
  <2>1. PICK state \in Outcomes(n) : working' = [working EXCEPT ![n].state = state]
    BY DEF DriveAnswers
  <2>2. working[n].left = 0 => state = Identified(d.kind)
    BY <1>3, <2>1 DEF Outcomes
  <2>3. working[n].left # 0 =>
          state \in {"error", "fault", "data"} /\ (state # "data" => Fails(d, working[n].sector))
    BY <1>3, <2>1 DEF Outcomes
  <2>4. Identified(d.kind) \in {"error", "fault", "data"}
    BY DEF Identified
  <2> QED BY <2>1, <2>2, <2>3, <2>4
<1>5. working \in [DriveNumbers -> Works]
  BY <1>2 DEF IdeTyped
<1>6. /\ working' \in [DriveNumbers -> Works]
      /\ \A m \in DriveNumbers : m # n => working'[m] = working[m]
      /\ working'[n].state = state /\ working'[n].left = working[n].left
      /\ working'[n].sector = working[n].sector
  BY <1>4, <1>5 DEF Works
<1>7. \A m \in DriveNumbers : There(m)' = There(m)
  BY <1>1, ThereSame
<1>8. \A m \in DriveNumbers : (Found(m) => Found(m)') /\ (Quiet(m) => Quiet(m)')
  BY <1>1, <1>2, <1>7, FoundSame, QuietStays
<1>9. IdeTyped'
  BY <1>1, <1>2, <1>6 DEF IdeTyped, Sets
<1>10. ide.step \in Probed => Probing(ide.n)'
  <2>1. SUFFICES ASSUME ide.step \in Probed PROVE Probing(ide.n)'
    OBVIOUS
  <2>2. PICK m \in DriveNumbers : m = ide.n /\ Probing(m) /\ There(m) \in Drives
    BY <2>1, ProbedStatus
  <2>3. CASE m # n
    BY <1>1, <1>6, <1>7, <2>2, <2>3 DEF Probing
  <2>4. CASE m = n
    <3>1. working[n].left = 0 /\ channels[ChannelOf(n)].drive = n % 2
      BY <2>2, <2>4 DEF Probing
    <3>2. d.kind \in {"PATA", "broken PATA", "faulting PATA", "PATAPI", "SATA"}
      BY <1>3, <2>2, <2>4, SizeTyped DEF Kinds
    <3>3. /\ state = "data" => d.kind = "PATA"
          /\ state = "error" => d.kind \in {"broken PATA", "PATAPI", "SATA"}
          /\ state = "fault" => d.kind = "faulting PATA"
      BY <1>4, <3>1, <3>2 DEF Identified
    <3>4. There(n)' = d
      BY <1>3, <1>7
    <3>5. Probing(n)'
      BY <1>1, <1>6, <3>1, <3>3, <3>4 DEF Probing
    <3> QED BY <1>1, <2>2, <2>4, <3>5
  <2> QED BY <2>3, <2>4
<1>11. SearchInv'
  <2>1. ide.n \in DriveNumbers
    BY <1>2 DEF IdeTyped
  <2>2. There(ide.n)' = There(ide.n)
    BY <1>1, <1>7, <2>1
  <2> QED BY <1>1, <1>2, <1>8, <1>10, <2>2 DEF SearchInv, Probed
<1>12. SelectInv'
  BY <1>1 DEF IdeInv, SelectInv
<1>13. QuietInv'
  BY <1>1, <1>2, <1>8 DEF QuietInv
<1>14. reader.step = "poll" /\ ChannelOf(reader.n) \notin unread => Reading(reader.n)'
  <2>1. SUFFICES ASSUME reader.step = "poll", ChannelOf(reader.n) \notin unread
                 PROVE  Reading(reader.n)'
    OBVIOUS
  <2>2. PICK m \in DriveNumbers : m = reader.n /\ Reading(m)
    BY <1>2, <2>1 DEF IdeTyped, Readers, ReaderInv
  <2>3. CASE m # n
    BY <1>1, <1>6, <1>7, <2>2, <2>3 DEF Reading
  <2>4. CASE m = n
    <3>1. working[n].left # 0
      <4>1. reader.sectors \in Nat /\ Len(reader.buffer) \in Nat
        BY <1>2 DEF IdeTyped, Readers
      <4>2. Len(reader.buffer) < reader.sectors
        BY <1>2, <2>1 DEF ReaderInv
      <4>3. working[n].left = reader.sectors - Len(reader.buffer)
        BY <2>2, <2>4 DEF Reading
      <4> QED BY <4>1, <4>2, <4>3
    <3>2. state # "data" => ~Readable(d, working[n].sector)
      <4>1. d \in Drives
        BY <1>3, <2>1, <2>2, <2>4, CallHasDrive
      <4>2. SizeOf(d) \in Nat /\ working[n].sector \in Nat /\ MaxLba28 \in Nat
        BY <1>5, <4>1, SizeTyped, Spans DEF Works
      <4>3. /\ working[n].sector >= SizeOf(d) => ~ (working[n].sector < SizeOf(d))
            /\ working[n].sector > MaxLba28 => ~ (working[n].sector <= MaxLba28)
        BY <4>2
      <4> QED BY <1>4, <3>1, <4>3 DEF Readable, Fails
    <3>3. There(n)' = d
      BY <1>3, <1>7
    <3>4. Reading(n)'
      BY <1>1, <1>6, <2>2, <2>4, <3>2, <3>3 DEF Reading
    <3> QED BY <1>1, <2>2, <2>4, <3>4
  <2> QED BY <2>3, <2>4
<1>15. ReaderInv'
  <2>1. reader.n \in DriveNumbers
    BY <1>2 DEF IdeTyped, Readers
  <2>2. There(reader.n)' = There(reader.n)
    BY <1>1, <1>7, <2>1
  <2>3. Registered(reader.n)' <=> Registered(reader.n)
    BY <1>1 DEF Registered
  <2> QED BY <1>1, <1>2, <1>14, <2>2, <2>3 DEF ReaderInv
<1> QED BY <1>9, <1>11, <1>12, <1>13, <1>15 DEF IdeInv

-----------------------------------------------------------------------------
(* Reading.                                                                *)

\* While a call runs the search is over: what it found stays.
LEMMA ReadingKeepsSearch ==
  ASSUME IdeInv, reader.step # "none",
         computer' = computer, controllers' = controllers, drives' = drives, ide' = ide,
         channels' \in [Channels -> ChannelRecords], working' \in [DriveNumbers -> Works],
         \A c \in Channels : channels'[c].native = channels[c].native,
         reader' \in Readers, unread' \subseteq Channels
  PROVE  /\ IdeTyped' /\ SearchInv' /\ SelectInv'
         /\ \A n \in DriveNumbers : There(n)' = There(n)
<1>1. \A n \in DriveNumbers : There(n)' = There(n)
  BY ThereSame
<1>2. ide.step = "ready" /\ ide.at # NoController /\ IdeTyped /\ SearchInv
  BY CallHasDrive DEF IdeInv
<1>3. IdeTyped'
  BY <1>2 DEF IdeTyped, Sets
<1>4. \A n \in DriveNumbers : Found(n)'
  BY <1>1, <1>2, FoundSame DEF SearchInv
<1>5. SearchInv'
  BY <1>2, <1>4 DEF SearchInv
<1>6. SelectInv'
  BY <1>2 DEF SelectInv
<1> QED BY <1>1, <1>3, <1>5, <1>6

\* A call, and the drive and channel it is for.
LEMMA CallTyped ==
  ASSUME IdeInv, reader.step # "none"
  PROVE  \E n \in DriveNumbers, c \in Channels, r \in {0, 1}, lba \in Nat, sectors \in Nat :
           /\ n = reader.n /\ c = ChannelOf(n) /\ r = n % 2 /\ 2 * c + r = n
           /\ lba = reader.lba /\ sectors = reader.sectors
           /\ reader \in Readers /\ drives[n].present /\ There(n) \in Drives /\ Found(n)
           /\ ide.step = "ready" /\ ide.at # NoController
           /\ channels \in [Channels -> ChannelRecords] /\ working \in [DriveNumbers -> Works]
           /\ unread \subseteq Channels
<1>1. /\ reader.n \in DriveNumbers /\ drives[reader.n].present /\ There(reader.n) \in Drives
      /\ Found(reader.n) /\ ide.step = "ready" /\ ide.at # NoController
  BY CallHasDrive
<1>2. \E n \in DriveNumbers, c \in Channels, r \in {0, 1} :
        n = reader.n /\ c = ChannelOf(n) /\ r = n % 2 /\ 2 * c + r = n
  <2>1. PICK n \in DriveNumbers : n = reader.n
    BY <1>1
  <2>2. /\ ChannelOf(n) \in Channels /\ n % 2 \in {0, 1}
        /\ 2 * ChannelOf(n) + (n % 2) = n
    BY DriveFacts
  <2>3. PICK c, r : c = ChannelOf(n) /\ r = n % 2
    OBVIOUS
  <2> QED BY <2>1, <2>2, <2>3
<1>3. /\ reader \in Readers /\ channels \in [Channels -> ChannelRecords]
      /\ working \in [DriveNumbers -> Works] /\ unread \subseteq Channels
  BY DEF IdeInv, IdeTyped
<1>4. PICK lba \in Nat, sectors \in Nat : lba = reader.lba /\ sectors = reader.sectors
  BY <1>3 DEF Readers
<1>5. PICK n \in DriveNumbers, c \in Channels, r \in {0, 1} :
        n = reader.n /\ c = ChannelOf(n) /\ r = n % 2 /\ 2 * c + r = n
  BY <1>2
<1> QED BY <1>1, <1>3, <1>4, <1>5

\* The drive a channel has selected is one of its own.
LEMMA SelectedHere ==
  ASSUME IdeTyped, NEW n \in DriveNumbers
  PROVE  /\ Selecting(n) \in DriveNumbers /\ ChannelOf(Selecting(n)) = ChannelOf(n)
         /\ Selecting(n) = Selected(ChannelOf(n))
         /\ channels[ChannelOf(n)].drive = n % 2 => Selecting(n) = n
<1>1. PICK c \in Channels : c = ChannelOf(n)
  BY DriveFacts
<1>2. PICK d \in {0, 1} : d = channels[c].drive
  BY <1>1 DEF IdeTyped, ChannelRecords
<1>3. Selecting(n) = 2 * c + d
  BY <1>1, <1>2 DEF Selecting, Selected
<1>4. (2 * c + d) \div 2 = c
  BY <1>1, <1>2 DEF Channels
<1> QED BY <1>1, <1>3, <1>4, SelectedIs DEF Selecting, ChannelOf

\* A channel that has all its sectors read takes registers and commands from a new call.
LEMMA TakesRegisters ==
  ASSUME IdeInv, reader.step \notin {"none", "poll"}, ChannelOf(reader.n) \notin unread
  PROVE  Status(reader.n) \notin {"busy", "data"}
<1>1. PICK n \in DriveNumbers : n = reader.n /\ ide.step = "ready" /\ ide.at # NoController
  BY CallHasDrive
<1>2. PICK m \in DriveNumbers : m = Selecting(n) /\ ChannelOf(m) = ChannelOf(n)
  BY <1>1, SelectedHere DEF IdeInv
<1>3. Quiet(m)
  BY <1>1, <1>2 DEF IdeInv, QuietInv
<1> QED BY <1>1, <1>2, <1>3 DEF Status, Quiet

\* Before a call polls, what is quiet stays so where no drive is given anything to do.
LEMMA QuietBefore ==
  ASSUME IdeInv, reader.step \notin {"none", "poll"}, reader'.step # "poll", ide' = ide,
         working' = working, unread' = unread, \A m \in DriveNumbers : There(m)' = There(m)
  PROVE  QuietInv'
BY DEF IdeInv, QuietInv, Quiet

LEMMA CheckCallKeeps == IdeInv /\ CheckCall => IdeInv'
<1> SUFFICES ASSUME IdeInv, CheckCall PROVE IdeInv'
  OBVIOUS
<1>1. /\ computer' = computer /\ controllers' = controllers /\ drives' = drives
      /\ ide' = ide /\ channels' = channels /\ working' = working /\ unread' = unread
      /\ reader.step = "call"
  BY DEF CheckCall
<1>2. PICK n \in DriveNumbers, lba \in Nat, sectors \in Nat :
        /\ n = reader.n /\ lba = reader.lba /\ sectors = reader.sectors
        /\ reader \in Readers /\ drives[n].present /\ ide.step = "ready"
        /\ channels \in [Channels -> ChannelRecords] /\ working \in [DriveNumbers -> Works]
        /\ unread \subseteq Channels
  BY <1>1, CallTyped
<1>3. reader.buffer = <<>> /\ reader.written = 0
  BY <1>1 DEF IdeInv, ReaderInv
<1>4. PICK step \in {"done", "registers"} :
        /\ reader' = [reader EXCEPT !.step = step]
        /\ step = "done" => lba > MaxLba28
        /\ step = "registers" => ~ (lba > MaxLba28)
  BY <1>2 DEF CheckCall
<1>5. /\ reader' \in Readers /\ reader'.n = n /\ reader'.lba = lba /\ reader'.written = 0
      /\ reader'.sectors = sectors /\ reader'.buffer = <<>> /\ reader'.step = step
  BY <1>2, <1>3, <1>4 DEF Readers
<1>6. /\ IdeTyped' /\ SearchInv' /\ SelectInv' /\ \A m \in DriveNumbers : There(m)' = There(m)
  BY <1>1, <1>2, <1>5, ReadingKeepsSearch
<1>7. step = "done" =>
        ((\A k \in 0..sectors - 1 : Readable(There(n), lba + k)) => sectors = 0)
  <2>1. step = "done" => ~Readable(There(n), lba + 0)
    <3>1. step = "done" => ~ (lba + 0 <= MaxLba28)
      BY <1>4, Spans
    <3> QED BY <3>1 DEF Readable
  <2>2. sectors # 0 => 0 \in 0..sectors - 1
    OBVIOUS
  <2> QED BY <2>1, <2>2
<1>8. step = "registers" => Registered(n)'
  <2>1. step = "registers" => lba <= MaxLba28
    BY <1>4, Spans
  <2> QED BY <1>5, <2>1 DEF Registered, Registers
<1>9. Len(<<>>) = 0 /\ [k \in 1..0 |-> <<n, lba + k - 1>>] = <<>> /\ 0 <= sectors
  OBVIOUS
<1>10. There(n)' = There(n)
  BY <1>6
<1>11. ReaderInv'
  BY <1>1, <1>2, <1>5, <1>7, <1>8, <1>9, <1>10 DEF ReaderInv
<1>12. QuietInv'
  BY <1>1, <1>5, <1>6, QuietBefore
<1> QED BY <1>6, <1>11, <1>12 DEF IdeInv

\* What the k-th register holds then, and that the others hold what they did.
LEMMA WrittenIs ==
  ASSUME channels \in [Channels -> ChannelRecords], reader \in Readers,
         NEW c \in Channels, c = ChannelOf(reader.n), reader.n % 2 \in {0, 1},
         NEW bytes, bytes = LbaBytes(reader.lba), NEW k \in 1..Registers
  PROVE  /\ Written(k) \in [Channels -> ChannelRecords]
         /\ \A d \in Channels : Written(k)[d].native = channels[d].native
         /\ k = 1 => Written(k)[c].drive = reader.n % 2 /\ Written(k)[c].high = HighBits(reader.lba)
         /\ k > 1 => Written(k)[c].drive = channels[c].drive /\ Written(k)[c].high = channels[c].high
         /\ k = 2 => Written(k)[c].count = reader.sectors
         /\ k > 2 => Written(k)[c].count = channels[c].count
         /\ k > 2 => Written(k)[c].lba[k - 2] = bytes[k - 2]
         /\ k > 3 => Written(k)[c].lba[1] = channels[c].lba[1]
         /\ k > 4 => Written(k)[c].lba[2] = channels[c].lba[2]
<1>1. PICK lba \in Nat, sectors \in Nat, r \in {0, 1}, high \in Nat :
        /\ lba = reader.lba /\ sectors = reader.sectors /\ r = reader.n % 2 /\ high = HighBits(lba)
  <2>1. reader.lba \in Nat /\ reader.sectors \in Nat
    BY DEF Readers
  <2>2. HighBits(reader.lba) \in Nat
    BY <2>1, LbaTyped
  <2> QED BY <2>1, <2>2
<1>2. PICK x \in Nat, y \in Nat, z \in Nat : bytes = <<x, y, z>>
  <2>1. bytes \in Lbas
    BY <1>1, LbaTyped
  <2> QED BY <2>1 DEF Lbas
<1>3. PICK e \in ChannelRecords : e = channels[c]
  OBVIOUS
<1>4. PICK u \in Nat, v \in Nat, w \in Nat : e.lba = <<u, v, w>>
  BY DEF ChannelRecords, Lbas
<1>5. PICK f : f = CASE k = 1 -> [e EXCEPT !.drive = r, !.high = high]
                     [] k = 2 -> [e EXCEPT !.count = sectors]
                     [] OTHER -> [e EXCEPT !.lba[k - 2] = bytes[k - 2]]
  OBVIOUS
<1>6. Written(k) = [channels EXCEPT ![c] = f]
  <2>1. CASE k = 1
    <3>1. Written(k) = [channels EXCEPT ![c].drive = r, ![c].high = high]
      BY <1>1, <2>1 DEF Written
    <3>2. f = [e EXCEPT !.drive = r, !.high = high]
      BY <1>5, <2>1
    <3> QED BY <1>3, <3>1, <3>2
  <2>2. CASE k = 2
    BY <1>1, <1>3, <1>5, <2>2 DEF Written
  <2>3. CASE k # 1 /\ k # 2
    BY <1>1, <1>3, <1>5, <2>3 DEF Written
  <2> QED BY <2>1, <2>2, <2>3
<1>7. k \in {1, 2, 3, 4, 5}
  BY DEF Registers
<1>8. /\ f \in ChannelRecords /\ f.native = e.native
      /\ k = 1 => f.drive = r /\ f.high = high
      /\ k > 1 => f.drive = e.drive /\ f.high = e.high
      /\ k = 2 => f.count = sectors
      /\ k > 2 => f.count = e.count
      /\ k > 2 => f.lba[k - 2] = bytes[k - 2]
      /\ k > 3 => f.lba[1] = e.lba[1]
      /\ k > 4 => f.lba[2] = e.lba[2]
  <2>1. CASE k = 1
    <3>1. f = [e EXCEPT !.drive = r, !.high = high]
      BY <1>5, <2>1
    <3>2. f = [selected_dev |-> e.selected_dev, native |-> e.native, drive |-> r, high |-> high,
               count |-> e.count, lba |-> e.lba]
      BY <3>1 DEF ChannelRecords
    <3>3. r \in {0, 1} /\ high \in Nat /\ e \in ChannelRecords
      OBVIOUS
    <3> QED BY <2>1, <3>2, <3>3 DEF ChannelRecords
  <2>2. CASE k = 2
    BY <1>3, <1>5, <2>2 DEF ChannelRecords
  <2>3. CASE k = 3
    <3>1. f = [e EXCEPT !.lba = <<x, v, w>>]
      BY <1>2, <1>3, <1>4, <1>5, <2>3 DEF ChannelRecords
    <3> QED BY <1>2, <1>3, <1>4, <2>3, <3>1 DEF ChannelRecords, Lbas
  <2>4. CASE k = 4
    <3>1. f = [e EXCEPT !.lba = <<u, y, w>>]
      BY <1>2, <1>3, <1>4, <1>5, <2>4 DEF ChannelRecords
    <3> QED BY <1>2, <1>3, <1>4, <2>4, <3>1 DEF ChannelRecords, Lbas
  <2>5. CASE k = 5
    <3>1. f = [e EXCEPT !.lba = <<u, v, z>>]
      BY <1>2, <1>3, <1>4, <1>5, <2>5 DEF ChannelRecords
    <3> QED BY <1>2, <1>3, <1>4, <2>5, <3>1 DEF ChannelRecords, Lbas
  <2> QED BY <1>7, <2>1, <2>2, <2>3, <2>4, <2>5
<1> QED BY <1>1, <1>3, <1>6, <1>8

LEMMA WriteRegisterKeeps == IdeInv /\ WriteRegister => IdeInv'
<1> SUFFICES ASSUME IdeInv, WriteRegister PROVE IdeInv'
  OBVIOUS
<1>1. /\ computer' = computer /\ controllers' = controllers /\ drives' = drives
      /\ ide' = ide /\ working' = working /\ unread' = unread
      /\ reader.step = "registers" /\ reader.written < Registers
      /\ reader' = [reader EXCEPT !.written = @ + 1]
      /\ channels' = IF Status(reader.n) \in {"busy", "data"} THEN channels
                     ELSE Written(reader.written + 1)
  BY DEF WriteRegister
<1>2. PICK n \in DriveNumbers, c \in Channels, r \in {0, 1}, lba \in Nat, sectors \in Nat :
        /\ n = reader.n /\ c = ChannelOf(n) /\ r = n % 2
        /\ lba = reader.lba /\ sectors = reader.sectors
        /\ reader \in Readers /\ drives[n].present /\ ide.step = "ready"
        /\ channels \in [Channels -> ChannelRecords] /\ working \in [DriveNumbers -> Works]
        /\ unread \subseteq Channels
  BY <1>1, CallTyped
<1>3. PICK k \in 1..Registers, j \in Nat : j = reader.written /\ k = j + 1
  <2>1. PICK j \in Nat : j = reader.written
    BY <1>2 DEF Readers
  <2>2. j + 1 \in 1..Registers
    BY <1>1, <2>1 DEF Registers
  <2> QED BY <2>1, <2>2
<1>4. /\ reader' \in Readers /\ reader'.n = n /\ reader'.lba = lba /\ reader'.written = k
      /\ reader'.sectors = sectors /\ reader'.buffer = reader.buffer
      /\ reader'.step = "registers"
  <2>1. reader' = [reader EXCEPT !.written = k] /\ k \in Nat
    BY <1>1, <1>3
  <2> QED BY <1>1, <1>2, <2>1 DEF Readers
<1>5. PICK bytes : bytes = LbaBytes(lba)
  OBVIOUS
<1>6. PICK after : after = Written(k)
  OBVIOUS
<1>7. /\ after \in [Channels -> ChannelRecords]
      /\ \A d \in Channels : after[d].native = channels[d].native
      /\ k = 1 => after[c].drive = r /\ after[c].high = HighBits(lba)
      /\ k > 1 => after[c].drive = channels[c].drive /\ after[c].high = channels[c].high
      /\ k = 2 => after[c].count = sectors
      /\ k > 2 => after[c].count = channels[c].count
      /\ k > 2 => after[c].lba[k - 2] = bytes[k - 2]
      /\ k > 3 => after[c].lba[1] = channels[c].lba[1]
      /\ k > 4 => after[c].lba[2] = channels[c].lba[2]
  BY <1>2, <1>5, <1>6, WrittenIs
<1>8. channels' = channels \/ channels' = after
  BY <1>1, <1>3, <1>6
<1>9. /\ IdeTyped' /\ SearchInv' /\ SelectInv' /\ \A m \in DriveNumbers : There(m)' = There(m)
  BY <1>1, <1>2, <1>4, <1>7, <1>8, ReadingKeepsSearch
<1>10. c \notin unread => Registered(n)'
  <2>1. SUFFICES ASSUME c \notin unread PROVE Registered(n)'
    OBVIOUS
  <2>2. channels' = after
    BY <1>1, <1>2, <1>3, <1>6, <2>1, TakesRegisters
  <2>3. /\ lba <= MaxLba28 /\ j <= Registers
        /\ j >= 1 => channels[c].drive = r /\ channels[c].high = HighBits(lba)
        /\ j >= 2 => channels[c].count = sectors
        /\ j >= 3 => channels[c].lba[1] = bytes[1]
        /\ j >= 4 => channels[c].lba[2] = bytes[2]
    BY <1>1, <1>2, <1>3, <1>5, <2>1 DEF IdeInv, ReaderInv, Registered
  <2>4. /\ k \in {1, 2, 3, 4, 5} /\ k <= Registers
        /\ j = 0 <=> k = 1 
        /\ j >= 1 <=> k >= 2 
        /\ j >= 2 <=> k >= 3
        /\ j >= 3 <=> k >= 4 
        /\ j >= 4 <=> k >= 5
    BY <1>3 DEF Registers
  <2>5. /\ k >= 1 => after[c].drive = r /\ after[c].high = HighBits(lba)
        /\ k >= 2 => after[c].count = sectors
        /\ k >= 3 => after[c].lba[1] = bytes[1]
        /\ k >= 4 => after[c].lba[2] = bytes[2]
        /\ k >= 5 => after[c].lba[3] = bytes[3]
    BY <1>7, <2>3, <2>4
  <2> QED BY <1>2, <1>4, <1>5, <2>2, <2>3, <2>4, <2>5 DEF Registered
<1>11. ReaderInv'
  BY <1>1, <1>2, <1>4, <1>10 DEF IdeInv, ReaderInv
<1>12. QuietInv'
  BY <1>1, <1>4, <1>9, QuietBefore
<1> QED BY <1>9, <1>11, <1>12 DEF IdeInv

LEMMA StartReadKeeps == IdeInv /\ StartRead => IdeInv'
<1> SUFFICES ASSUME IdeInv, StartRead PROVE IdeInv'
  OBVIOUS
<1>1. /\ computer' = computer /\ controllers' = controllers /\ drives' = drives
      /\ ide' = ide /\ channels' = channels
      /\ reader.step = "registers" /\ reader.written = Registers
  BY DEF StartRead
<1>2. PICK n \in DriveNumbers, c \in Channels, r \in {0, 1}, lba \in Nat, sectors \in Nat :
        /\ n = reader.n /\ c = ChannelOf(n) /\ r = n % 2
        /\ lba = reader.lba /\ sectors = reader.sectors
        /\ reader \in Readers /\ drives[n].present /\ ide.step = "ready" /\ ide.at # NoController
        /\ channels \in [Channels -> ChannelRecords] /\ working \in [DriveNumbers -> Works]
        /\ unread \subseteq Channels
  BY <1>1, CallTyped
<1>3. PICK s \in DriveNumbers :
        s = Selected(c) /\ ChannelOf(s) = c /\ (channels[c].drive = r => s = n)
  BY <1>2, SelectedHere DEF IdeInv
<1>4. PICK asked \in ChannelRecords : asked = channels[c]
  BY <1>2
<1>5. PICK sector \in Nat : sector = Addressed(asked.lba, asked.high)
  <2>1. PICK u \in Nat, v \in Nat, w \in Nat, h \in Nat : asked.lba = <<u, v, w>> /\ asked.high = h
    BY DEF ChannelRecords, Lbas
  <2>2. PICK b \in Nat, b2 \in Nat, b3 \in Nat : b = ByteSpan /\ b2 = Width(2) /\ b3 = Width(3)
    BY Spans
  <2>3. Addressed(asked.lba, asked.high) = u + b * v + b2 * w + b3 * h
    BY <2>1, <2>2 DEF Addressed
  <2>4. b * v \in Nat /\ b2 * w \in Nat /\ b3 * h \in Nat
    BY <2>1, <2>2
  <2> QED BY <2>3, <2>4
<1>6. PICK left \in Nat : left = IF asked.count = 0 THEN Width(1) ELSE asked.count
  BY Spans DEF ChannelRecords
<1>7. /\ working' = IF Status(n) = "data" THEN working
                    ELSE [working EXCEPT ![s] = [state |-> "busy", sector |-> sector, left |-> left]]
      /\ unread' = IF sectors = 0 THEN unread \cup {c} ELSE unread
      /\ reader' = [reader EXCEPT !.step = IF sectors = 0 THEN "done" ELSE "poll"]
  BY <1>2, <1>3, <1>4, <1>5, <1>6 DEF StartRead
<1>8. /\ working' \in [DriveNumbers -> Works] /\ unread' \subseteq Channels
      /\ \A m \in DriveNumbers : m # s => working'[m] = working[m]
      /\ reader' \in Readers /\ reader'.n = n /\ reader'.lba = lba /\ reader'.sectors = sectors
      /\ reader'.buffer = <<>> /\ reader'.step = IF sectors = 0 THEN "done" ELSE "poll"
  <2>1. [state |-> "busy", sector |-> sector, left |-> left] \in Works
    BY DEF Works
  <2>2. /\ working' \in [DriveNumbers -> Works]
        /\ \A m \in DriveNumbers : m # s => working'[m] = working[m]
    BY <1>2, <1>7, <2>1
  <2>3. reader.buffer = <<>>
    BY <1>1 DEF IdeInv, ReaderInv
  <2>4. PICK step \in {"done", "poll"} : step = IF sectors = 0 THEN "done" ELSE "poll"
    OBVIOUS
  <2>5. reader' = [reader EXCEPT !.step = step]
    BY <1>7, <2>4
  <2>6. /\ reader' \in Readers /\ reader'.n = n /\ reader'.lba = lba /\ reader'.sectors = sectors
        /\ reader'.buffer = <<>> /\ reader'.step = step
    BY <1>2, <2>3, <2>5 DEF Readers
  <2> QED BY <1>2, <1>7, <2>2, <2>4, <2>6
<1>9. /\ IdeTyped' /\ SearchInv' /\ SelectInv' /\ \A m \in DriveNumbers : There(m)' = There(m)
  BY <1>1, <1>2, <1>8, ReadingKeepsSearch
<1>10. c \notin unread => /\ s = n /\ lba <= MaxLba28
                          /\ working'[n] = [state |-> "busy", sector |-> lba,
                                            left |-> IF sectors = 0 THEN Width(1) ELSE sectors]
  <2>1. SUFFICES ASSUME c \notin unread
                 PROVE  /\ s = n /\ lba <= MaxLba28
                        /\ working'[n] = [state |-> "busy", sector |-> lba,
                                          left |-> IF sectors = 0 THEN Width(1) ELSE sectors]
    OBVIOUS
  <2>2. PICK bytes : bytes = LbaBytes(lba)
    OBVIOUS
  <2>3. /\ lba <= MaxLba28 /\ asked.drive = r /\ asked.high = HighBits(lba)
        /\ asked.count = sectors
        /\ asked.lba[1] = bytes[1] /\ asked.lba[2] = bytes[2] /\ asked.lba[3] = bytes[3]
    BY <1>1, <1>2, <1>4, <2>1, <2>2 DEF IdeInv, ReaderInv, Registered, Registers
  <2>4. asked.lba = bytes
    <3>1. bytes \in Lbas /\ asked.lba \in Lbas
      BY <1>2, <2>2, LbaTyped DEF ChannelRecords
    <3> QED BY <2>3, <3>1 DEF Lbas
  <2>5. sector = lba
    BY <1>2, <1>5, <2>2, <2>3, <2>4, SectorNamed
  <2>6. Status(n) # "data"
    BY <1>1, <1>2, <2>1, TakesRegisters
  <2>7. s = n
    BY <1>3, <1>4, <2>3
  <2> QED BY <1>2, <1>6, <1>7, <2>3, <2>5, <2>6, <2>7
<1>11. c \notin unread' => c \notin unread /\ sectors # 0
  BY <1>7
<1>12. c \notin unread' => reader'.step = "poll" /\ Reading(n)'
  <2>1. SUFFICES ASSUME c \notin unread, sectors # 0 PROVE reader'.step = "poll" /\ Reading(n)'
    BY <1>11
  <2>2. lba + 0 = lba /\ sectors - 0 = sectors /\ Len(<<>>) = 0
    OBVIOUS
  <2>3. channels[c].drive = r
    BY <1>1, <1>2, <2>1 DEF IdeInv, ReaderInv, Registered, Registers
  <2> QED BY <1>1, <1>2, <1>8, <1>10, <2>1, <2>2, <2>3 DEF Reading
<1>13. Len(<<>>) = 0 /\ [k \in 1..0 |-> <<n, lba + k - 1>>] = <<>> /\ 0 <= sectors
       /\ (sectors # 0 => 0 < sectors)
  OBVIOUS
<1>14. ReaderInv'
  BY <1>1, <1>2, <1>8, <1>12, <1>13 DEF ReaderInv
<1>15. QuietInv'
  <2>1. SUFFICES ASSUME NEW m \in DriveNumbers, ChannelOf(m) \notin unread',
                        ~(reader'.step = "poll" /\ reader'.n = m)
                 PROVE  Quiet(m)'
    BY DEF QuietInv
  <2>2. ChannelOf(m) \notin unread
    BY <1>7, <2>1
  <2>3. m # s
    BY <1>3, <1>8, <1>10, <1>11, <1>12, <2>1
  <2>4. Quiet(m)
    BY <1>1, <1>2, <2>2 DEF IdeInv, QuietInv
  <2>5. working'[m] = working[m]
    BY <1>8, <2>3
  <2> QED BY <1>9, <2>4, <2>5 DEF Quiet
<1> QED BY <1>9, <1>14, <1>15 DEF IdeInv

\* A sector more in the buffer.
LEMMA BufferGrows ==
  ASSUME NEW n \in DriveNumbers, NEW lba \in Nat, NEW L \in Nat,
         NEW b \in Seq(DriveNumbers \X Nat), Len(b) = L,
         b = [k \in 1..L |-> <<n, lba + k - 1>>],
         NEW c, c = Append(b, <<n, lba + L>>)
  PROVE  /\ c \in Seq(DriveNumbers \X Nat) /\ Len(c) = L + 1
         /\ c = [k \in 1..(L + 1) |-> <<n, lba + k - 1>>]
<1>1. c \in Seq(DriveNumbers \X Nat) /\ Len(c) = L + 1
  OBVIOUS
<1>2. \A k \in 1..(L + 1) : c[k] = <<n, lba + k - 1>>
  <2>1. TAKE k \in 1..(L + 1)
  <2>2. CASE k = L + 1
    <3>1. c[k] = <<n, lba + L>>
      BY <2>2
    <3>2. lba + k - 1 = lba + L
      BY <2>2
    <3> QED BY <3>1, <3>2
  <2>3. CASE k # L + 1
    <3>1. k \in 1..L
      BY <2>3
    <3>2. c[k] = b[k]
      BY <3>1
    <3> QED BY <3>1, <3>2
  <2> QED BY <2>2, <2>3
<1>3. c = [k \in DOMAIN c |-> c[k]] /\ DOMAIN c = 1..(L + 1)
  BY <1>1
<1> QED BY <1>1, <1>2, <1>3

\* The drive whose sector is taken: on a channel that has all its sectors read, the one the
\* call is for, and the sector the one that is due.
LEMMA SectorDue ==
  ASSUME IdeInv, reader.step = "poll", ChannelOf(reader.n) \notin unread
  PROVE  /\ Selecting(reader.n) = reader.n /\ There(reader.n).kind \in {"PATA", "broken PATA"}
         /\ Status(reader.n) = working[reader.n].state /\ Reading(reader.n)
         /\ reader.buffer = [k \in 1..Len(reader.buffer) |-> <<reader.n, reader.lba + k - 1>>]
<1>1. PICK n \in DriveNumbers : n = reader.n /\ drives[n].present /\ Found(n)
  BY CallHasDrive
<1>2. Reading(n)
  BY <1>1 DEF IdeInv, ReaderInv
<1>3. Selecting(n) = n
  BY <1>2, SelectedIs DEF IdeInv, Reading
<1>4. There(n).kind \in {"PATA", "broken PATA"}
  BY <1>1 DEF Found
<1>5. Status(n) = working[n].state
  BY <1>3, <1>4 DEF Status
<1>6. reader.buffer = [k \in 1..Len(reader.buffer) |-> <<reader.n, reader.lba + k - 1>>]
  BY DEF IdeInv, ReaderInv
<1> QED BY <1>1, <1>2, <1>3, <1>4, <1>5, <1>6

LEMMA ReadSectorKeeps == IdeInv /\ ReadSector => IdeInv'
<1> SUFFICES ASSUME IdeInv, ReadSector PROVE IdeInv'
  OBVIOUS
<1>1. /\ computer' = computer /\ controllers' = controllers /\ drives' = drives
      /\ ide' = ide /\ channels' = channels /\ unread' = unread
      /\ reader.step = "poll" /\ Status(reader.n) \in {"data", "error", "fault"}
  BY DEF ReadSector
<1>2. PICK n \in DriveNumbers, lba \in Nat, sectors \in Nat :
        /\ n = reader.n /\ lba = reader.lba /\ sectors = reader.sectors
        /\ reader \in Readers /\ drives[n].present /\ ide.step = "ready" /\ ide.at # NoController
        /\ channels \in [Channels -> ChannelRecords] /\ working \in [DriveNumbers -> Works]
        /\ unread \subseteq Channels
  BY <1>1, CallTyped
<1>3. PICK s \in DriveNumbers : s = Selecting(n) /\ ChannelOf(s) = ChannelOf(n)
  BY SelectedHere DEF IdeInv
<1>4. PICK b \in Seq(DriveNumbers \X Nat), L \in Nat : b = reader.buffer /\ L = Len(b)
  <2>1. reader.buffer \in Seq(DriveNumbers \X Nat) /\ Len(reader.buffer) \in Nat
    BY <1>2 DEF Readers
  <2> QED BY <2>1
<1>5. PICK at \in Nat, left \in Int : at = working[s].sector /\ left = working[s].left
  BY <1>2 DEF Works
<1>6. L < sectors
  BY <1>1, <1>2, <1>4 DEF IdeInv, ReaderInv
<1>7. ChannelOf(n) \notin unread =>
        /\ s = n /\ at = lba + L /\ left = sectors - L /\ lba <= MaxLba28
        /\ channels[ChannelOf(n)].drive = n % 2
        /\ Status(n) = working[n].state
        /\ working[n].state \in {"error", "fault"} => ~Readable(There(n), lba + L)
        /\ b = [k \in 1..L |-> <<n, lba + k - 1>>]
  BY <1>1, <1>2, <1>3, <1>4, <1>5, SectorDue DEF Reading
<1>8. CASE Status(n) # "data"
  <2>1. reader' = [reader EXCEPT !.step = "done"] /\ working' = working
    BY <1>2, <1>8 DEF ReadSector
  <2>2. /\ reader' \in Readers /\ reader'.n = n /\ reader'.lba = lba
        /\ reader'.sectors = sectors /\ reader'.buffer = b /\ reader'.step = "done"
    BY <1>2, <1>4, <2>1 DEF Readers
  <2>3. /\ IdeTyped' /\ SearchInv' /\ SelectInv'
        /\ \A m \in DriveNumbers : There(m)' = There(m)
    BY <1>1, <1>2, <2>1, <2>2, ReadingKeepsSearch
  <2>4. Status(n) \in {"error", "fault"} /\ L \in 0..sectors - 1 /\ L <= sectors
    BY <1>1, <1>2, <1>6, <1>8
  <2>5. There(n)' = There(n)
    BY <2>3
  <2>6. ReaderInv'
    BY <1>1, <1>2, <1>4, <1>7, <2>2, <2>4, <2>5 DEF ReaderInv
  <2>7. QuietInv'
    <3>1. SUFFICES ASSUME NEW m \in DriveNumbers, ChannelOf(m) \notin unread PROVE Quiet(m)'
      BY <1>1 DEF QuietInv
    <3>2. CASE m # n
      BY <1>2, <2>1, <2>3, <3>1, <3>2 DEF IdeInv, QuietInv, Quiet
    <3>3. CASE m = n
      <4>1. There(n).kind \in {"PATA", "broken PATA"} /\ working[n].state \notin {"busy", "data"}
        BY <1>1, <1>2, <1>7, <2>4, <3>1, <3>3, SectorDue
      <4> QED BY <2>1, <2>5, <3>3, <4>1 DEF Quiet
    <3> QED BY <3>2, <3>3
  <2> QED BY <2>3, <2>6, <2>7 DEF IdeInv
<1>9. CASE Status(n) = "data"
  <2>1. PICK c : c = Append(b, <<s, at>>)
    OBVIOUS
  <2>2. c \in Seq(DriveNumbers \X Nat) /\ Len(c) = L + 1
    BY <1>4, <2>1
  <2>3. PICK step \in {"done", "poll"} : step = IF L + 1 = sectors THEN "done" ELSE "poll"
    OBVIOUS
  <2>4. reader' = [reader EXCEPT !.buffer = c, !.step = step]
    <3>1. LET buffer == Append(reader.buffer, <<s, working[s].sector>>)
              last == Len(buffer) = reader.sectors
          IN reader' = [reader EXCEPT !.buffer = buffer,
                                      !.step = IF last THEN "done" ELSE "poll"]
      BY <1>2, <1>3, <1>9 DEF ReadSector
    <3>2. Append(reader.buffer, <<s, working[s].sector>>) = c /\ reader.sectors = sectors
      BY <1>2, <1>4, <1>5, <2>1
    <3> QED BY <2>2, <2>3, <3>1, <3>2
  <2>5. /\ reader' \in Readers /\ reader'.n = n /\ reader'.lba = lba
        /\ reader'.sectors = sectors /\ reader'.buffer = c /\ reader'.step = step
    BY <1>2, <2>2, <2>4 DEF Readers
  <2>6. working' = [working EXCEPT ![s] =
                      IF left = 1 THEN Idle
                      ELSE [state |-> "busy", sector |-> at + 1, left |-> left - 1]]
    BY <1>2, <1>3, <1>5, <1>9 DEF ReadSector
  <2>7. /\ working' \in [DriveNumbers -> Works]
        /\ \A m \in DriveNumbers : m # s => working'[m] = working[m]
        /\ left = 1 => working'[s] = Idle
        /\ left # 1 => working'[s] = [state |-> "busy", sector |-> at + 1, left |-> left - 1]
    <3>1. Idle \in Works
      BY DEF Idle, Works
    <3>2. [state |-> "busy", sector |-> at + 1, left |-> left - 1] \in Works
      BY DEF Works
    <3> QED BY <1>2, <2>6, <3>1, <3>2
  <2>8. /\ IdeTyped' /\ SearchInv' /\ SelectInv'
        /\ \A m \in DriveNumbers : There(m)' = There(m)
    BY <1>1, <1>2, <2>5, <2>7, ReadingKeepsSearch
  <2>9. step = "poll" /\ ChannelOf(n) \notin unread => Reading(n)'
    <3>1. SUFFICES ASSUME step = "poll", ChannelOf(n) \notin unread PROVE Reading(n)'
      OBVIOUS
    <3>2. /\ left # 1 /\ at + 1 = lba + (L + 1) /\ left - 1 = sectors - (L + 1)
      BY <1>6, <1>7, <2>3, <3>1
    <3>3. working'[n] = [state |-> "busy", sector |-> lba + (L + 1), left |-> sectors - (L + 1)]
      BY <1>7, <2>7, <3>1, <3>2
    <3> QED BY <1>1, <1>7, <2>2, <2>5, <3>1, <3>3 DEF Reading
  <2>10. ChannelOf(n) \notin unread => c = [k \in 1..(L + 1) |-> <<n, lba + k - 1>>]
    <3>1. SUFFICES ASSUME ChannelOf(n) \notin unread
                   PROVE  c = [k \in 1..(L + 1) |-> <<n, lba + k - 1>>]
      OBVIOUS
    <3>2. Len(b) = L /\ b = [k \in 1..L |-> <<n, lba + k - 1>>] /\ c = Append(b, <<n, lba + L>>)
      BY <1>4, <1>7, <2>1, <3>1
    <3> QED BY <3>2, BufferGrows
  <2>11. L + 1 <= sectors /\ (step = "done" => L + 1 = sectors)
         /\ (step = "poll" => L + 1 < sectors)
    BY <1>6, <2>3
  <2>12. ReaderInv'
    BY <1>1, <1>2, <2>2, <2>5, <2>9, <2>10, <2>11 DEF ReaderInv
  <2>13. QuietInv'
    <3>1. SUFFICES ASSUME NEW m \in DriveNumbers, ChannelOf(m) \notin unread,
                          ~(step = "poll" /\ n = m)
                   PROVE  Quiet(m)'
      BY <1>1, <2>5 DEF QuietInv
    <3>2. CASE m # n
      <4>1. m # s
        BY <1>3, <1>7, <3>1, <3>2
      <4>2. Quiet(m)
        BY <1>1, <1>2, <3>1, <3>2 DEF IdeInv, QuietInv
      <4> QED BY <2>7, <2>8, <4>1, <4>2 DEF Quiet
    <3>3. CASE m = n
      <4>1. s = n /\ left = 1
        BY <1>7, <2>3, <2>11, <3>1, <3>3
      <4>2. working'[n].state = "idle"
        BY <2>7, <4>1 DEF Idle
      <4>3. There(n).kind \in {"PATA", "broken PATA"}
        BY <1>1, <1>2, <3>1, <3>3, SectorDue
      <4> QED BY <2>8, <3>3, <4>2, <4>3 DEF Quiet
    <3> QED BY <3>2, <3>3
  <2> QED BY <2>8, <2>12, <2>13 DEF IdeInv
<1> QED BY <1>8, <1>9

LEMMA IdeKeeps == IdeInv /\ Ide => IdeInv'
BY WalkKeeps, ChannelsKeep, IdentifyKeeps, FirstStatusKeeps, SignatureKeeps,
   IdentifyDataKeeps, EndKeeps, CheckCallKeeps, WriteRegisterKeeps, StartReadKeeps,
   ReadSectorKeeps DEF Ide, initialize_drive, read_sectors

\* What a step of the driver or a drive leaves: once the drives are known they stay, and a
\* call goes on as the call it is.
DriverStep ==
  /\ computer' = computer
  /\ ide.step = "ready" => ide' = ide /\ drives' = drives
  /\ reader.step = "none" => reader' = reader
  /\ reader.step # "none" => reader'.step # "none"
  /\ reader.step = "none" \/ reader.sectors # 0 => unread' = unread
  /\ reader'.n = reader.n /\ reader'.lba = reader.lba /\ reader'.sectors = reader.sectors

LEMMA DriverSteps ==
  ASSUME IdeInv, Ide \/ \E n \in DriveNumbers : DriveAnswers(n)
  PROVE  DriverStep
<1>1. ASSUME computer' = computer, reader' = reader, unread' = unread, ide.step # "ready"
      PROVE  DriverStep
  BY <1>1 DEF DriverStep
<1>2. CASE pci_initialize \/ initialize_channels \/ initialize_drive \/ IdeInitialized
  BY <1>1, <1>2 DEF pci_initialize, initialize_channels, initialize_drive, IdeInitialized,
                    Identify, FirstStatus, Signature, IdentifyData
<1>3. CASE read_sectors
  <2>1. /\ computer' = computer /\ ide' = ide /\ drives' = drives /\ reader.step # "none"
        /\ reader.sectors # 0 => unread' = unread
    BY <1>3 DEF read_sectors, CheckCall, WriteRegister, StartRead, ReadSector
  <2>2. reader \in Readers
    BY DEF IdeInv, IdeTyped
  <2>3. ASSUME NEW step \in {"registers", "done", "poll"}, reader' = [reader EXCEPT !.step = step]
        PROVE  DriverStep
    BY <2>1, <2>2, <2>3 DEF DriverStep, Readers
  <2>4. ASSUME NEW step \in {"done", "poll"}, NEW buffer,
               reader' = [reader EXCEPT !.buffer = buffer, !.step = step]
        PROVE  DriverStep
    BY <2>1, <2>2, <2>4 DEF DriverStep, Readers
  <2>5. CASE CheckCall
    <3>1. \/ reader' = [reader EXCEPT !.step = "done"]
          \/ reader' = [reader EXCEPT !.step = "registers"]
      BY <2>5 DEF CheckCall
    <3> QED BY <2>3, <3>1
  <2>6. CASE WriteRegister
    <3>1. reader' = [reader EXCEPT !.written = @ + 1]
      BY <2>6 DEF WriteRegister
    <3>2. /\ reader'.step = reader.step /\ reader'.n = reader.n /\ reader'.lba = reader.lba
          /\ reader'.sectors = reader.sectors
      BY <2>2, <3>1 DEF Readers
    <3> QED BY <2>1, <3>2 DEF DriverStep
  <2>7. CASE StartRead
    <3>1. \/ reader' = [reader EXCEPT !.step = "done"]
          \/ reader' = [reader EXCEPT !.step = "poll"]
      BY <2>7 DEF StartRead
    <3> QED BY <2>3, <3>1
  <2>8. CASE ReadSector
    <3>1. CASE Status(reader.n) # "data"
      <4>1. reader' = [reader EXCEPT !.step = "done"]
        BY <2>8, <3>1 DEF ReadSector
      <4> QED BY <2>3, <4>1
    <3>2. CASE Status(reader.n) = "data"
      <4>1. PICK buffer :
              buffer = Append(reader.buffer,
                              <<Selecting(reader.n), working[Selecting(reader.n)].sector>>)
        OBVIOUS
      <4>2. PICK step \in {"done", "poll"} :
              step = IF Len(buffer) = reader.sectors THEN "done" ELSE "poll"
        OBVIOUS
      <4>3. reader' = [reader EXCEPT !.buffer = buffer, !.step = step]
        BY <2>8, <3>2, <4>1, <4>2 DEF ReadSector
      <4> QED BY <2>4, <4>3
    <3> QED BY <3>1, <3>2
  <2> QED BY <1>3, <2>5, <2>6, <2>7, <2>8 DEF read_sectors
<1>4. CASE \E n \in DriveNumbers : DriveAnswers(n)
  BY <1>4 DEF DriveAnswers, DriverStep
<1> QED BY <1>2, <1>3, <1>4 DEF Ide

-----------------------------------------------------------------------------
(* The table.                                                              *)

LEMMA TableTyped ==
  ASSUME IdeTyped
  PROVE  /\ computer.memory \in Nat /\ Header.valid \in BOOLEAN
         /\ Header.start \in Nat /\ Header.start > 1
         /\ Header.entrySize \in Nat /\ Header.entrySize > 0
         /\ Header.entries \in Seq([used : BOOLEAN, start : Nat, end : Nat])
         /\ EntryCount \in Nat
         /\ Header.start + (Header.entrySize * EntryCount) \div SectorSize < Width(4)
         /\ \A i \in 1..EntryCount : Header.entries[i].start <= Header.entries[i].end
<1>1. computer \in Computers
  BY DEF IdeTyped
<1>2. /\ computer.memory \in Nat
      /\ computer.gpt \in [valid : BOOLEAN, start : Nat \ {0, 1}, entrySize : Nat,
                           entries : Seq([used : BOOLEAN, start : Nat, end : Nat])]
      /\ computer.gpt.entrySize >= 128
  BY <1>1, DiskAssumption
<1>3. Header.start + (Header.entrySize * Len(Header.entries)) \div SectorSize < Width(4)
  BY <1>1, DiskAssumption DEF Header
<1>4. \A i \in 1..Len(Header.entries) : Header.entries[i].start <= Header.entries[i].end
  BY <1>1, DiskAssumption DEF Header
<1>5. /\ Header.valid \in BOOLEAN
      /\ Header.start \in Nat /\ Header.start > 1
      /\ Header.entrySize \in Nat /\ Header.entrySize > 0
      /\ Header.entries \in Seq([used : BOOLEAN, start : Nat, end : Nat])
  BY <1>2 DEF Header
<1>6. EntryCount \in Nat
  BY <1>5 DEF EntryCount
<1> QED BY <1>2, <1>3, <1>4, <1>5, <1>6 DEF EntryCount

\* Division keeps the order.
LEMMA DivOrder ==
  ASSUME NEW a \in Nat, NEW b \in Nat, NEW d \in Nat, d > 0, a <= b
  PROVE  a \div d <= b \div d
OBVIOUS

LEMMA TargetTyped ==
  ASSUME IdeTyped, NEW i \in Nat, i <= EntryCount
  PROVE  TargetLba(i) \in Nat /\ TargetLba(i) > 1 /\ TargetLba(i) < Width(4)
<1>1. PICK es \in Nat, start \in Nat, c \in Nat :
        /\ es = Header.entrySize /\ start = Header.start /\ c = EntryCount
        /\ start > 1 /\ start + (es * c) \div 512 < Width(4)
  BY TableTyped DEF SectorSize
<1>2. PICK a \in Nat, b \in Nat : a = i * es /\ b = es * c
  OBVIOUS
<1>3. a <= b
  BY <1>1, <1>2
<1>4. PICK p \in Nat, q \in Nat : p = a \div 512 /\ q = b \div 512
  BY DivMod
<1>5. p <= q
  BY <1>3, <1>4, DivOrder
<1>6. TargetLba(i) = p + start
  BY <1>1, <1>2, <1>4 DEF TargetLba, SectorSize
<1>7. start + q < Width(4) /\ Width(4) \in Nat
  BY <1>1, <1>2, <1>4, Spans
<1> QED BY <1>1, <1>5, <1>6, <1>7

\* The entry at the place the driver takes the i-th one from is the i-th.
LEMMA EntryIs ==
  ASSUME IdeTyped, NEW i \in Nat, i < EntryCount
  PROVE  EntryAt(TargetLba(i), Offset(i)) = Header.entries[i + 1]
<1>1. PICK es \in Nat, start \in Nat, c \in Nat :
        es = Header.entrySize /\ start = Header.start /\ c = EntryCount /\ es > 0
  BY TableTyped
<1>2. PICK a \in Nat : a = i * es
  OBVIOUS
<1>3. PICK q \in Nat, r \in Nat : q = a \div 512 /\ r = a % 512 /\ a = 512 * q + r
  BY DivMod
<1>4. TargetLba(i) = q + start /\ Offset(i) = r
  BY <1>1, <1>2, <1>3 DEF TargetLba, Offset, SectorSize
<1>5. (TargetLba(i) - Header.start) * SectorSize + Offset(i) = a
  BY <1>1, <1>3, <1>4 DEF SectorSize
<1>6. a \div es = i /\ a % es = 0
  <2>1. a = es * i + 0
    BY <1>1, <1>2
  <2> QED BY <1>1, <2>1, DivUnique
<1>7. a >= 0 /\ i < EntryCount
  OBVIOUS
<1> QED BY <1>1, <1>5, <1>6, <1>7 DEF EntryAt

\* How many entries are in use up to one.
LEMMA UsedCounts ==
  /\ UsedBefore(0) = 0
  /\ \A i \in Nat :
       /\ UsedBefore(i) \in Nat
       /\ UsedBefore(i + 1) = IF Header.entries[i + 1].used THEN UsedBefore(i) + 1
                              ELSE UsedBefore(i)
<1> DEFINE Upto(i) == {j \in 1..i : Header.entries[j].used}
<1>1. \A i \in Nat : IsFiniteSet(Upto(i)) /\ Cardinality(Upto(i)) \in Nat
  <2>1. TAKE i \in Nat
  <2>2. IsFiniteSet(1..i)
    BY FS_Interval
  <2>3. Upto(i) \subseteq 1..i
    OBVIOUS
  <2>4. IsFiniteSet(Upto(i))
    BY <2>2, <2>3, FS_Subset
  <2> QED BY <2>4, FS_CardinalityType
<1>2. Upto(0) = {}
  OBVIOUS
<1>3. \A i \in Nat : i + 1 \notin Upto(i) /\
        Upto(i + 1) = IF Header.entries[i + 1].used THEN Upto(i) \cup {i + 1} ELSE Upto(i)
  <2>1. TAKE i \in Nat
  <2>2. 1..(i + 1) = (1..i) \cup {i + 1} /\ i + 1 \notin 1..i
    OBVIOUS
  <2> QED BY <2>2
<1>4. \A i \in Nat : UsedBefore(i) = Cardinality(Upto(i))
  BY DEF UsedBefore
<1> HIDE DEF Upto
<1>5. \A i \in Nat : Header.entries[i + 1].used => UsedBefore(i + 1) = UsedBefore(i) + 1
  <2>1. TAKE i \in Nat
  <2>2. SUFFICES ASSUME Header.entries[i + 1].used PROVE UsedBefore(i + 1) = UsedBefore(i) + 1
    OBVIOUS
  <2>3. Upto(i + 1) = Upto(i) \cup {i + 1}
    BY <1>3, <2>2
  <2>4. Cardinality(Upto(i) \cup {i + 1}) = Cardinality(Upto(i)) + 1
    BY <1>1, <1>3, FS_AddElement
  <2>5. i + 1 \in Nat
    OBVIOUS
  <2> QED BY <1>4, <2>3, <2>4, <2>5
<1>6. \A i \in Nat : ~Header.entries[i + 1].used => UsedBefore(i + 1) = UsedBefore(i)
  <2>1. \A i \in Nat : i + 1 \in Nat
    OBVIOUS
  <2> QED BY <1>3, <1>4, <2>1
<1>7. UsedBefore(0) = 0
  BY <1>2, <1>4, FS_EmptySet
<1> QED BY <1>1, <1>4, <1>5, <1>6, <1>7

LEMMA UsedGrows ==
  ASSUME NEW i \in Nat, NEW j \in Nat, i <= j
  PROVE  UsedBefore(i) <= UsedBefore(j)
<1> DEFINE Upto(k) == {m \in 1..k : Header.entries[m].used}
<1>1. IsFiniteSet(1..j)
  BY FS_Interval
<1>2. Upto(j) \subseteq 1..j /\ Upto(i) \subseteq Upto(j)
  OBVIOUS
<1>3. IsFiniteSet(Upto(j))
  BY <1>1, <1>2, FS_Subset
<1>4. Cardinality(Upto(i)) <= Cardinality(Upto(j))
  BY <1>2, <1>3, FS_Subset
<1> QED BY <1>4 DEF UsedBefore

\* An entry in use counts itself: those from it on are counted behind the ones before.
LEMMA UsedLater ==
  ASSUME NEW i \in Nat, NEW j \in Nat, i < j, Header.entries[j].used
  PROVE  UsedBefore(i) < UsedBefore(j)
<1>1. PICK k \in Nat : j = k + 1 /\ i <= k
  <2>1. j - 1 \in Nat /\ j = (j - 1) + 1 /\ i <= j - 1
    OBVIOUS
  <2> QED BY <2>1
<1>2. UsedBefore(i) <= UsedBefore(k) /\ UsedBefore(k) \in Nat /\ UsedBefore(i) \in Nat
  BY <1>1, UsedGrows, UsedCounts
<1>3. UsedBefore(j) = UsedBefore(k) + 1
  BY <1>1, UsedCounts
<1> QED BY <1>2, <1>3

-----------------------------------------------------------------------------
(* The steps of the driver, for its callers.                               *)

\* Where the drives are known or the table's reader has not begun, Complete is what it was.
LEMMA SameTable ==
  ASSUME computer' = computer, gpt'.drive = gpt.drive, gpt.drive # NoDisk => ide'.at = ide.at
  PROVE  /\ Header' = Header /\ EntryCount' = EntryCount
         /\ \A i \in Nat : UsedBefore(i)' = UsedBefore(i) /\ TargetLba(i)' = TargetLba(i)
         /\ (Complete' <=> Complete)
<1>1. /\ Header' = Header /\ EntryCount' = EntryCount
      /\ \A i \in Nat : UsedBefore(i)' = UsedBefore(i) /\ TargetLba(i)' = TargetLba(i)
  BY DEF Header, EntryCount, UsedBefore, TargetLba
<1>2. TableSectors' = TableSectors
  BY DEF TableSectors, Header, EntryCount, TargetLba
<1>3. UsedBefore(EntryCount)' = UsedBefore(EntryCount)
  BY DEF Header, EntryCount, UsedBefore
<1>4. CASE gpt.drive = NoDisk
  BY <1>1, <1>4 DEF Complete
<1>5. CASE gpt.drive # NoDisk
  BY <1>1, <1>2, <1>3, <1>5 DEF Complete
<1> QED BY <1>1, <1>4, <1>5

LEMMA DriverKeepsGpt ==
  ASSUME DiskInv, DriverStep, gpt' = gpt
  PROVE  GptInv'
<1>1. GptInv /\ computer' = computer
  BY DEF DiskInv, DriverStep
<1>2. gpt.step # "off" => ide.step = "ready" /\ ide' = ide /\ drives' = drives
  BY <1>1 DEF GptInv, DriverStep
<1>3. EntryCount' = EntryCount /\ TargetLba(gpt.i)' = TargetLba(gpt.i)
  BY <1>1 DEF EntryCount, Header, TargetLba
<1>4. /\ gpt.step = "off" => reader'.step = "none" /\ gpt.drive = NoDisk
      /\ gpt.step = "entries" => reader'.step = "none"
      /\ gpt.step \in {"header", "load"} =>
           /\ reader'.step # "none" /\ reader'.n = gpt.drive /\ reader'.sectors = 1
           /\ reader'.lba = IF gpt.step = "header" THEN 1 ELSE gpt.lba
  BY <1>1 DEF GptInv, DriverStep
<1>5. gpt.step # "done" => unread' = {}
  <2>1. gpt.step \in {"off", "entries"} => reader.step = "none"
    BY <1>1 DEF GptInv
  <2>2. gpt.step \in {"header", "load"} => reader.sectors # 0
    BY <1>1 DEF GptInv
  <2>3. gpt.step # "done" => unread = {} /\ gpt.step \in {"off", "entries", "header", "load"}
    BY <1>1 DEF GptInv
  <2> QED BY <2>1, <2>2, <2>3 DEF DriverStep
<1>6. /\ gpt \in [drive : DriveNumbers \cup {NoDisk}, i : Nat, lba : Nat, loaded : Nat,
                  step : {"off", "header", "entries", "load", "done"}]
      /\ gpt.i <= EntryCount
      /\ gpt.drive # NoDisk => drives'[gpt.drive].present
  BY <1>1, <1>2 DEF GptInv
<1> QED BY <1>1, <1>2, <1>3, <1>4, <1>5, <1>6 DEF GptInv

LEMMA DriverKeepsTable ==
  ASSUME DiskInv, DriverStep, gpt' = gpt, UNCHANGED tableVars
  PROVE  TableInv'
<1>1. /\ GptInv /\ TableInv /\ computer' = computer /\ partitions' = partitions
      /\ partition_count' = partition_count /\ memory' = memory /\ leaked' = leaked
  BY DEF DiskInv, DriverStep, tableVars
<1>2. gpt.step # "off" => ide.step = "ready" /\ ide' = ide /\ drives' = drives
  BY <1>1 DEF GptInv, DriverStep
<1>3. gpt.drive # NoDisk => ide'.at = ide.at
  BY <1>1, <1>2 DEF GptInv
<1>4. /\ Header' = Header /\ EntryCount' = EntryCount /\ (Complete' <=> Complete)
      /\ \A i \in Nat : UsedBefore(i)' = UsedBefore(i)
  BY <1>1, <1>3, SameTable
<1>5. gpt.i \in Nat /\ EntryCount \in Nat
  BY TableTyped DEF DiskInv, IdeInv, GptInv
<1>6. \A i \in 1..gpt.i : i \in Nat
  BY <1>5
<1>7. \A p \in 1..Len(partitions) : drives'[partitions[p].drive].present
  BY <1>1, <1>2 DEF TableInv
<1>8. InTable' = InTable
  BY DEF InTable
<1> QED BY <1>1, <1>4, <1>5, <1>6, <1>7, <1>8 DEF TableInv

LEMMA DriverKeepsRequest ==
  ASSUME DiskInv, DriverStep, gpt' = gpt, UNCHANGED tableVars, UNCHANGED requestVars
  PROVE  RequestInv'
<1>1. /\ GptInv /\ RequestInv /\ computer' = computer /\ partitions' = partitions
      /\ request' = request /\ answer' = answer /\ requests' = requests
  BY DEF DiskInv, DriverStep, tableVars, requestVars
<1>2. gpt.step # "off" => ide.step = "ready" /\ ide' = ide /\ drives' = drives
  BY <1>1 DEF GptInv, DriverStep
<1>3. reader'.step # "none" => /\ reader.step # "none" /\ reader'.n = reader.n
                               /\ reader'.lba = reader.lba /\ reader'.sectors = reader.sectors
  BY DEF DriverStep
<1>4. SectorsAsAsked'
  <2>1. SUFFICES ASSUME requests > 0, reader'.step = "none" PROVE SectorsAsAsked'
    BY <1>1 DEF SectorsAsAsked
  <2>2. reader.step = "none" /\ ide' = ide /\ unread' = unread
    BY <1>1, <1>2, <2>1 DEF RequestInv, DriverStep
  <2> QED BY <1>1, <2>1, <2>2 DEF RequestInv, SectorsAsAsked
<1> QED BY <1>1, <1>3, <1>4 DEF RequestInv

LEMMA DriverKeeps ==
  ASSUME DiskInv, Ide \/ \E n \in DriveNumbers : DriveAnswers(n),
         gpt' = gpt, UNCHANGED tableVars, UNCHANGED requestVars
  PROVE  DiskInv'
<1>1. IdeInv /\ DriverStep
  BY DriverSteps DEF DiskInv
<1>2. IdeInv'
  BY <1>1, IdeKeeps, AnswerKeeps
<1> QED BY <1>1, <1>2, DriverKeepsGpt, DriverKeepsTable, DriverKeepsRequest DEF DiskInv

-----------------------------------------------------------------------------
(* Reading the table.                                                      *)

Gpts == [drive : DriveNumbers \cup {NoDisk}, i : Nat, lba : Nat, loaded : Nat,
         step : {"off", "header", "entries", "load", "done"}]

\* What TableInv says of entry j.
Placed(j) ==
  Header.entries[j].used /\ UsedBefore(j) <= Len(partitions) =>
    /\ partitions[UsedBefore(j)].start = Header.entries[j].start
    /\ partitions[UsedBefore(j)].start + partitions[UsedBefore(j)].size <= Header.entries[j].end

LEMMA DisksBegin == DiskInit => DiskInv
<1> SUFFICES ASSUME DiskInit PROVE DiskInv
  OBVIOUS
<1>1. IdeInv /\ gpt = Gpt0 /\ partitions = <<>> /\ partition_count = 0
      /\ memory = computer.memory /\ leaked = 0 /\ requests = 0
  BY DrivesBegin DEF DiskInit
<1>2. /\ gpt \in Gpts /\ gpt.step = "off" /\ gpt.drive = NoDisk /\ gpt.i = 0 /\ gpt.lba = 0
  <2>1. Gpt0 \in Gpts
    BY DEF Gpt0, Gpts
  <2> QED BY <1>1, <2>1 DEF Gpt0
<1>3. reader.step = "none" /\ unread = {}
  BY DEF DiskInit, IdeInit, NoReader
<1>4. computer.memory \in Nat /\ EntryCount \in Nat
  BY <1>1, TableTyped DEF IdeInv
<1>5. GptInv
  BY <1>2, <1>3, <1>4 DEF GptInv, Gpts
<1>6. Len(partitions) = 0 /\ partitions \in Seq(PartitionRecords)
  BY <1>1
<1>7. UsedBefore(0) = 0
  BY UsedCounts
<1>8. ~InTable
  BY <1>2 DEF InTable
<1>9. TableInv
  BY <1>1, <1>2, <1>4, <1>6, <1>7, <1>8 DEF TableInv
<1>10. RequestInv
  BY <1>1, <1>2 DEF RequestInv, SectorsAsAsked
<1> QED BY <1>1, <1>5, <1>9, <1>10 DEF DiskInv

\* Before the first request there is nothing to say of requests.
LEMMA NothingAsked ==
  ASSUME DiskInv, gpt.step # "done", UNCHANGED requestVars,
         gpt'.step # "done" \/ reader'.step = "none"
  PROVE  RequestInv'
<1>1. requests \in Nat /\ requests' = requests /\ ~ (requests > 0)
  BY DEF DiskInv, RequestInv, requestVars
<1> QED BY <1>1 DEF RequestInv, SectorsAsAsked

\* What the callers of the driver leave alone.
LEMMA StillSame ==
  ASSUME DiskInv, UNCHANGED ideStill, gpt'.drive = gpt.drive
  PROVE  /\ computer' = computer /\ drives' = drives /\ ide' = ide /\ unread' = unread
         /\ Header' = Header /\ EntryCount' = EntryCount /\ (Complete' <=> Complete)
         /\ \A i \in Nat : UsedBefore(i)' = UsedBefore(i) /\ TargetLba(i)' = TargetLba(i)
         /\ gpt \in Gpts /\ EntryCount \in Nat /\ gpt.i \in Nat /\ gpt.i <= EntryCount
<1>1. computer' = computer /\ drives' = drives /\ ide' = ide /\ unread' = unread
  BY DEF ideStill
<1>2. gpt \in Gpts /\ EntryCount \in Nat /\ gpt.i \in Nat /\ gpt.i <= EntryCount
  BY TableTyped DEF DiskInv, IdeInv, GptInv, Gpts
<1> QED BY <1>1, <1>2, SameTable

\* Steps that neither take an entry nor end.
LEMMA TableStays ==
  ASSUME DiskInv, UNCHANGED ideStill, gpt'.drive = gpt.drive, gpt'.i = gpt.i,
         gpt.step \in {"header", "entries", "load"},
         gpt'.step \in {"header", "entries", "load"}, UNCHANGED tableVars
  PROVE  TableInv'
<1>1. /\ TableInv /\ partitions' = partitions
      /\ partition_count' = partition_count /\ memory' = memory /\ leaked' = leaked
  BY DEF DiskInv, tableVars
<1>2. \A i \in 1..gpt.i : i \in Nat
  BY StillSame
<1>3. InTable /\ InTable'
  BY DEF InTable
<1> QED BY <1>1, <1>2, <1>3, StillSame DEF TableInv

\* read_gpt ends: with all entries taken, or because the table is not complete.
LEMMA EndsKeep ==
  ASSUME DiskInv, UNCHANGED ideStill, gpt.step \in {"header", "entries", "load"}, Ends,
         reader' = reader \/ (reader' = NoReader /\ reader.step # "poll"),
         reader'.step = "none", UNCHANGED <<partitions, partition_count, leaked, requestVars>>,
         Complete => gpt.i = EntryCount
  PROVE  DiskInv'
<1>1. /\ GptInv /\ TableInv /\ IdeInv
      /\ gpt' = [gpt EXCEPT !.step = "done"] /\ memory' = memory + 1
      /\ partitions' = partitions /\ partition_count' = partition_count /\ leaked' = leaked
  BY DEF DiskInv, Ends
<1>2. gpt \in Gpts
  BY <1>1 DEF GptInv, Gpts
<1>3. /\ gpt' \in Gpts /\ gpt'.drive = gpt.drive /\ gpt'.i = gpt.i /\ gpt'.step = "done"
  BY <1>1, <1>2 DEF Gpts
<1>4. IdeInv'
  BY <1>1, CallerKeeps
<1>5. GptInv'
  BY <1>1, <1>3, StillSame DEF GptInv, Gpts
<1>6. InTable /\ ~InTable'
  BY <1>3 DEF InTable
<1>7. \A i \in 1..gpt.i : i \in Nat
  BY <1>2 DEF Gpts
<1>8. Complete => Len(partitions) = UsedBefore(EntryCount)
  BY <1>1, <1>6 DEF TableInv
<1>9. UsedBefore(EntryCount)' = UsedBefore(EntryCount)
  BY <1>3, StillSame
<1>10. memory \in Nat /\ leaked \in Nat /\ Len(partitions) \in Nat /\ computer.memory \in Nat
  BY <1>1, TableTyped DEF TableInv, IdeInv
<1>11. memory' + 0 + 3 * Len(partitions) + leaked = computer.memory /\ memory' \in Nat
  BY <1>1, <1>6, <1>10 DEF TableInv
<1>12. TableInv'
  <2>1. /\ computer' = computer /\ drives' = drives /\ Header' = Header
        /\ (Complete' <=> Complete)
        /\ \A i \in Nat : UsedBefore(i)' = UsedBefore(i)
    BY <1>3, StillSame
  <2>2. gpt.i \in Nat /\ UsedBefore(gpt.i)' = UsedBefore(gpt.i)
    BY <1>2, <1>3, <2>1 DEF Gpts
  <2>3. /\ partitions \in Seq(PartitionRecords) /\ leaked \in Nat /\ partition_count \in Nat
        /\ Len(partitions) <= UsedBefore(gpt.i)
        /\ leaked = 0 => partition_count = Len(partitions)
        /\ \A p \in 1..Len(partitions) : drives[partitions[p].drive].present
        /\ \A i \in 1..gpt.i : Placed(i)
    BY <1>1 DEF TableInv, Placed
  <2>4. \A i \in 1..gpt'.i : Placed(i)'
    BY <1>1, <1>3, <1>7, <2>1, <2>3 DEF Placed
  <2>5. Complete' => Len(partitions)' = UsedBefore(EntryCount)'
    BY <1>1, <1>8, <1>9, <2>1
  <2>6. memory' + (IF InTable' THEN 1 ELSE 0) + 3 * Len(partitions)' + leaked' = computer'.memory
    BY <1>1, <1>6, <1>11, <2>1
  <2> QED BY <1>1, <1>3, <1>6, <1>11, <2>1, <2>2, <2>3, <2>4, <2>5, <2>6 DEF TableInv, Placed
<1>13. gpt.step # "done"
  OBVIOUS
<1>14. RequestInv'
  BY <1>13, NothingAsked
<1> QED BY <1>4, <1>5, <1>12, <1>14 DEF DiskInv

\* There is a least one of some drives.
LEMMA LeastDrive ==
  ASSUME NEW S \in SUBSET DriveNumbers, S # {}
  PROVE  \E n \in S : \A m \in S : n <= m
<1>1. S \subseteq 0..3
  BY DEF DriveNumbers
<1>2. CASE 0 \in S
  BY <1>1, <1>2
<1>3. CASE 0 \notin S /\ 1 \in S
  BY <1>1, <1>3
<1>4. CASE 0 \notin S /\ 1 \notin S /\ 2 \in S
  BY <1>1, <1>4
<1>5. CASE 0 \notin S /\ 1 \notin S /\ 2 \notin S
  <2>1. \A n \in S : n = 3
    BY <1>1, <1>5
  <2> QED BY <2>1
<1> QED BY <1>2, <1>3, <1>4, <1>5

LEMMA CallIs ==
  ASSUME NEW n, NEW lba \in Nat, lba < Width(4)
  PROVE  /\ Call(n, 1, lba).n = n /\ Call(n, 1, lba).sectors = 1
         /\ Call(n, 1, lba).lba = lba /\ Call(n, 1, lba).step = "call"
<1>1. PICK w \in Nat, b \in Nat : w = Width(4) /\ b = Width(1) /\ b > 1 /\ w > 1
  BY Spans
<1>2. lba % w = lba /\ 1 % b = 1
  BY <1>1
<1> QED BY <1>1, <1>2 DEF Call

LEMMA DiskInitializeKeeps == DiskInv /\ disk_initialize => DiskInv'
<1> SUFFICES ASSUME DiskInv, disk_initialize PROVE DiskInv'
  OBVIOUS
<1>1. /\ ide.step = "ready" /\ gpt.step = "off" /\ UNCHANGED ideStill
      /\ partitions' = partitions /\ partition_count' = partition_count /\ leaked' = leaked
      /\ UNCHANGED requestVars
  BY DEF disk_initialize, ideStill
<1>2. GptInv /\ TableInv /\ IdeInv
  BY DEF DiskInv
<1>3. /\ gpt \in Gpts /\ gpt.drive = NoDisk /\ gpt.i = 0 /\ gpt.lba = 0
      /\ reader.step = "none"
  BY <1>1, <1>2 DEF GptInv, Gpts
<1>4. /\ partitions = <<>> /\ leaked = 0 /\ Len(partitions) = 0 /\ memory \in Nat
      /\ partition_count = 0 /\ computer.memory \in Nat
      /\ partitions \in Seq(PartitionRecords)
  BY <1>1, <1>2, TableTyped DEF TableInv, IdeInv
<1>5. memory = computer.memory
  <2>1. ~InTable
    BY <1>1 DEF InTable
  <2> QED BY <1>2, <1>4, <2>1 DEF TableInv
<1>6. computer' = computer /\ drives' = drives /\ ide' = ide /\ unread' = unread
  BY <1>1 DEF ideStill
<1>7. /\ EntryCount' = EntryCount /\ UsedBefore(0)' = 0 /\ EntryCount \in Nat
  <2>1. UsedBefore(0)' = UsedBefore(0)
    BY <1>6 DEF UsedBefore, Header
  <2> QED BY <1>2, <1>6, <2>1, UsedCounts, TableTyped DEF EntryCount, Header, IdeInv
<1>8. PICK there : there = UNION {ide_get_drive(n) : n \in DriveNumbers}
  OBVIOUS
<1>9. there \in SUBSET DriveNumbers /\ \A n \in there : drives[n].present
  BY <1>8 DEF ide_get_drive
<1>10. CASE there = {} \/ memory = 0
  <2>1. gpt' = [gpt EXCEPT !.step = "done"] /\ memory' = memory /\ reader' = reader
    BY <1>8, <1>10 DEF disk_initialize
  <2>2. /\ gpt' \in Gpts /\ gpt'.drive = NoDisk /\ gpt'.i = 0 /\ gpt'.step = "done"
    BY <1>3, <2>1 DEF Gpts
  <2>3. IdeInv'
    BY <1>1, <1>2, <2>1, CallerKeeps
  <2>4. GptInv'
    BY <1>1, <1>3, <1>6, <1>7, <2>1, <2>2 DEF GptInv, Gpts
  <2>5. ~InTable' /\ ~Complete'
    BY <2>2 DEF InTable, Complete
  <2>6. TableInv'
    BY <1>1, <1>4, <1>5, <1>6, <1>7, <2>1, <2>2, <2>5 DEF TableInv
  <2>7. RequestInv'
    BY <1>1, <1>3, <2>1, NothingAsked
  <2> QED BY <2>3, <2>4, <2>6, <2>7 DEF DiskInv
<1>11. CASE there # {} /\ memory # 0
  <2>1. PICK drive \in there : drive = CHOOSE n \in there : \A m \in there : n <= m
    BY <1>9, <1>11, LeastDrive
  <2>2. drive \in DriveNumbers /\ drives[drive].present
    BY <1>9
  <2>3. /\ gpt' = [gpt EXCEPT !.drive = drive, !.step = "header"]
        /\ memory' = memory - 1 /\ reader' = Call(drive, 1, 1)
    BY <1>8, <1>11, <2>1 DEF disk_initialize
  <2>4. PICK mid : mid = [gpt EXCEPT !.drive = drive]
    OBVIOUS
  <2>5. mid \in Gpts /\ mid.drive = drive /\ mid.i = 0 /\ mid.lba = 0
    BY <1>3, <2>2, <2>4 DEF Gpts
  <2>6. gpt' = [mid EXCEPT !.step = "header"]
    BY <1>3, <2>3, <2>4 DEF Gpts
  <2>7. /\ gpt' \in Gpts /\ gpt'.drive = drive /\ gpt'.i = 0 /\ gpt'.lba = 0
        /\ gpt'.step = "header"
    BY <2>5, <2>6 DEF Gpts
  <2>8. IdeInv'
    <3>1. 1 \in Nat
      OBVIOUS
    <3> QED BY <1>1, <1>2, <1>3, <2>2, <2>3, <3>1, CallerKeeps
  <2>9. /\ reader'.n = drive /\ reader'.sectors = 1 /\ reader'.lba = 1
        /\ reader'.step = "call"
    <3>1. 1 \in Nat /\ 1 < Width(4)
      BY Spans
    <3> QED BY <2>3, <3>1, CallIs
  <2>10. drive # NoDisk
    BY <2>2 DEF DriveNumbers, NoDisk
  <2>11. GptInv'
    <3>1. unread = {}
      BY <1>1, <1>2 DEF GptInv
    <3> QED BY <1>1, <1>6, <1>7, <2>2, <2>7, <2>9, <2>10, <3>1 DEF GptInv, Gpts
  <2>12. InTable' /\ gpt'.step # "done" /\ gpt'.step # "off"
    BY <2>7 DEF InTable
  <2>13. memory' \in Nat /\ memory' + 1 + 3 * 0 + 0 = computer.memory
    BY <1>4, <1>5, <1>11, <2>3
  <2>14. TableInv'
    BY <1>1, <1>4, <1>6, <1>7, <2>7, <2>12, <2>13 DEF TableInv
  <2>15. RequestInv'
    BY <1>1, <2>12, NothingAsked
  <2> QED BY <2>8, <2>11, <2>14, <2>15 DEF DiskInv
<1> QED BY <1>10, <1>11

\* The answer to a call for one sector that can be read is that sector.
LEMMA OneRead ==
  ASSUME DiskInv, gpt.step \in {"header", "load"}, reader.step = "done"
  PROVE  /\ gpt.drive # NoDisk
         /\ reader.lba = IF gpt.step = "header" THEN 1 ELSE TargetLba(gpt.i)
         /\ Complete => Result # 0
         /\ Result # 0 => reader.buffer[1][2] = reader.lba
<1>1. GptInv /\ IdeInv /\ ReaderInv
  BY DEF DiskInv, IdeInv
<1>2. /\ gpt.drive # NoDisk /\ reader.n = gpt.drive /\ reader.sectors = 1
      /\ reader.lba = IF gpt.step = "header" THEN 1 ELSE TargetLba(gpt.i)
      /\ gpt \in Gpts /\ gpt.i <= EntryCount
      /\ gpt.step = "load" => gpt.i < EntryCount
  BY <1>1 DEF GptInv, Gpts
<1>3. PICK n \in DriveNumbers, d \in Drives : n = reader.n /\ d = There(n) /\ Found(n)
                                              /\ drives[n].present
  BY <1>1, CallHasDrive
<1>4. d = computer.drives[ide.at][n]
  BY <1>1, <1>3, FoundIsThere
<1>5. PICK lba \in Nat, b \in Seq(DriveNumbers \X Nat), L \in Nat :
        lba = reader.lba /\ b = reader.buffer /\ L = Len(b)
  <2>1. reader.lba \in Nat /\ reader.buffer \in Seq(DriveNumbers \X Nat)
    BY <1>1 DEF IdeInv, IdeTyped, Readers
  <2>2. Len(reader.buffer) \in Nat
    BY <2>1
  <2> QED BY <2>1, <2>2
<1>6. /\ b = [k \in 1..L |-> <<n, lba + k - 1>>] /\ L <= 1
      /\ (\A k \in 0..1 - 1 : Readable(d, lba + k)) => L = 1
  <2>1. ChannelOf(reader.n) \notin unread
    BY <1>1 DEF GptInv
  <2> QED BY <1>1, <1>2, <1>3, <1>5, <2>1 DEF ReaderInv
<1>7. Readable(d, lba) => L = 1
  <2>1. \A k \in 0..1 - 1 : lba + k = lba
    BY <1>5
  <2> QED BY <1>6, <2>1
<1>8. lba \in TableSectors
  <2>1. CASE gpt.step = "header"
    BY <1>2, <1>5, <2>1 DEF TableSectors
  <2>2. CASE gpt.step = "load"
    <3>1. gpt.i \in 0..EntryCount - 1
      BY <1>1, <1>2, <2>2, TableTyped DEF Gpts, IdeInv
    <3> QED BY <1>2, <1>5, <2>2, <3>1 DEF TableSectors
  <2> QED BY <2>1, <2>2
<1>9. Complete => L = 1
  BY <1>2, <1>3, <1>4, <1>7, <1>8 DEF Complete
<1>10. L # 0 => b[1][2] = lba
  <2>1. L # 0 => b[1] = <<n, lba + 1 - 1>> /\ lba + 1 - 1 = lba
    BY <1>5, <1>6
  <2> QED BY <2>1
<1>11. Result = L
  BY <1>5 DEF Result
<1>12. Complete => Result # 0
  BY <1>9, <1>11
<1>13. Result # 0 => reader.buffer[1][2] = reader.lba
  BY <1>5, <1>10, <1>11
<1> QED BY <1>2, <1>12, <1>13

LEMMA ReadHeaderKeeps == DiskInv /\ ReadHeader => DiskInv'
<1> SUFFICES ASSUME DiskInv, ReadHeader PROVE DiskInv'
  OBVIOUS
<1>1. /\ gpt.step = "header" /\ reader.step = "done" /\ reader' = NoReader /\ UNCHANGED ideStill
      /\ UNCHANGED <<partitions, partition_count, leaked, requestVars>>
  BY DEF ReadHeader, Return
<1>2. reader'.step = "none"
  BY <1>1 DEF NoReader
<1>3. CASE Result = 0 \/ ~Header.valid
  <2>1. Ends /\ ~Complete
    BY <1>1, <1>3, OneRead DEF ReadHeader, Complete
  <2> QED BY <1>1, <1>2, <2>1, EndsKeep
<1>4. CASE ~ (Result = 0 \/ ~Header.valid)
  <2>1. gpt' = [gpt EXCEPT !.step = "entries"] /\ UNCHANGED tableVars
    BY <1>1, <1>4 DEF ReadHeader, tableVars
  <2>2. gpt \in Gpts
    BY DEF DiskInv, GptInv, Gpts
  <2>3. /\ gpt' \in Gpts /\ gpt'.drive = gpt.drive /\ gpt'.i = gpt.i /\ gpt'.lba = gpt.lba
        /\ gpt'.step = "entries"
    BY <2>1, <2>2 DEF Gpts
  <2>4. IdeInv'
    BY <1>1, CallerKeeps DEF DiskInv
  <2>5. GptInv'
    BY <1>1, <1>2, <2>3, StillSame DEF DiskInv, GptInv, Gpts
  <2>6. TableInv'
    BY <1>1, <2>1, <2>3, TableStays
  <2>7. RequestInv'
    BY <1>1, <1>2, NothingAsked
  <2> QED BY <2>4, <2>5, <2>6, <2>7 DEF DiskInv
<1> QED BY <1>3, <1>4

LEMMA LoadEntriesKeeps == DiskInv /\ LoadEntries => DiskInv'
<1> SUFFICES ASSUME DiskInv, LoadEntries PROVE DiskInv'
  OBVIOUS
<1>1. /\ gpt.step = "entries" /\ gpt.i < EntryCount /\ UNCHANGED ideStill
      /\ gpt' = [gpt EXCEPT !.lba = TargetLba(gpt.i), !.step = "load"]
      /\ reader' = Call(gpt.drive, 1, TargetLba(gpt.i))
      /\ UNCHANGED tableVars /\ UNCHANGED requestVars
  BY DEF LoadEntries
<1>2. gpt \in Gpts /\ GptInv /\ IdeInv
  BY DEF DiskInv, GptInv, Gpts
<1>3. gpt.drive \in DriveNumbers /\ drives[gpt.drive].present /\ gpt.drive # NoDisk
      /\ ide.step = "ready" /\ reader.step = "none"
  BY <1>1, <1>2 DEF GptInv, Gpts
<1>4. PICK lba \in Nat : lba = TargetLba(gpt.i) /\ lba < Width(4)
  <2>1. gpt.i \in Nat /\ gpt.i <= EntryCount /\ IdeTyped
    BY <1>2 DEF GptInv, Gpts, IdeInv
  <2>2. TargetLba(gpt.i) \in Nat /\ TargetLba(gpt.i) < Width(4)
    BY <2>1, TargetTyped
  <2> QED BY <2>2
<1>5. /\ gpt' \in Gpts /\ gpt'.drive = gpt.drive /\ gpt'.i = gpt.i /\ gpt'.lba = lba
      /\ gpt'.step = "load"
  <2>1. gpt' = [gpt EXCEPT !.lba = lba, !.step = "load"]
    BY <1>1, <1>4
  <2> QED BY <1>2, <2>1 DEF Gpts
<1>6. IdeInv'
  <2>1. 1 \in Nat
    OBVIOUS
  <2> QED BY <1>1, <1>2, <1>3, <1>4, <2>1, CallerKeeps
<1>7. /\ reader'.n = gpt.drive /\ reader'.sectors = 1 /\ reader'.lba = lba
      /\ reader'.step = "call"
  BY <1>1, <1>4, CallIs
<1>8. TargetLba(gpt.i)' = lba
  <2>1. TargetLba(gpt.i)' = TargetLba(gpt.i)
    BY <1>1, <1>5 DEF TargetLba, Header, ideStill
  <2> QED BY <1>4, <2>1
<1>9. GptInv'
  BY <1>1, <1>2, <1>3, <1>5, <1>7, <1>8, StillSame DEF GptInv, Gpts
<1>10. TableInv'
  BY <1>1, <1>5, TableStays
<1>11. RequestInv'
  BY <1>1, <1>5, NothingAsked
<1> QED BY <1>6, <1>9, <1>10, <1>11 DEF DiskInv

LEMMA EntriesLoadedKeeps == DiskInv /\ EntriesLoaded => DiskInv'
<1> SUFFICES ASSUME DiskInv, EntriesLoaded PROVE DiskInv'
  OBVIOUS
<1>1. /\ gpt.step = "load" /\ reader.step = "done" /\ reader' = NoReader /\ UNCHANGED ideStill
      /\ UNCHANGED <<partitions, partition_count, leaked, requestVars>>
  BY DEF EntriesLoaded, Return
<1>2. reader'.step = "none"
  BY <1>1 DEF NoReader
<1>3. CASE Result = 0
  <2>1. Ends /\ ~Complete
    BY <1>1, <1>3, OneRead DEF EntriesLoaded
  <2> QED BY <1>1, <1>2, <2>1, EndsKeep
<1>4. CASE Result # 0
  <2>1. gpt \in Gpts /\ gpt.lba = TargetLba(gpt.i)
    BY <1>1 DEF DiskInv, GptInv, Gpts
  <2>2. reader.buffer[1][2] = gpt.lba
    BY <1>1, <1>4, <2>1, OneRead
  <2>3. gpt' = [gpt EXCEPT !.loaded = gpt.lba, !.step = "entries"] /\ UNCHANGED tableVars
    BY <1>1, <1>4, <2>2 DEF EntriesLoaded, tableVars
  <2>4. /\ gpt' \in Gpts /\ gpt'.drive = gpt.drive /\ gpt'.i = gpt.i /\ gpt'.lba = gpt.lba
        /\ gpt'.loaded = gpt.lba /\ gpt'.step = "entries"
    BY <2>1, <2>3 DEF Gpts
  <2>5. IdeInv'
    BY <1>1, CallerKeeps DEF DiskInv
  <2>6. GptInv'
    BY <1>1, <1>2, <2>4, StillSame DEF DiskInv, GptInv, Gpts
  <2>7. TableInv'
    BY <1>1, <2>3, <2>4, TableStays
  <2>8. RequestInv'
    BY <1>1, <1>2, NothingAsked
  <2> QED BY <2>5, <2>6, <2>7, <2>8 DEF DiskInv
<1> QED BY <1>3, <1>4

LEMMA LastEntryKeeps == DiskInv /\ LastEntry => DiskInv'
<1> SUFFICES ASSUME DiskInv, LastEntry PROVE DiskInv'
  OBVIOUS
<1>1. /\ gpt.step = "entries" /\ gpt.i = EntryCount /\ Ends /\ UNCHANGED ideStill
      /\ reader' = reader
      /\ UNCHANGED <<partitions, partition_count, leaked, requestVars>>
  BY DEF LastEntry, ideVars, ideStill
<1>2. reader'.step = "none"
  BY <1>1 DEF DiskInv, GptInv
<1> QED BY <1>1, <1>2, EndsKeep

\* The entry that is taken.
LEMMA EntryTaken ==
  ASSUME DiskInv, ReadEntry
  PROVE  /\ gpt.i \in Nat /\ gpt.i < EntryCount /\ gpt \in Gpts /\ gpt.drive \in DriveNumbers
         /\ gpt.lba # 0 /\ gpt.loaded = gpt.lba /\ drives[gpt.drive].present
         /\ EntryAt(gpt.loaded, Offset(gpt.i)) = Header.entries[gpt.i + 1]
         /\ Header.entries[gpt.i + 1] \in [used : BOOLEAN, start : Nat, end : Nat]
         /\ Header.entries[gpt.i + 1].start <= Header.entries[gpt.i + 1].end
<1>1. GptInv /\ IdeTyped /\ gpt.step = "entries" /\ gpt.i < EntryCount
      /\ gpt.lba = TargetLba(gpt.i)
  BY DEF DiskInv, IdeInv, ReadEntry
<1>2. gpt \in Gpts /\ gpt.i \in Nat
  BY <1>1 DEF GptInv, Gpts
<1>3. gpt.lba > 1
  BY <1>1, <1>2, TargetTyped, TableTyped
<1>4. gpt.lba # 0 /\ gpt.loaded = gpt.lba
  BY <1>1, <1>3 DEF GptInv
<1>5. gpt.drive \in DriveNumbers /\ drives[gpt.drive].present
  BY <1>1, <1>2 DEF GptInv, Gpts
<1>6. EntryAt(gpt.loaded, Offset(gpt.i)) = Header.entries[gpt.i + 1]
  BY <1>1, <1>2, <1>4, EntryIs
<1>7. gpt.i + 1 \in 1..EntryCount
  BY <1>1, <1>2, TableTyped
<1>8. Header.entries[gpt.i + 1] \in [used : BOOLEAN, start : Nat, end : Nat]
      /\ Header.entries[gpt.i + 1].start <= Header.entries[gpt.i + 1].end
  <2>1. Header.entries \in Seq([used : BOOLEAN, start : Nat, end : Nat])
    BY <1>1, TableTyped
  <2>2. gpt.i + 1 \in 1..Len(Header.entries)
    BY <1>7 DEF EntryCount
  <2>3. Header.entries[gpt.i + 1] \in [used : BOOLEAN, start : Nat, end : Nat]
    <3>1. \A R : \A s \in Seq(R) : \A k \in 1..Len(s) : s[k] \in R
      OBVIOUS
    <3> QED BY <2>1, <2>2, <3>1
  <2>4. Header.entries[gpt.i + 1].start <= Header.entries[gpt.i + 1].end
    BY <1>1, <1>7, TableTyped
  <2> QED BY <2>3, <2>4
<1> QED BY <1>1, <1>2, <1>4, <1>5, <1>6, <1>8

LEMMA ReadEntryKeeps == DiskInv /\ ReadEntry => DiskInv'
<1> SUFFICES ASSUME DiskInv, ReadEntry PROVE DiskInv'
  OBVIOUS
<1>1. /\ GptInv /\ TableInv /\ IdeInv /\ gpt.step = "entries"
      /\ UNCHANGED ideStill /\ reader' = reader /\ UNCHANGED requestVars
      /\ ide.step = "ready" /\ reader.step = "none" /\ gpt.drive # NoDisk
  BY DEF DiskInv, ReadEntry, ideVars, ideStill, GptInv
<1>2. PICK i \in Nat, t \in Nat, e \in [used : BOOLEAN, start : Nat, end : Nat] :
        /\ i = gpt.i /\ i < t /\ t = EntryCount
        /\ e = EntryAt(gpt.loaded, Offset(gpt.i)) /\ e = Header.entries[i + 1]
        /\ e.start <= e.end
  <2>1. EntryCount \in Nat
    BY <1>1, TableTyped DEF IdeInv
  <2> QED BY <2>1, EntryTaken
<1>3. /\ gpt \in Gpts /\ gpt.drive \in DriveNumbers /\ gpt.lba # 0 /\ gpt.loaded = gpt.lba
      /\ drives[gpt.drive].present
  BY EntryTaken
<1>4. PICK L \in Nat, m \in Nat, k \in Nat, M \in Nat, u \in Nat, c \in Nat :
        /\ L = Len(partitions) /\ m = memory /\ k = leaked /\ M = computer.memory
        /\ u = UsedBefore(i) /\ c = partition_count
  <2>1. /\ partitions \in Seq(PartitionRecords) /\ memory \in Nat /\ leaked \in Nat
        /\ partition_count \in Nat
    BY <1>1 DEF TableInv
  <2>2. Len(partitions) \in Nat /\ computer.memory \in Nat /\ UsedBefore(i) \in Nat
    <3>1. Len(partitions) \in Nat
      BY <2>1
    <3>2. UsedBefore(i) \in Nat
      BY <1>2, UsedCounts
    <3>3. computer.memory \in Nat
      BY <1>1, TableTyped DEF IdeInv
    <3> QED BY <3>1, <3>2, <3>3
  <2> QED BY <2>1, <2>2
<1>5. /\ partitions \in Seq(PartitionRecords)
      /\ m + 1 + 3 * L + k = M /\ L <= u /\ (k = 0 => L = u) /\ (k > 0 => m = 0)
      /\ (Complete => k = 0) /\ (k = 0 => c = L)
      /\ \A p \in 1..L : drives[partitions[p].drive].present
      /\ \A j \in 1..i : Placed(j)
  <2>1. InTable
    BY <1>1 DEF InTable
  <2> QED BY <1>1, <1>2, <1>4, <2>1 DEF TableInv, Placed
<1>6. i + 1 \in Nat /\ UsedBefore(i + 1) = IF e.used THEN u + 1 ELSE u
  <2>1. i + 1 \in Nat
    BY <1>2
  <2>2. UsedBefore(i + 1) = IF Header.entries[i + 1].used THEN UsedBefore(i) + 1
                           ELSE UsedBefore(i)
    BY <1>2, UsedCounts
  <2> QED BY <1>2, <1>4, <2>1, <2>2
<1>7. Complete /\ e.used => m >= 3
  <2>1. SUFFICES ASSUME Complete, e.used PROVE m >= 3
    OBVIOUS
  <2>2. PICK v \in Nat : v = UsedBefore(EntryCount)
    BY <1>2, UsedCounts
  <2>3. u + 1 <= v
    BY <1>2, <1>6, <2>1, <2>2, UsedGrows
  <2>4. M >= 1 + 3 * v
    BY <1>4, <2>1, <2>2 DEF Complete
  <2> QED BY <1>5, <2>1, <2>3, <2>4
<1>8. IdeInv'
  BY <1>1, CallerKeeps
<1>9. RequestInv'
  BY <1>1, NothingAsked
<1>10. /\ gpt' = [gpt EXCEPT !.i = i + 1] => /\ gpt' \in Gpts /\ gpt'.drive = gpt.drive
                                             /\ gpt'.i = i + 1 /\ gpt'.step = "entries"
                                             /\ gpt'.lba = gpt.lba /\ gpt'.loaded = gpt.loaded
       /\ gpt' = [gpt EXCEPT !.step = "done"] => /\ gpt' \in Gpts /\ gpt'.drive = gpt.drive
                                                 /\ gpt'.i = i /\ gpt'.step = "done"
  BY <1>1, <1>2, <1>3, <1>6 DEF Gpts
<1>11. i + 1 <= t
  BY <1>2
<1>12. ASSUME gpt' = [gpt EXCEPT !.i = i + 1]
       PROVE  /\ GptInv' /\ InTable' /\ (Complete' <=> Complete) /\ gpt'.i = i + 1
              /\ gpt'.step = "entries"
              /\ \A j \in Nat : UsedBefore(j)' = UsedBefore(j)
              /\ Header' = Header /\ computer' = computer /\ drives' = drives
  <2>1. /\ computer' = computer /\ drives' = drives /\ ide' = ide /\ Header' = Header
        /\ EntryCount' = EntryCount /\ (Complete' <=> Complete)
        /\ \A j \in Nat : UsedBefore(j)' = UsedBefore(j)
    BY <1>1, <1>10, <1>12, StillSame
  <2>2. GptInv'
    <3>1. unread' = {}
      BY <1>1 DEF GptInv, ideStill
    <3> QED BY <1>1, <1>2, <1>3, <1>10, <1>11, <1>12, <2>1, <3>1 DEF GptInv, Gpts
  <2>3. InTable'
    BY <1>10, <1>12 DEF InTable
  <2> QED BY <1>10, <1>12, <2>1, <2>2, <2>3
<1>13. CASE ~e.used
  <2>1. gpt' = [gpt EXCEPT !.i = i + 1] /\ UNCHANGED tableVars
    BY <1>2, <1>13 DEF ReadEntry
  <2>2. partitions' = partitions /\ memory' = memory /\ leaked' = leaked
        /\ partition_count' = partition_count
    BY <2>1 DEF tableVars
  <2>3. \A j \in 1..(i + 1) : Placed(j)
    <3>1. Placed(i + 1)
      BY <1>2, <1>13 DEF Placed
    <3>2. \A j \in 1..(i + 1) : j \in 1..i \/ j = i + 1
      BY <1>2
    <3> QED BY <1>5, <3>1, <3>2
  <2>4. \A j \in 1..(i + 1) : j \in Nat
    BY <1>2
  <2>5. TableInv'
    <3>1. \A j \in 1..gpt'.i : Placed(j)'
      BY <1>12, <2>1, <2>2, <2>3, <2>4 DEF Placed
    <3>2. /\ UsedBefore(gpt.i)' = u /\ InTable' /\ gpt'.step = "entries"
          /\ Len(partitions)' = L /\ (Complete' <=> Complete)
      BY <1>4, <1>6, <1>12, <1>13, <2>1, <2>2
    <3>3. memory' = m /\ leaked' = k /\ partition_count' = c /\ computer'.memory = M
      BY <1>4, <1>12, <2>1, <2>2
    <3>4. memory' + (IF InTable' THEN 1 ELSE 0) + 3 * Len(partitions)' + leaked' = computer'.memory
      BY <1>5, <3>2, <3>3
    <3>5. \A q \in 1..Len(partitions)' : drives'[partitions'[q].drive].present
      BY <1>5, <1>12, <2>1, <2>2, <3>2
    <3> QED BY <1>4, <1>5, <2>2, <3>1, <3>2, <3>3, <3>4, <3>5 DEF TableInv, Placed
  <2> QED BY <1>8, <1>9, <1>12, <2>1, <2>5 DEF DiskInv
<1>14. CASE e.used /\ m < 2
  <2>1. /\ gpt' = [gpt EXCEPT !.step = "done"] /\ memory' = 1 /\ leaked' = k + m
        /\ partitions' = partitions /\ partition_count' = partition_count
    <3>1. memory < 2 /\ ~ (memory >= 2)
      BY <1>4, <1>14
    <3>2. /\ gpt' = [gpt EXCEPT !.step = "done"] /\ memory' = 1 /\ leaked' = leaked + memory
          /\ partitions' = partitions /\ partition_count' = partition_count
      BY <1>2, <1>14, <3>1 DEF ReadEntry
    <3> QED BY <1>4, <3>2
  <2>2. /\ gpt' \in Gpts /\ gpt'.drive = gpt.drive /\ gpt'.i = i /\ gpt'.step = "done"
    BY <1>10, <2>1
  <2>3. /\ computer' = computer /\ drives' = drives /\ ide' = ide /\ Header' = Header
        /\ EntryCount' = EntryCount /\ (Complete' <=> Complete)
        /\ \A j \in Nat : UsedBefore(j)' = UsedBefore(j)
    BY <1>1, <2>2, StillSame
  <2>4. GptInv'
    BY <1>1, <1>2, <1>3, <2>2, <2>3 DEF GptInv, Gpts
  <2>5. ~InTable' /\ ~Complete'
    BY <1>7, <1>14, <2>2, <2>3 DEF InTable
  <2>6. \A j \in 1..i : j \in Nat
    BY <1>2
  <2>7. /\ 1 + 0 + 3 * L + (k + m) = M /\ k + m \in Nat /\ (k + m = 0 => k = 0)
        /\ 1 \in Nat
    BY <1>4, <1>5
  <2>8. TableInv'
    BY <1>4, <1>5, <2>1, <2>2, <2>3, <2>5, <2>6, <2>7 DEF TableInv, Placed
  <2>9. RequestInv'
    BY <1>1, NothingAsked
  <2> QED BY <1>8, <2>4, <2>8, <2>9 DEF DiskInv
<1>15. CASE e.used /\ m = 2
  <2>1. /\ gpt' = [gpt EXCEPT !.i = i + 1] /\ memory' = 0 /\ leaked' = k + 2
        /\ partitions' = partitions /\ partition_count' = c + 1
    BY <1>2, <1>4, <1>15 DEF ReadEntry
  <2>2. k = 0 /\ L = u /\ ~Complete
    BY <1>5, <1>7, <1>15
  <2>3. \A j \in 1..(i + 1) : Placed(j)
    <3>1. Placed(i + 1)
      <4>1. ~ (UsedBefore(i + 1) <= Len(partitions))
        BY <1>4, <1>6, <1>15, <2>2
      <4> QED BY <4>1 DEF Placed
    <3>2. \A j \in 1..(i + 1) : j \in 1..i \/ j = i + 1
      BY <1>2
    <3> QED BY <1>5, <3>1, <3>2
  <2>4. \A j \in 1..(i + 1) : j \in Nat
    BY <1>2
  <2>5. /\ 0 + 1 + 3 * L + (k + 2) = M /\ k + 2 \in Nat /\ k + 2 > 0 /\ c + 1 \in Nat
        /\ L <= UsedBefore(i + 1) /\ k + 2 # 0
    BY <1>5, <1>6, <1>15, <2>2
  <2>6. TableInv'
    BY <1>4, <1>5, <1>6, <1>12, <2>1, <2>2, <2>3, <2>4, <2>5 DEF TableInv, Placed
  <2> QED BY <1>8, <1>9, <1>12, <2>1, <2>6 DEF DiskInv
<1>16. CASE e.used /\ m > 2
  <2>1. PICK p : p = [start |-> e.start, size |-> e.end - e.start, drive |-> gpt.drive]
    OBVIOUS
  <2>2. /\ p \in PartitionRecords /\ p.start = e.start /\ p.start + p.size <= e.end
        /\ p.drive = gpt.drive
    <3>1. PICK size \in Nat : size = e.end - e.start /\ e.start + size <= e.end
      <4>1. e.start \in Nat /\ e.end \in Nat /\ e.start <= e.end
        BY <1>2
      <4> QED BY <4>1
    <3>2. p = [start |-> e.start, size |-> size, drive |-> gpt.drive]
      BY <2>1, <3>1
    <3> QED BY <1>2, <1>3, <3>1, <3>2 DEF PartitionRecords
  <2>3. /\ gpt' = [gpt EXCEPT !.i = i + 1] /\ memory' = m - 3 /\ leaked' = leaked
        /\ partitions' = Append(partitions, p) /\ partition_count' = c + 1
    <3>1. memory >= 2 /\ ~ (memory < 2) /\ memory # 2
      BY <1>4, <1>16
    <3>2. /\ gpt' = [gpt EXCEPT !.i = gpt.i + 1] /\ memory' = memory - 3 /\ leaked' = leaked
          /\ partitions' = Append(partitions, p) /\ partition_count' = partition_count + 1
      BY <1>2, <1>16, <2>1, <3>1 DEF ReadEntry
    <3> QED BY <1>2, <1>4, <3>2
  <2>4. k = 0 /\ L = u /\ c = L /\ UsedBefore(i + 1) = L + 1
    <3>1. k = 0
      BY <1>4, <1>5, <1>16
    <3> QED BY <1>5, <1>6, <1>16, <3>1
  <2>5. /\ partitions' \in Seq(PartitionRecords) /\ Len(partitions') = L + 1
        /\ partitions'[L + 1] = p /\ \A q \in 1..L : partitions'[q] = partitions[q]
    BY <1>4, <1>5, <2>2, <2>3
  <2>6. /\ computer' = computer /\ drives' = drives /\ Header' = Header
        /\ \A j \in Nat : UsedBefore(j)' = UsedBefore(j)
    BY <1>12, <2>3
  <2>7. \A j \in 1..(i + 1) : Placed(j)'
    <3>1. TAKE j \in 1..(i + 1)
    <3>2. j \in Nat /\ UsedBefore(j) \in Nat /\ UsedBefore(j)' = UsedBefore(j)
      BY <1>2, <2>6, UsedCounts
    <3>3. CASE j = i + 1
      BY <1>2, <2>2, <2>4, <2>5, <2>6, <3>2, <3>3 DEF Placed
    <3>4. CASE j \in 1..i
      <4>1. SUFFICES ASSUME Header.entries[j].used PROVE Placed(j)'
        BY <2>6 DEF Placed
      <4>2. UsedBefore(j) <= L
        BY <1>2, <1>4, <2>4, <3>2, <3>4, UsedGrows
      <4>3. UsedBefore(j) >= 1
        <5>1. 0 \in Nat /\ 0 < j
          BY <3>4
        <5>2. UsedBefore(0) < UsedBefore(j)
          BY <3>2, <4>1, <5>1, UsedLater
        <5> QED BY <3>2, <5>2, UsedCounts
      <4>4. partitions'[UsedBefore(j)] = partitions[UsedBefore(j)]
        BY <2>5, <3>2, <4>2, <4>3
      <4>5. Placed(j)
        BY <1>5, <3>4
      <4> QED BY <1>4, <2>6, <3>2, <4>1, <4>2, <4>4, <4>5 DEF Placed
    <3> QED BY <1>2, <3>3, <3>4
  <2>8. \A q \in 1..(L + 1) : drives[partitions'[q].drive].present
    <3>1. \A q \in 1..(L + 1) : q \in 1..L \/ q = L + 1
      OBVIOUS
    <3> QED BY <1>3, <1>5, <2>2, <2>5, <3>1
  <2>9. /\ m - 3 \in Nat /\ (m - 3) + 1 + 3 * (L + 1) + k = M /\ c + 1 \in Nat
        /\ c + 1 = L + 1
    <3>1. m - 3 \in Nat
      BY <1>4, <1>16
    <3>2. m + 1 + 3 * L + k = M
      BY <1>5
    <3>3. (m - 3) + 1 + 3 * (L + 1) + k = M
      BY <1>4, <1>16, <3>1, <3>2
    <3> QED BY <1>4, <2>4, <3>1, <3>3
  <2>10. TableInv'
    <3>1. \A j \in 1..gpt'.i : Placed(j)'
      BY <1>12, <2>3, <2>7
    <3>2. /\ UsedBefore(gpt.i)' = L + 1 /\ InTable' /\ gpt'.step = "entries"
          /\ Len(partitions)' = L + 1
      BY <1>6, <1>12, <2>3, <2>4, <2>5
    <3>3. memory' = m - 3 /\ leaked' = k /\ partition_count' = L + 1 /\ computer'.memory = M
      BY <1>4, <2>3, <2>6, <2>9
    <3>4. L + 1 \in Nat /\ L + 1 <= L + 1
      BY <1>4
    <3>5. memory' + (IF InTable' THEN 1 ELSE 0) + 3 * Len(partitions)' + leaked' = computer'.memory
      BY <2>9, <3>2, <3>3
    <3>6. memory' \in Nat /\ leaked' \in Nat /\ partition_count' \in Nat
      BY <1>4, <2>9, <3>3, <3>4
    <3>7. leaked' = 0 /\ ~ (leaked' > 0)
      BY <2>4, <3>3
    <3>8. \A q \in 1..Len(partitions)' : drives'[partitions'[q].drive].present
      BY <2>6, <2>8, <3>2
    <3>9. Len(partitions)' <= UsedBefore(gpt.i)' /\ Len(partitions)' = UsedBefore(gpt.i)'
          /\ partition_count' = Len(partitions)'
      BY <3>2, <3>3, <3>4
    <3> QED BY <2>5, <3>1, <3>2, <3>5, <3>6, <3>7, <3>8, <3>9 DEF TableInv, Placed
  <2> QED BY <1>8, <1>9, <1>12, <2>3, <2>10 DEF DiskInv
<1> QED BY <1>4, <1>13, <1>14, <1>15, <1>16

-----------------------------------------------------------------------------
(* Requests.                                                               *)

\* A call and its answer leave the table and what was read from it.
LEMMA TableKept ==
  ASSUME DiskInv, UNCHANGED ideStill, gpt' = gpt, gpt.step = "done", UNCHANGED tableVars
  PROVE  GptInv' /\ TableInv'
<1>1. /\ GptInv /\ TableInv /\ partitions' = partitions /\ gpt'.drive = gpt.drive
      /\ partition_count' = partition_count /\ memory' = memory /\ leaked' = leaked
  BY DEF DiskInv, tableVars
<1>2. GptInv'
  BY <1>1, StillSame DEF GptInv
<1>3. \A i \in 1..gpt.i : i \in Nat
  BY <1>1, StillSame
<1>4. ~InTable /\ ~InTable'
  BY DEF InTable
<1>5. UsedBefore(EntryCount)' = UsedBefore(EntryCount)
  BY <1>1, StillSame
<1>6. TableInv'
  BY <1>1, <1>3, <1>4, <1>5, StillSame DEF TableInv
<1> QED BY <1>2, <1>6

LEMMA PartitionTyped ==
  ASSUME DiskInv, NEW p \in 1..Len(partitions)
  PROVE  /\ partitions[p] \in PartitionRecords /\ partitions[p].drive \in DriveNumbers
         /\ partitions[p].start \in Nat /\ partitions[p].size \in Nat
         /\ drives[partitions[p].drive].present
<1>1. partitions \in Seq(PartitionRecords) /\ drives[partitions[p].drive].present
  BY DEF DiskInv, TableInv
<1>2. \A R : \A s \in Seq(R) : \A k \in 1..Len(s) : s[k] \in R
  OBVIOUS
<1>3. partitions[p] \in PartitionRecords
  BY <1>1, <1>2
<1> QED BY <1>1, <1>3 DEF PartitionRecords

LEMMA AskedKeeps == DiskInv /\ Asked => DiskInv'
<1> SUFFICES ASSUME DiskInv, Asked PROVE DiskInv'
  OBVIOUS
<1>1. PICK p \in DOMAIN partitions, r \in Requests : disk_read_sectors(p, r.sectors, r.lba)
  BY DEF Asked
<1>2. p \in 1..Len(partitions) /\ r.sectors \in Nat /\ r.lba \in Nat
  <2>1. partitions \in Seq(PartitionRecords)
    BY DEF DiskInv, TableInv
  <2>2. r \in [sectors : Nat, lba : Nat]
    BY DiskAssumption
  <2> QED BY <2>1, <2>2
<1>3. PICK n \in DriveNumbers, start \in Nat, size \in Nat, sectors \in Nat, lba \in Nat :
        /\ n = partitions[p].drive /\ start = partitions[p].start /\ size = partitions[p].size
        /\ drives[n].present /\ sectors = r.sectors /\ lba = r.lba
  BY <1>2, PartitionTyped
<1>4. /\ gpt.step = "done" /\ reader.step = "none" /\ gpt' = gpt
      /\ request' = [p |-> p, sectors |-> sectors, lba |-> lba]
      /\ answer' = NoAnswer /\ requests' = requests + 1
      /\ reader' = IF lba >= size THEN NoReader ELSE Call(n, sectors, lba + start)
      /\ UNCHANGED ideStill /\ UNCHANGED tableVars /\ partitions' = partitions
  BY <1>1, <1>3 DEF disk_read_sectors, tableVars
<1>5. ide.step = "ready" /\ requests \in Nat
  BY <1>4 DEF DiskInv, GptInv, RequestInv
<1>6. IdeInv'
  <2>1. lba + start \in Nat
    OBVIOUS
  <2> QED BY <1>3, <1>4, <1>5, <2>1, CallerKeeps DEF DiskInv
<1>7. GptInv' /\ TableInv'
  BY <1>4, TableKept
<1>8. /\ request' \in [p : 1..Len(partitions), sectors : Nat, lba : Nat]
      /\ request'.p = p /\ request'.sectors = sectors /\ request'.lba = lba
      /\ requests' \in Nat /\ requests' > 0
  BY <1>2, <1>3, <1>4, <1>5
<1>9. CASE lba >= size
  <2>1. reader'.step = "none"
    BY <1>4, <1>9 DEF NoReader
  <2>2. ~ (lba < size)
    BY <1>3, <1>9
  <2>3. answer'.sectors = 0 /\ answer'.buffer = <<>>
    BY <1>4 DEF NoAnswer
  <2>4. \A x, y : <<>> = [k \in 1..0 |-> <<x, y + k - 1>>]
    OBVIOUS
  <2>5. 0 <= sectors
    BY <1>3
  <2>6. partitions'[p].size = size /\ ~ (request'.lba < partitions'[p].size)
    BY <1>3, <1>4, <1>8, <2>2
  <2>7. SectorsAsAsked'
    BY <1>8, <2>3, <2>4, <2>5, <2>6 DEF SectorsAsAsked
  <2>8. RequestInv'
    BY <1>4, <1>8, <2>1, <2>7 DEF RequestInv
  <2> QED BY <1>6, <1>7, <2>8 DEF DiskInv
<1>10. CASE ~ (lba >= size)
  <2>1. /\ reader'.step = "call" /\ reader'.n = n /\ reader'.lba = (lba + start) % Width(4)
        /\ reader'.sectors = sectors % Width(1)
    BY <1>4, <1>10 DEF Call
  <2>2. lba < size
    BY <1>3, <1>10
  <2>3. SectorsAsAsked'
    BY <2>1 DEF SectorsAsAsked
  <2>4. RequestInv'
    BY <1>3, <1>4, <1>8, <2>1, <2>2, <2>3 DEF RequestInv
  <2> QED BY <1>6, <1>7, <2>4 DEF DiskInv
<1> QED BY <1>9, <1>10

LEMMA SectorsReadKeeps == DiskInv /\ SectorsRead => DiskInv'
<1> SUFFICES ASSUME DiskInv, SectorsRead PROVE DiskInv'
  OBVIOUS
<1>1. /\ gpt.step = "done" /\ reader.step = "done" /\ reader' = NoReader
      /\ answer' = [sectors |-> Result, buffer |-> reader.buffer]
      /\ UNCHANGED ideStill /\ gpt' = gpt /\ UNCHANGED tableVars
      /\ partitions' = partitions /\ request' = request /\ requests' = requests
      /\ computer' = computer /\ ide' = ide /\ unread' = unread
  BY DEF SectorsRead, Return, tableVars, ideStill
<1>2. IdeInv'
  BY <1>1, CallerKeeps DEF DiskInv
<1>3. GptInv' /\ TableInv'
  BY <1>1, TableKept
<1>4. /\ IdeInv /\ RequestInv /\ ReaderInv /\ requests > 0 /\ requests \in Nat
      /\ request \in [p : 1..Len(partitions), sectors : Nat, lba : Nat]
  BY <1>1 DEF DiskInv, IdeInv, RequestInv
<1>5. PICK p \in 1..Len(partitions), asked \in Nat, ask \in Nat :
        p = request.p /\ asked = request.sectors /\ ask = request.lba
  BY <1>4
<1>6. PICK n \in DriveNumbers, start \in Nat, size \in Nat :
        n = partitions[p].drive /\ start = partitions[p].start /\ size = partitions[p].size
  BY PartitionTyped
<1>7. PICK first \in Nat : first = start + ask
  OBVIOUS
<1>8. /\ reader.n = n /\ reader.lba = (ask + start) % Width(4)
      /\ reader.sectors = asked % Width(1) /\ ask < size
  BY <1>1, <1>4, <1>5, <1>6 DEF RequestInv
<1>9. PICK d \in Drives : d = There(n) /\ Found(n) /\ drives[n].present
  BY <1>1, <1>4, <1>8, CallHasDrive
<1>10. d = computer.drives[ide.at][n]
  BY <1>4, <1>9, FoundIsThere
<1>11. PICK b \in Seq(DriveNumbers \X Nat), L \in Nat : b = reader.buffer /\ L = Len(b)
  <2>1. reader.buffer \in Seq(DriveNumbers \X Nat)
    BY <1>4 DEF IdeInv, IdeTyped, Readers
  <2>2. Len(reader.buffer) \in Nat
    BY <2>1
  <2> QED BY <2>1, <2>2
<1>12. PICK w \in Nat, v \in Nat, s \in Nat :
         w = Width(1) /\ v = Width(4) /\ s = asked % w /\ w > 1 /\ v > 1 /\ s <= asked
  <2>1. Width(1) \in Nat /\ Width(1) > 1 /\ Width(4) \in Nat /\ Width(4) > 1
    BY Spans
  <2>2. PICK w \in Nat : w = Width(1) /\ w > 0
    BY <2>1
  <2>3. asked % w \in Nat /\ asked % w <= asked
    BY <1>5, <2>2, Narrowed
  <2> QED BY <2>1, <2>2, <2>3
<1>13. reader.sectors = s
  BY <1>8, <1>12
<1>14. answer'.sectors = L /\ answer'.buffer = b
  BY <1>1, <1>11 DEF Result
<1>15. L <= s /\ s <= asked
  BY <1>1, <1>4, <1>11, <1>12, <1>13 DEF ReaderInv
<1>16. ASSUME first < Width(4), ChannelOf(n) \notin unread \/ asked % w = 0
       PROVE  /\ b = [k \in 1..L |-> <<n, first + k - 1>>]
              /\ (asked < Width(1) /\ d.kind = "PATA" /\
                    \A a \in first..(first + asked - 1) : Readable(d, a)) => L = asked
  <2>1. reader.lba = first
    <3>1. ask + start = first
      BY <1>7
    <3>2. first % v = first
      <4>1. v > 0 /\ first < v
        BY <1>12, <1>16
      <4> QED BY <4>1, Narrowed
    <3> QED BY <1>8, <1>12, <3>1, <3>2
  <2>2. asked < Width(1) => s = asked
    <3>1. asked < w => asked % w = asked
      <4>1. asked \in Nat /\ w \in Nat /\ w > 0
        BY <1>12
      <4> QED BY <4>1, Narrowed
    <3> QED BY <1>12, <3>1
  <2>3. CASE ChannelOf(n) \notin unread
    <3>1. /\ b = [k \in 1..L |-> <<n, first + k - 1>>]
          /\ (\A k \in 0..s - 1 : Readable(d, first + k)) => L = s
      BY <1>1, <1>4, <1>8, <1>9, <1>11, <1>13, <2>1, <2>3 DEF ReaderInv
    <3>2. ASSUME asked < Width(1), \A a \in first..(first + asked - 1) : Readable(d, a)
          PROVE  L = asked
      <4>1. \A k \in 0..s - 1 : first + k \in first..(first + asked - 1)
        BY <2>2, <3>2
      <4> QED BY <2>2, <3>1, <3>2, <4>1
    <3> QED BY <3>1, <3>2
  <2>4. CASE asked % w = 0
    <3>1. L = 0 /\ (asked < Width(1) => asked = 0)
      BY <1>12, <1>15, <2>2, <2>4
    <3>2. b = <<>> /\ [k \in 1..0 |-> <<n, first + k - 1>>] = <<>>
      <4>1. b \in Seq(DriveNumbers \X Nat) /\ Len(b) = 0
        BY <1>11, <3>1
      <4> QED BY <4>1
    <3> QED BY <3>1, <3>2
  <2> QED BY <1>16, <2>3, <2>4
<1>17. SectorsAsAsked'
  <2>1. L <= asked
    BY <1>12, <1>15
  <2>2. (first < Width(4) /\ (ChannelOf(n) \notin unread \/ asked % Width(1) = 0)) =>
          /\ b = [k \in 1..L |-> <<n, first + k - 1>>]
          /\ (asked < Width(1) /\ d.kind = "PATA" /\
                \A a \in first..(first + asked - 1) : Readable(d, a)) => L = asked
    BY <1>12, <1>16
  <2> QED BY <1>1, <1>5, <1>6, <1>7, <1>10, <1>14, <2>1, <2>2 DEF SectorsAsAsked
<1>18. reader'.step = "none"
  BY <1>1 DEF NoReader
<1>19. RequestInv'
  BY <1>1, <1>4, <1>17, <1>18 DEF RequestInv
<1> QED BY <1>2, <1>3, <1>19 DEF DiskInv

-----------------------------------------------------------------------------
(* The invariant, and what it says.                                        *)

LEMMA DisksStep == DiskInv /\ [DiskNext]_diskVars => DiskInv'
<1> SUFFICES ASSUME DiskInv, [DiskNext]_diskVars PROVE DiskInv'
  OBVIOUS
<1>1. CASE Ide /\ UNCHANGED <<gpt, tableVars, requestVars>>
  BY <1>1, DriverKeeps
<1>2. CASE SomeDriveAnswers
  BY <1>2, DriverKeeps DEF SomeDriveAnswers
<1>3. CASE disk_initialize
  BY <1>3, DiskInitializeKeeps
<1>4. CASE read_gpt
  BY <1>4, ReadHeaderKeeps, LoadEntriesKeeps, EntriesLoadedKeeps, ReadEntryKeeps,
     LastEntryKeeps DEF read_gpt
<1>5. CASE SectorsRead
  BY <1>5, SectorsReadKeeps
<1>6. CASE Asked
  BY <1>6, AskedKeeps
<1>7. CASE UNCHANGED diskVars
  <2>1. /\ UNCHANGED ideStill /\ reader' = reader /\ gpt' = gpt /\ UNCHANGED tableVars
        /\ UNCHANGED requestVars
    BY <1>7 DEF diskVars, ideVars, ideStill, tableVars, requestVars
  <2>2. DriverStep
    BY <2>1 DEF DriverStep, ideStill
  <2>3. IdeInv'
    BY <2>1, CallerKeeps DEF DiskInv
  <2> QED BY <2>1, <2>2, <2>3, DriverKeepsGpt, DriverKeepsTable, DriverKeepsRequest
          DEF DiskInv
<1> QED BY <1>1, <1>2, <1>3, <1>4, <1>5, <1>6, <1>7 DEF DiskNext, Kernel

\* The invariant holds: what the driver has found of the drives, what it reads, and what
\* the table's reader has made of the entries.
THEOREM DisksInvariant == DiskSpec => []DiskInv
BY DisksBegin, DisksStep, PTL DEF DiskSpec

\* Four drives are probed one after another through registers two of them share: at the
\* end each is present if and only if it is a hard disk the kernel can address, and one
\* that did not fail has its own size (ide.c: initialize_drive, select_device).
THEOREM DrivesAreFound == DiskSpec => []DrivesFound
<1>1. DiskInv => DrivesFound
  BY DEF DiskInv, IdeInv, SearchInv, DrivesFound, Found
<1> QED BY <1>1, DisksInvariant, PTL

\* The partitions are the table's entries in use, in order, each inside its entry, and no
\* block of memory is lost but where one is missing (disk.c: read_gpt).
THEOREM PartitionsFound == DiskSpec => []PartitionsAreTheEntries
<1>1. DiskInv => PartitionsAreTheEntries
  <2>1. SUFFICES ASSUME DiskInv, gpt.step = "done" PROVE PartitionsAreTheEntries
    BY DEF PartitionsAreTheEntries
  <2>2. /\ TableInv /\ GptInv /\ IdeInv /\ ~InTable
    BY <2>1 DEF DiskInv, InTable
  <2>3. PICK t \in Nat, i \in Nat, L \in Nat, u \in Nat, v \in Nat :
          /\ t = EntryCount /\ i = gpt.i /\ i <= t /\ L = Len(partitions)
          /\ u = UsedBefore(t) /\ v = UsedBefore(i)
    <3>1. EntryCount \in Nat /\ gpt.i \in Nat /\ gpt.i <= EntryCount
      BY <2>2, TableTyped DEF IdeInv, GptInv
    <3>2. partitions \in Seq(PartitionRecords)
      BY <2>2 DEF TableInv
    <3>3. Len(partitions) \in Nat
      BY <3>2
    <3>4. UsedBefore(EntryCount) \in Nat /\ UsedBefore(gpt.i) \in Nat
      BY <3>1, UsedCounts
    <3> QED BY <3>1, <3>3, <3>4
  <2>4. L <= v /\ v <= u
    BY <2>2, <2>3, UsedGrows DEF TableInv
  <2>5. \A j \in 1..t : Placed(j)
    <3>1. TAKE j \in 1..t
    <3>2. CASE j \in 1..i
      BY <2>2, <2>3, <3>2 DEF TableInv, Placed
    <3>3. CASE j \notin 1..i
      <4>1. SUFFICES ASSUME Header.entries[j].used PROVE Placed(j)
        BY DEF Placed
      <4>2. j \in Nat /\ i < j
        BY <2>3, <3>3
      <4>3. v < UsedBefore(j) /\ UsedBefore(j) \in Nat
        BY <2>3, <4>1, <4>2, UsedLater, UsedCounts
      <4>4. ~ (UsedBefore(j) <= Len(partitions))
        BY <2>3, <2>4, <4>3
      <4> QED BY <4>4 DEF Placed
    <3> QED BY <3>2, <3>3
  <2>6. L <= u /\ Len(partitions) <= UsedBefore(EntryCount)
    BY <2>3, <2>4
  <2>7. Complete => Len(partitions) = UsedBefore(EntryCount)
    BY <2>1, <2>2 DEF TableInv
  <2>8. memory + 3 * Len(partitions) + leaked = computer.memory
    <3>1. memory \in Nat /\ leaked \in Nat
      BY <2>2 DEF TableInv
    <3>2. memory + 0 + 3 * Len(partitions) + leaked = computer.memory
      BY <2>2 DEF TableInv
    <3> QED BY <2>3, <3>1, <3>2
  <2>9. leaked = 0 => partition_count = Len(partitions)
    BY <2>2 DEF TableInv
  <2> QED BY <2>3, <2>5, <2>6, <2>7, <2>8, <2>9
          DEF PartitionsAreTheEntries, Placed, Complete
<1> QED BY <1>1, DisksInvariant, PTL

\* A request for sectors of a partition gets those, of its drive and in order, and all of
\* them where they can be read; for any number of requests, up to one on the same channel
\* whose count was narrowed to 0, which leaves the drive with sectors to give that the
\* requests after it are not promised anything of (disk.c: disk_read_sectors; ide.c:
\* read_sectors).
THEOREM RequestsServed == DiskSpec => []SectorsAsAsked
<1>1. DiskInv => SectorsAsAsked
  BY DEF DiskInv, RequestInv
<1> QED BY <1>1, DisksInvariant, PTL

-----------------------------------------------------------------------------
(* The walk over the PCI buses, for every tree.                            *)

\* Induction over an interval, for a set instead of a predicate.
LEMMA IntervalInduction ==
  ASSUME NEW n \in Nat, NEW S, 0 \in S, \A i \in 0..n - 1 : i \in S => i + 1 \in S
  PROVE  \A i \in 0..n : i \in S
<1>1. SUFFICES ASSUME NEW k \in 0..n, k \notin S PROVE FALSE
  OBVIOUS
<1>2. PICK missing : missing = {i \in 0..n : i \notin S}
  OBVIOUS
<1>3. missing \subseteq Nat /\ missing # {}
  BY <1>1, <1>2
<1>4. PICK i \in missing : \A j \in missing : ~ (<<j, i>> \in OpToRel(<, Nat))
  BY <1>3, NatLessThanWellFounded, WFMin
<1>5. i \in 0..n /\ i \notin S /\ i # 0
  BY <1>2, <1>4
<1>6. i - 1 \in 0..n - 1 /\ i - 1 \in 0..n /\ i - 1 < i
  BY <1>5
<1>7. i - 1 \in S
  <2>1. SUFFICES ASSUME i - 1 \in missing PROVE FALSE
    BY <1>2, <1>6
  <2>2. ~ (i - 1 < i)
    BY <1>3, <1>4, <2>1 DEF OpToRel
  <2> QED BY <1>6, <2>2
<1> QED BY <1>5, <1>6, <1>7

\* Two sequences one after the other hold what both hold, and nothing twice if neither
\* does and they have nothing in common.
LEMMA ConcatHolds ==
  ASSUME NEW S, NEW a \in Seq(S), NEW b \in Seq(S)
  PROVE  /\ a \o b \in Seq(S)
         /\ ToSet(a \o b) = ToSet(a) \cup ToSet(b)
         /\ IsInjective(a) /\ IsInjective(b) /\ ToSet(a) \cap ToSet(b) = {} =>
              IsInjective(a \o b)
<1>1. PICK m \in Nat, n \in Nat : m = Len(a) /\ n = Len(b)
  OBVIOUS
<1>2. PICK c : c = a \o b
  OBVIOUS
<1>3. /\ c \in Seq(S) /\ Len(c) = m + n
      /\ \A i \in 1..m + n : c[i] = IF i <= m THEN a[i] ELSE b[i - m]
  BY <1>1, <1>2, ConcatProperties
<1>4. DOMAIN a = 1..m /\ DOMAIN b = 1..n /\ DOMAIN c = 1..m + n
  BY <1>1, <1>3
<1>5. \A i \in 1..m : i \in 1..m + n /\ c[i] = a[i]
  BY <1>3
<1>6. \A i \in 1..n : i + m \in 1..m + n /\ c[i + m] = b[i]
  <2>1. SUFFICES ASSUME NEW i \in 1..n PROVE i + m \in 1..m + n /\ c[i + m] = b[i]
    OBVIOUS
  <2>2. i + m \in 1..m + n /\ ~ (i + m <= m) /\ (i + m) - m = i
    OBVIOUS
  <2> QED BY <1>3, <2>2
<1>7. \A i \in 1..m + n : i \notin 1..m => i - m \in 1..n /\ c[i] = b[i - m]
  <2>1. SUFFICES ASSUME NEW i \in 1..m + n, i \notin 1..m
                 PROVE  i - m \in 1..n /\ c[i] = b[i - m]
    OBVIOUS
  <2>2. i - m \in 1..n /\ ~ (i <= m)
    BY <2>1
  <2> QED BY <1>3, <2>2
<1>8. ToSet(c) = ToSet(a) \cup ToSet(b)
  <2>1. ASSUME NEW x \in ToSet(c) PROVE x \in ToSet(a) \cup ToSet(b)
    <3>1. PICK i \in 1..m + n : x = c[i]
      BY <1>4 DEF ToSet
    <3>2. CASE i \in 1..m
      BY <1>4, <1>5, <3>1, <3>2 DEF ToSet
    <3>3. CASE i \notin 1..m
      BY <1>4, <1>7, <3>1, <3>3 DEF ToSet
    <3> QED BY <3>2, <3>3
  <2>2. ASSUME NEW x \in ToSet(a) PROVE x \in ToSet(c)
    <3>1. PICK i \in 1..m : x = a[i]
      BY <1>4 DEF ToSet
    <3> QED BY <1>4, <1>5, <3>1 DEF ToSet
  <2>3. ASSUME NEW x \in ToSet(b) PROVE x \in ToSet(c)
    <3>1. PICK i \in 1..n : x = b[i]
      BY <1>4 DEF ToSet
    <3> QED BY <1>4, <1>6, <3>1 DEF ToSet
  <2> QED BY <2>1, <2>2, <2>3
<1>9. ASSUME IsInjective(a), IsInjective(b), ToSet(a) \cap ToSet(b) = {}
      PROVE  IsInjective(c)
  <2>1. SUFFICES ASSUME NEW i \in 1..m + n, NEW j \in 1..m + n, c[i] = c[j] PROVE i = j
    BY <1>4 DEF IsInjective
  <2>2. CASE i \in 1..m /\ j \in 1..m
    BY <1>4, <1>5, <1>9, <2>1, <2>2 DEF IsInjective
  <2>3. CASE i \notin 1..m /\ j \notin 1..m
    <3>1. i - m = j - m
      BY <1>4, <1>7, <1>9, <2>1, <2>3 DEF IsInjective
    <3> QED BY <3>1
  <2>4. CASE i \in 1..m /\ j \notin 1..m
    <3>1. c[i] \in ToSet(a) /\ c[j] \in ToSet(b)
      BY <1>4, <1>5, <1>7, <2>4 DEF ToSet
    <3> QED BY <1>9, <2>1, <3>1
  <2>5. CASE i \notin 1..m /\ j \in 1..m
    <3>1. c[j] \in ToSet(a) /\ c[i] \in ToSet(b)
      BY <1>4, <1>5, <1>7, <2>5 DEF ToSet
    <3> QED BY <1>9, <2>1, <3>1
  <2> QED BY <2>2, <2>3, <2>4, <2>5
<1> QED BY <1>2, <1>3, <1>8, <1>9

\* A sequence of one.
LEMMA OneHolds ==
  ASSUME NEW S, NEW x \in S
  PROVE  <<x>> \in Seq(S) /\ ToSet(<<x>>) = {x} /\ IsInjective(<<x>>)
BY DEF ToSet, IsInjective

\* A sequence of none.
LEMMA NoneHolds ==
  ASSUME NEW S
  PROVE  <<>> \in Seq(S) /\ ToSet(<<>>) = {} /\ IsInjective(<<>>)
BY DEF ToSet, IsInjective

\* Many sequences one after another hold what all of them hold, and nothing twice if none
\* does and no two of them have anything in common.
LEMMA JoinedHolds ==
  ASSUME NEW S, NEW n \in Nat, NEW p, \A i \in 1..n : p[i] \in Seq(S)
  PROVE  /\ Joined(n, p) \in Seq(S)
         /\ ToSet(Joined(n, p)) = UNION {ToSet(p[i]) : i \in 1..n}
         /\ (/\ \A i \in 1..n : IsInjective(p[i])
             /\ \A i, j \in 1..n : i # j => ToSet(p[i]) \cap ToSet(p[j]) = {}) =>
              IsInjective(Joined(n, p))
<1> DEFINE Solves(f, k) == f = [m \in 0..k |-> IF m = 0 THEN <<>> ELSE f[m - 1] \o p[m]]
<1> HIDE DEF Solves
<1>1. PICK solved : solved = {k \in 0..n : \E f : Solves(f, k)}
  OBVIOUS
<1>2. 0 \in solved
  <2>1. PICK f : f = [m \in 0..0 |-> <<>>]
    OBVIOUS
  <2>2. Solves(f, 0)
    BY <2>1 DEF Solves
  <2> QED BY <1>1, <2>2
<1>3. ASSUME NEW k \in 0..n - 1, k \in solved PROVE k + 1 \in solved
  <2>1. PICK f : Solves(f, k)
    BY <1>1, <1>3
  <2>2. PICK last : last = f[k] \o p[k + 1]
    OBVIOUS
  <2>3. PICK h : h = [m \in 0..k + 1 |-> IF m = k + 1 THEN last ELSE f[m]]
    OBVIOUS
  <2>4. ASSUME NEW m \in 0..k + 1
        PROVE  h[m] = IF m = 0 THEN <<>> ELSE h[m - 1] \o p[m]
    <3>1. CASE m = k + 1
      <4>1. h[m] = last /\ m - 1 = k /\ h[k] = f[k] /\ m # 0
        BY <2>3, <3>1
      <4> QED BY <2>2, <3>1, <4>1
    <3>2. CASE m # k + 1
      <4>1. m \in 0..k
        BY <3>2
      <4>2. h[m] = f[m] /\ (m # 0 => h[m - 1] = f[m - 1])
        BY <2>3, <4>1
      <4>3. f[m] = IF m = 0 THEN <<>> ELSE f[m - 1] \o p[m]
        BY <2>1, <4>1 DEF Solves
      <4> QED BY <4>2, <4>3
    <3> QED BY <3>1, <3>2
  <2>5. Solves(h, k + 1)
    BY <2>3, <2>4 DEF Solves
  <2> QED BY <1>1, <2>5
<1>4. \E f : Solves(f, n)
  <2>1. \A k \in 0..n : k \in solved
    BY <1>2, <1>3, IntervalInduction
  <2>2. n \in solved
    BY <2>1
  <2> QED BY <1>1, <2>2
<1>5. PICK joined : Joined(n, p) = joined[n] /\ joined = CHOOSE f : Solves(f, n)
  BY DEF Joined, Solves
<1>6. Solves(joined, n)
  BY <1>4, <1>5
<1>7. joined[0] = <<>> /\ \A m \in 1..n : joined[m] = joined[m - 1] \o p[m]
  <2>1. \A m \in 0..n : joined[m] = IF m = 0 THEN <<>> ELSE joined[m - 1] \o p[m]
    BY <1>6 DEF Solves
  <2>2. \A m \in 1..n : m \in 0..n /\ m # 0
    OBVIOUS
  <2>3. 0 \in 0..n
    OBVIOUS
  <2> QED BY <2>1, <2>2, <2>3, Zenon
<1> DEFINE Apart == /\ \A i \in 1..n : IsInjective(p[i])
                    /\ \A i, j \in 1..n : i # j => ToSet(p[i]) \cap ToSet(p[j]) = {}
           Holds(k) == /\ joined[k] \in Seq(S)
                       /\ ToSet(joined[k]) = UNION {ToSet(p[i]) : i \in 1..k}
                       /\ Apart => IsInjective(joined[k])
<1> HIDE DEF Apart, Holds
<1>8. PICK held : held = {k \in 0..n : Holds(k)}
  OBVIOUS
<1>9. 0 \in held
  <2>1. UNION {ToSet(p[i]) : i \in 1..0} = {}
    OBVIOUS
  <2>2. Holds(0)
    BY <1>7, <2>1, NoneHolds DEF Holds
  <2> QED BY <1>8, <2>2
<1>10. ASSUME NEW k \in 0..n - 1, k \in held PROVE k + 1 \in held
  <2>1. Holds(k)
    BY <1>8, <1>10
  <2>2. k + 1 \in 1..n /\ (k + 1) - 1 = k
    OBVIOUS
  <2>3. joined[k + 1] = joined[k] \o p[k + 1] /\ p[k + 1] \in Seq(S)
    BY <1>7, <2>2
  <2>4. joined[k + 1] \in Seq(S) /\ ToSet(joined[k + 1]) = ToSet(joined[k]) \cup ToSet(p[k + 1])
    BY <2>1, <2>3, ConcatHolds DEF Holds
  <2>5. \A i \in 1..k + 1 : i \in 1..k \/ i = k + 1
    OBVIOUS
  <2>6. \A i \in 1..k : i \in 1..k + 1 /\ i \in 1..n /\ i # k + 1
    BY <2>2
  <2>7. UNION {ToSet(p[i]) : i \in 1..k + 1}
          = (UNION {ToSet(p[i]) : i \in 1..k}) \cup ToSet(p[k + 1])
    <3>1. k + 1 \in 1..k + 1
      OBVIOUS
    <3> QED BY <2>5, <2>6, <3>1, Zenon
  <2>8. ASSUME Apart PROVE IsInjective(joined[k + 1])
    <3>1. IsInjective(p[k + 1])
      BY <2>2, <2>8 DEF Apart
    <3>2. \A i \in 1..k : ToSet(p[i]) \cap ToSet(p[k + 1]) = {}
      BY <2>2, <2>6, <2>8 DEF Apart
    <3>3. ToSet(joined[k]) \cap ToSet(p[k + 1]) = {}
      BY <2>1, <3>2 DEF Holds
    <3>4. joined[k] \in Seq(S) /\ IsInjective(joined[k])
      BY <2>1, <2>8 DEF Holds
    <3> QED BY <2>3, <3>1, <3>3, <3>4, ConcatHolds
  <2>9. Holds(k + 1)
    BY <2>1, <2>4, <2>7, <2>8 DEF Holds
  <2> QED BY <1>8, <2>2, <2>9
<1>11. \A k \in 0..n : k \in held
  BY <1>9, <1>10, IntervalInduction
<1>12. n \in held
  BY <1>11
<1>13. Holds(n)
  BY <1>8, <1>12
<1> QED BY <1>5, <1>13 DEF Holds, Apart

Buses == 0..NumBuses - 1

\* The bridges the walk sees, and where they lead.
Bridges(tree) == {at \in Shown(tree) : IsBridge(tree[at])}
To(tree, at) == tree[at].secondary

\* Buses that with one have those behind its bridges, too; and the least ones with b.
Closed(tree, X) == \A at \in Bridges(tree) : at[1] \in X => To(tree, at) \in X
Behind(tree, b) ==
  {c \in Buses : \A X \in SUBSET Buses : b \in X /\ Closed(tree, X) => c \in X}

\* What a walk from bus b is to enter.
FunctionsFrom(tree, b) == {at \in Shown(tree) : at[1] \in Behind(tree, b)}

\* Bridges lead to higher buses, each to its own.
LEMMA BridgesLead ==
  ASSUME NEW tree, IsTree(tree), NEW at \in Shown(tree)
  PROVE  /\ at[1] \in Buses
         /\ IsBridge(tree[at]) => at \in Bridges(tree) /\ To(tree, at) \in Buses
<1>1. at \in DOMAIN tree
  BY DEF Shown
<1>2. at \in (0..NumBuses - 1) \X (0..NumDevices - 1) \X (0..NumFunctions - 1)
  BY <1>1 DEF IsTree
<1>3. at[1] \in Buses
  BY <1>2 DEF Buses
<1>4. IsBridge(tree[at]) => tree[at].secondary \in 0..NumBuses - 1
  BY <1>1 DEF IsTree
<1> QED BY <1>3, <1>4 DEF Bridges, To, Buses

LEMMA BridgesOrdered ==
  ASSUME NEW tree, IsTree(tree), Sound(tree), NEW at \in Bridges(tree)
  PROVE  /\ at[1] \in Buses /\ To(tree, at) \in Buses /\ To(tree, at) > at[1]
         /\ \A other \in Bridges(tree) : To(tree, at) = To(tree, other) => at = other
<1>1. \A x \in Bridges(tree) : x \in Shown(tree) /\ x \in DOMAIN tree /\ IsBridge(tree[x])
  BY DEF Bridges, Shown
<1> QED BY <1>1, BridgesLead DEF Sound, To

LEMMA BehindLeast ==
  ASSUME NEW tree, IsTree(tree), NEW b \in Buses
  PROVE  /\ b \in Behind(tree, b) /\ Behind(tree, b) \in SUBSET Buses
         /\ Closed(tree, Behind(tree, b))
         /\ \A X \in SUBSET Buses : b \in X /\ Closed(tree, X) => Behind(tree, b) \subseteq X
<1>1. Closed(tree, Behind(tree, b))
  <2>1. SUFFICES ASSUME NEW at \in Bridges(tree), at[1] \in Behind(tree, b)
                 PROVE  To(tree, at) \in Behind(tree, b)
    BY DEF Closed
  <2>2. To(tree, at) \in Buses
    BY BridgesLead DEF Bridges
  <2>3. ASSUME NEW X \in SUBSET Buses, b \in X, Closed(tree, X) PROVE To(tree, at) \in X
    <3>1. at[1] \in X
      BY <2>1, <2>3 DEF Behind
    <3> QED BY <2>3, <3>1 DEF Closed
  <2> QED BY <2>2, <2>3 DEF Behind
<1> QED BY <1>1 DEF Behind

\* No bus behind b has a lower number.
LEMMA BehindAfter ==
  ASSUME NEW tree, IsTree(tree), Sound(tree), NEW b \in Buses
  PROVE  \A c \in Behind(tree, b) : c >= b
<1>1. PICK after : after = {c \in Buses : c >= b}
  OBVIOUS
<1>2. Closed(tree, after)
  <2>1. SUFFICES ASSUME NEW at \in Bridges(tree), at[1] \in after
                 PROVE  To(tree, at) \in after
    BY DEF Closed
  <2>2. at[1] \in Buses /\ To(tree, at) \in Buses /\ To(tree, at) > at[1]
    BY BridgesOrdered
  <2> QED BY <1>1, <2>1, <2>2 DEF Buses
<1>3. after \in SUBSET Buses /\ b \in after
  BY <1>1 DEF Buses
<1>4. Behind(tree, b) \subseteq after
  BY <1>2, <1>3, BehindLeast
<1> QED BY <1>1, <1>4

\* Behind b are b and what is behind where its bridges lead.
LEMMA BehindUnfolds ==
  ASSUME NEW tree, IsTree(tree), NEW b \in Buses, NEW c
  PROVE  c \in Behind(tree, b) <=>
           c = b \/ \E at \in Bridges(tree) : at[1] = b /\ c \in Behind(tree, To(tree, at))
<1>1. \A at \in Bridges(tree) : at[1] \in Buses /\ To(tree, at) \in Buses
  BY BridgesLead DEF Bridges
<1>2. PICK all : all = {d \in Buses : d = b \/ \E at \in Bridges(tree) :
                                        at[1] = b /\ d \in Behind(tree, To(tree, at))}
  OBVIOUS
<1>3. Closed(tree, all)
  <2>1. SUFFICES ASSUME NEW at \in Bridges(tree), at[1] \in all
                 PROVE  To(tree, at) \in all
    BY DEF Closed
  <2>2. CASE at[1] = b
    BY <1>1, <1>2, <2>2, BehindLeast
  <2>3. ASSUME NEW up \in Bridges(tree), up[1] = b, at[1] \in Behind(tree, To(tree, up))
        PROVE  To(tree, at) \in all
    <3>1. Closed(tree, Behind(tree, To(tree, up)))
      BY <1>1, BehindLeast
    <3>2. To(tree, at) \in Behind(tree, To(tree, up))
      BY <2>3, <3>1 DEF Closed
    <3> QED BY <1>1, <1>2, <2>3, <3>2
  <2> QED BY <1>2, <2>1, <2>2, <2>3
<1>4. Behind(tree, b) \subseteq all
  BY <1>2, <1>3, BehindLeast
<1>5. ASSUME NEW at \in Bridges(tree), at[1] = b
      PROVE  Behind(tree, To(tree, at)) \subseteq Behind(tree, b)
  <2>1. b \in Behind(tree, b) /\ Behind(tree, b) \in SUBSET Buses /\ Closed(tree, Behind(tree, b))
    BY BehindLeast
  <2>2. To(tree, at) \in Behind(tree, b)
    BY <1>5, <2>1 DEF Closed
  <2> QED BY <1>1, <2>1, <2>2, BehindLeast
<1> QED BY <1>2, <1>4, <1>5, BehindLeast

\* A bus behind b that is not b has a bridge to it from one that is behind b.
LEMMA BehindParent ==
  ASSUME NEW tree, IsTree(tree), NEW b \in Buses, NEW c \in Behind(tree, b), c # b
  PROVE  \E at \in Bridges(tree) : at[1] \in Behind(tree, b) /\ To(tree, at) = c
<1>1. PICK fed : fed = {d \in Behind(tree, b) : d = b \/ \E at \in Bridges(tree) :
                          at[1] \in Behind(tree, b) /\ To(tree, at) = d}
  OBVIOUS
<1>2. b \in Behind(tree, b) /\ Behind(tree, b) \in SUBSET Buses /\ Closed(tree, Behind(tree, b))
  BY BehindLeast
<1>3. Closed(tree, fed)
  BY <1>1, <1>2 DEF Closed
<1>4. Behind(tree, b) \subseteq fed
  BY <1>1, <1>2, <1>3, BehindLeast
<1> QED BY <1>1, <1>4

\* What is behind two bridges of one bus has nothing in common.
LEMMA BehindApart ==
  ASSUME NEW tree, IsTree(tree), Sound(tree),
         NEW one \in Bridges(tree), NEW other \in Bridges(tree),
         one # other, one[1] = other[1]
  PROVE  Behind(tree, To(tree, one)) \cap Behind(tree, To(tree, other)) = {}
<1>1. PICK b \in Buses, c \in Buses, d \in Buses :
        b = one[1] /\ c = To(tree, one) /\ d = To(tree, other) /\ c > b /\ d > b /\ c # d
  BY BridgesOrdered
<1>2. PICK both : both = Behind(tree, c) \cap Behind(tree, d)
  OBVIOUS
<1>3. SUFFICES ASSUME both # {} PROVE FALSE
  BY <1>1, <1>2
<1>4. both \subseteq Nat
  BY <1>1, <1>2, BehindLeast DEF Buses
<1>5. PICK e \in both : \A x \in both : ~ (<<x, e>> \in OpToRel(<, Nat))
  BY <1>3, <1>4, NatLessThanWellFounded, WFMin
<1>6. \A x \in both : ~ (x < e)
  BY <1>4, <1>5 DEF OpToRel
<1>7. b \notin Behind(tree, c) /\ b \notin Behind(tree, d)
  BY <1>1, BehindAfter DEF Buses
<1>8. ASSUME NEW at \in Bridges(tree), To(tree, at) = e
      PROVE  ~ (at[1] \in Behind(tree, c) /\ at[1] \in Behind(tree, d))
  BY <1>2, <1>6, <1>8, BridgesOrdered
<1>9. CASE e # c /\ e # d
  <2>1. PICK up \in Bridges(tree) : up[1] \in Behind(tree, c) /\ To(tree, up) = e
    BY <1>1, <1>2, <1>9, BehindParent
  <2>2. PICK down \in Bridges(tree) : down[1] \in Behind(tree, d) /\ To(tree, down) = e
    BY <1>1, <1>2, <1>9, BehindParent
  <2>3. up = down
    BY <2>1, <2>2, BridgesOrdered
  <2> QED BY <1>8, <2>1, <2>2, <2>3
<1>10. CASE e = c
  <2>1. PICK down \in Bridges(tree) : down[1] \in Behind(tree, d) /\ To(tree, down) = e
    BY <1>1, <1>2, <1>10, BehindParent
  <2>2. down = one
    BY <1>1, <1>10, <2>1, BridgesOrdered
  <2> QED BY <1>1, <1>7, <2>1, <2>2
<1>11. CASE e = d
  <2>1. PICK up \in Bridges(tree) : up[1] \in Behind(tree, c) /\ To(tree, up) = e
    BY <1>1, <1>2, <1>11, BehindParent
  <2>2. up = other
    BY <1>1, <1>11, <2>1, BridgesOrdered
  <2> QED BY <1>1, <1>7, <2>1, <2>2
<1> QED BY <1>9, <1>10, <1>11

\* There are finitely many bridges.
LEMMA BridgesFinite ==
  ASSUME NEW tree, IsTree(tree)
  PROVE  IsFiniteSet(Shown(tree)) /\ IsFiniteSet(Bridges(tree))
<1>1. NumBuses - 1 \in Int /\ NumDevices - 1 \in Int /\ NumFunctions - 1 \in Int
  BY PciAssumption
<1>2. /\ IsFiniteSet(0..NumBuses - 1) /\ IsFiniteSet(0..NumDevices - 1)
      /\ IsFiniteSet(0..NumFunctions - 1)
  BY <1>1, FS_Interval
<1>3. IsFiniteSet((0..NumBuses - 1) \X (0..NumDevices - 1))
  BY <1>2, FS_Product
<1>4. PICK pairs : pairs = ((0..NumBuses - 1) \X (0..NumDevices - 1)) \X (0..NumFunctions - 1)
  OBVIOUS
<1>5. IsFiniteSet(pairs)
  BY <1>2, <1>3, <1>4, FS_Product
<1>6. PICK places : places = (0..NumBuses - 1) \X (0..NumDevices - 1) \X (0..NumFunctions - 1)
  OBVIOUS
<1>7. PICK f : f = [x \in pairs |-> <<x[1][1], x[1][2], x[2]>>]
  OBVIOUS
<1>8. f \in Surjection(pairs, places)
  <2>1. ASSUME NEW x \in pairs PROVE f[x] \in places
    <3>1. PICK b \in 0..NumBuses - 1, d \in 0..NumDevices - 1, n \in 0..NumFunctions - 1 :
            x = <<<<b, d>>, n>>
      BY <1>4, <2>1
    <3>2. f[x] = <<b, d, n>>
      BY <1>7, <2>1, <3>1
    <3> QED BY <1>6, <3>2
  <2>2. ASSUME NEW y \in places PROVE \E x \in pairs : f[x] = y
    <3>1. PICK b \in 0..NumBuses - 1, d \in 0..NumDevices - 1, n \in 0..NumFunctions - 1 :
            y = <<b, d, n>>
      BY <1>6, <2>2
    <3>2. <<<<b, d>>, n>> \in pairs
      BY <1>4
    <3>3. f[<<<<b, d>>, n>>] = <<b, d, n>>
      BY <1>7, <3>2
    <3> QED BY <3>1, <3>2, <3>3
  <2>3. f \in [pairs -> places]
    BY <1>7, <2>1
  <2> QED BY <2>2, <2>3 DEF Surjection
<1>9. IsFiniteSet(places)
  BY <1>5, <1>8, FS_Surjection
<1>10. Shown(tree) \subseteq places /\ Bridges(tree) \subseteq Shown(tree)
  BY <1>6 DEF IsTree, Shown, Bridges
<1> QED BY <1>9, <1>10, FS_Subset

\* As many steps as there are bridges reach every bus behind bus 0.
LEMMA ReachedIsBehind ==
  ASSUME NEW tree, IsTree(tree)
  PROVE  Reached(tree) = Behind(tree, 0)
<1> DEFINE Next(near) == near \cup {tree[at].secondary : at \in {b \in Bridges(tree) : b[1] \in near}}
           Solves(f, k) == f = [n \in 0..k |-> IF n = 0 THEN {0} ELSE Next(f[n - 1])]
<1>1. PICK K \in Nat : K = Cardinality(Bridges(tree))
  BY BridgesFinite, FS_CardinalityType
<1>2. PICK step : Reached(tree) = step[K] /\ step = CHOOSE f : Solves(f, K)
  BY <1>1 DEF Reached, Bridges
<1> HIDE DEF Next, Solves
<1>3. PICK solved : solved = {k \in 0..K : \E f : Solves(f, k)}
  OBVIOUS
<1>4. 0 \in solved
  <2>1. PICK f : f = [n \in 0..0 |-> {0}]
    OBVIOUS
  <2>2. Solves(f, 0)
    BY <2>1 DEF Solves
  <2> QED BY <1>3, <2>2
<1>5. ASSUME NEW k \in 0..K - 1, k \in solved PROVE k + 1 \in solved
  <2>1. PICK f : Solves(f, k)
    BY <1>3, <1>5
  <2>2. PICK last : last = Next(f[k])
    OBVIOUS
  <2>3. PICK h : h = [m \in 0..k + 1 |-> IF m = k + 1 THEN last ELSE f[m]]
    OBVIOUS
  <2>4. ASSUME NEW m \in 0..k + 1
        PROVE  h[m] = IF m = 0 THEN {0} ELSE Next(h[m - 1])
    <3>1. CASE m = k + 1
      <4>1. h[m] = last /\ m - 1 = k /\ h[k] = f[k] /\ m # 0
        BY <2>3, <3>1
      <4> QED BY <2>2, <3>1, <4>1
    <3>2. CASE m # k + 1
      <4>1. m \in 0..k
        BY <3>2
      <4>2. h[m] = f[m] /\ (m # 0 => h[m - 1] = f[m - 1])
        BY <2>3, <4>1
      <4>3. f[m] = IF m = 0 THEN {0} ELSE Next(f[m - 1])
        BY <2>1, <4>1 DEF Solves
      <4> QED BY <4>2, <4>3
    <3> QED BY <3>1, <3>2
  <2>5. Solves(h, k + 1)
    BY <2>3, <2>4 DEF Solves
  <2> QED BY <1>3, <2>5
<1>6. Solves(step, K)
  <2>1. \A k \in 0..K : k \in solved
    BY <1>4, <1>5, IntervalInduction
  <2>2. K \in solved
    BY <2>1
  <2> QED BY <1>2, <1>3, <2>2
<1>7. step[0] = {0} /\ \A n \in 0..K - 1 : step[n + 1] = Next(step[n])
  <2>1. \A n \in 0..K : step[n] = IF n = 0 THEN {0} ELSE Next(step[n - 1])
    BY <1>6 DEF Solves
  <2>2. \A n \in 0..K - 1 : n + 1 \in 0..K /\ n + 1 # 0 /\ (n + 1) - 1 = n
    OBVIOUS
  <2>3. 0 \in 0..K
    OBVIOUS
  <2> QED BY <2>1, <2>2, <2>3
<1>8. /\ 0 \in Buses /\ 0 \in Behind(tree, 0) /\ Behind(tree, 0) \in SUBSET Buses
      /\ Closed(tree, Behind(tree, 0))
      /\ \A X \in SUBSET Buses : 0 \in X /\ Closed(tree, X) => Behind(tree, 0) \subseteq X
  <2>1. 0 \in Buses
    BY PciAssumption DEF Buses
  <2> QED BY <2>1, BehindLeast
<1>9. \A X : /\ X \subseteq Next(X)
             /\ \A at \in Bridges(tree) : at[1] \in X => To(tree, at) \in Next(X)
             /\ \A c \in Next(X) : c \in X \/ \E at \in Bridges(tree) :
                                                at[1] \in X /\ To(tree, at) = c
  BY DEF Next, To
<1>10. \A k \in 0..K : 0 \in step[k] /\ step[k] \subseteq Behind(tree, 0)
  <2>1. PICK held : held = {k \in 0..K : 0 \in step[k] /\ step[k] \subseteq Behind(tree, 0)}
    OBVIOUS
  <2>2. 0 \in held
    BY <1>7, <1>8, <2>1
  <2>3. ASSUME NEW k \in 0..K - 1, k \in held PROVE k + 1 \in held
    <3>1. 0 \in step[k] /\ step[k] \subseteq Behind(tree, 0)
      BY <2>1, <2>3
    <3>2. step[k + 1] = Next(step[k]) /\ k + 1 \in 0..K
      BY <1>7
    <3>3. \A c \in Next(step[k]) : c \in Behind(tree, 0)
      BY <1>8, <1>9, <3>1 DEF Closed
    <3>4. 0 \in Next(step[k])
      BY <1>9, <3>1
    <3> QED BY <2>1, <3>2, <3>3, <3>4
  <2>4. \A k \in 0..K : k \in held
    BY <2>2, <2>3, IntervalInduction
  <2> QED BY <2>1, <2>4
<1>11. PICK known : known = {0} \cup {To(tree, at) : at \in Bridges(tree)}
  OBVIOUS
<1>12. IsFiniteSet(known) /\ Cardinality(known) <= K + 1
  <2>1. PICK goals : goals = {To(tree, at) : at \in Bridges(tree)}
    OBVIOUS
  <2>2. PICK f : f = [at \in Bridges(tree) |-> To(tree, at)]
    OBVIOUS
  <2>3. f \in Surjection(Bridges(tree), goals)
    BY <2>1, <2>2 DEF Surjection
  <2>4. IsFiniteSet(goals) /\ Cardinality(goals) <= K
    BY <1>1, <2>3, BridgesFinite, FS_Surjection
  <2>5. known = goals \cup {0}
    BY <1>11, <2>1
  <2>6. /\ IsFiniteSet(goals \cup {0})
        /\ Cardinality(goals \cup {0}) = IF 0 \in goals THEN Cardinality(goals)
                                        ELSE Cardinality(goals) + 1
    BY <2>4, FS_AddElement
  <2>7. Cardinality(goals) \in Nat
    BY <2>4, FS_CardinalityType
  <2> QED BY <2>4, <2>5, <2>6, <2>7
<1>13. Closed(tree, known)
  BY <1>11 DEF Closed
<1>14. ASSUME NEW k \in 0..K
       PROVE  step[k] \subseteq known /\ IsFiniteSet(step[k]) /\ Cardinality(step[k]) \in Nat
  <2>1. PICK held : held = {i \in 0..K : step[i] \subseteq known}
    OBVIOUS
  <2>2. 0 \in held
    BY <1>7, <1>11, <2>1
  <2>3. ASSUME NEW i \in 0..K - 1, i \in held PROVE i + 1 \in held
    <3>1. step[i + 1] = Next(step[i]) /\ i + 1 \in 0..K /\ step[i] \subseteq known
      BY <1>7, <2>1, <2>3
    <3>2. \A c \in Next(step[i]) : c \in known
      BY <1>9, <1>11, <3>1
    <3> QED BY <2>1, <3>1, <3>2
  <2>4. \A i \in 0..K : i \in held
    BY <2>2, <2>3, IntervalInduction
  <2>5. step[k] \subseteq known
    BY <2>1, <2>4
  <2> QED BY <1>12, <2>5, FS_Subset, FS_CardinalityType
<1>15. PICK grown : grown = {k \in 0..K : Closed(tree, step[k]) \/ Cardinality(step[k]) >= k + 1}
  OBVIOUS
<1>16. 0 \in grown
  <2>1. Cardinality({0}) = 1
    BY FS_Singleton
  <2>2. Cardinality(step[0]) >= 0 + 1 /\ 0 \in 0..K
    BY <1>7, <2>1
  <2> QED BY <1>15, <2>2
<1>17. ASSUME NEW k \in 0..K - 1, k \in grown PROVE k + 1 \in grown
  <2>1. step[k + 1] = Next(step[k]) /\ k + 1 \in 0..K /\ k \in 0..K
    BY <1>7
  <2>2. CASE Closed(tree, step[k])
    <3>1. \A c \in Next(step[k]) : c \in step[k]
      BY <1>9, <2>2 DEF Closed
    <3>2. step[k] \subseteq Next(step[k])
      BY <1>9
    <3>3. step[k + 1] = step[k]
      BY <2>1, <3>1, <3>2
    <3> QED BY <1>15, <2>1, <2>2, <3>3
  <2>3. CASE ~Closed(tree, step[k])
    <3>1. PICK at \in Bridges(tree) : at[1] \in step[k] /\ To(tree, at) \notin step[k]
      BY <2>3 DEF Closed
    <3>2. To(tree, at) \in step[k + 1] /\ step[k] \subseteq step[k + 1]
      BY <1>9, <2>1, <3>1
    <3>3. PICK more : more = step[k] \cup {To(tree, at)}
      OBVIOUS
    <3>4. Cardinality(step[k]) >= k + 1 /\ IsFiniteSet(step[k]) /\ Cardinality(step[k]) \in Nat
      BY <1>14, <1>15, <1>17, <2>1, <2>3
    <3>5. Cardinality(more) = Cardinality(step[k]) + 1
      BY <3>1, <3>3, <3>4, FS_AddElement
    <3>6. more \subseteq step[k + 1] /\ IsFiniteSet(step[k + 1])
      BY <1>14, <2>1, <3>2, <3>3
    <3>7. Cardinality(more) <= Cardinality(step[k + 1]) /\ Cardinality(step[k + 1]) \in Nat
      BY <1>14, <2>1, <3>6, FS_Subset
    <3>8. Cardinality(step[k + 1]) >= (k + 1) + 1
      BY <3>4, <3>5, <3>7
    <3> QED BY <1>15, <2>1, <3>8
  <2> QED BY <2>2, <2>3
<1>18. Closed(tree, step[K]) \/ Cardinality(step[K]) >= K + 1
  <2>1. \A k \in 0..K : k \in grown
    BY <1>16, <1>17, IntervalInduction
  <2> QED BY <1>15, <2>1
<1>19. Closed(tree, step[K])
  <2>1. SUFFICES ASSUME Cardinality(step[K]) >= K + 1 PROVE Closed(tree, step[K])
    BY <1>18
  <2>2. step[K] \subseteq known /\ IsFiniteSet(step[K]) /\ Cardinality(step[K]) \in Nat
    BY <1>14
  <2>3. Cardinality(known) \in Nat
    BY <1>12, FS_CardinalityType
  <2>4. Cardinality(step[K]) <= Cardinality(known)
    BY <1>12, <2>2, FS_Subset
  <2>5. Cardinality(step[K]) = Cardinality(known)
    BY <1>12, <2>1, <2>2, <2>3, <2>4
  <2>6. step[K] = known
    BY <1>12, <2>2, <2>5, FS_Subset
  <2> QED BY <1>13, <2>6
<1>20. K \in 0..K
  OBVIOUS
<1>21. step[K] \in SUBSET Buses /\ 0 \in step[K] /\ step[K] \subseteq Behind(tree, 0)
  BY <1>8, <1>10, <1>20
<1>22. Behind(tree, 0) \subseteq step[K]
  BY <1>8, <1>19, <1>21
<1> QED BY <1>2, <1>21, <1>22

\* What the walk lists: places, and the mark of a full stack.
Listed == ((0..NumBuses - 1) \X (0..NumDevices - 1) \X (0..NumFunctions - 1)) \cup {StackOverflow}

\* A walk that has not filled the stack enters what it is to enter, everything once; and it
\* fills no stack that holds as many buses as there are from b on.
Walked(tree, n, b, w) ==
  /\ w \in Seq(Listed)
  /\ StackOverflow \notin ToSet(w) => IsInjective(w) /\ ToSet(w) = FunctionsFrom(tree, b)
  /\ n >= NumBuses - b => StackOverflow \notin ToSet(w)

\* The functions entered at a place, itself included.
Entered(tree, at) ==
  (IF IsBridge(tree[at]) THEN FunctionsFrom(tree, To(tree, at)) ELSE {}) \cup {at}

\* The same of the part of a walk that looks at some places of a bus.
Looked(tree, n, b, places, w) ==
  /\ w \in Seq(Listed)
  /\ StackOverflow \notin ToSet(w) =>
       IsInjective(w) /\ ToSet(w) = UNION {Entered(tree, at) : at \in places}
  /\ n >= NumBuses - b => StackOverflow \notin ToSet(w)

LEMMA ShownListed ==
  ASSUME NEW tree, IsTree(tree), NEW at \in Shown(tree)
  PROVE  at \in Listed /\ at # StackOverflow /\ at \in DOMAIN tree
<1>1. at \in (0..NumBuses - 1) \X (0..NumDevices - 1) \X (0..NumFunctions - 1) /\ at \in DOMAIN tree
  BY DEF Shown, IsTree
<1>2. at # StackOverflow
  BY <1>1 DEF StackOverflow
<1> QED BY <1>1, <1>2 DEF Listed

\* Two places of a bus have nothing in common to enter.
LEMMA EnteredApart ==
  ASSUME NEW tree, IsTree(tree), Sound(tree),
         NEW one \in Shown(tree), NEW other \in Shown(tree), one # other, one[1] = other[1]
  PROVE  Entered(tree, one) \cap Entered(tree, other) = {}
<1>1. ASSUME NEW at \in Shown(tree), IsBridge(tree[at])
      PROVE  /\ at \in Bridges(tree) /\ To(tree, at) \in Buses
             /\ \A x \in FunctionsFrom(tree, To(tree, at)) : x[1] # at[1]
  <2>1. at \in Bridges(tree) /\ To(tree, at) \in Buses /\ at[1] \in Buses
    BY <1>1, BridgesLead
  <2>2. To(tree, at) > at[1]
    BY <2>1, BridgesOrdered
  <2>3. \A c \in Behind(tree, To(tree, at)) : c >= To(tree, at) /\ c \in Buses
    BY <2>1, BehindAfter, BehindLeast
  <2> QED BY <2>1, <2>2, <2>3 DEF FunctionsFrom, Buses
<1>2. ASSUME IsBridge(tree[one]), IsBridge(tree[other])
      PROVE  FunctionsFrom(tree, To(tree, one)) \cap FunctionsFrom(tree, To(tree, other)) = {}
  <2>1. Behind(tree, To(tree, one)) \cap Behind(tree, To(tree, other)) = {}
    BY <1>1, <1>2, BehindApart
  <2> QED BY <2>1 DEF FunctionsFrom
<1> QED BY <1>1, <1>2 DEF Entered

\* From b the walk is to enter what is entered at the places of b.
LEMMA EntersAll ==
  ASSUME NEW tree, IsTree(tree), NEW b \in Buses
  PROVE  FunctionsFrom(tree, b) = UNION {Entered(tree, at) : at \in {x \in Shown(tree) : x[1] = b}}
<1> DEFINE Here == {x \in Shown(tree) : x[1] = b}
           All == UNION {Entered(tree, at) : at \in Here}
<1>1. ASSUME NEW x \in FunctionsFrom(tree, b) PROVE x \in All
  <2>1. x \in Shown(tree) /\ x[1] \in Behind(tree, b)
    BY <1>1 DEF FunctionsFrom
  <2>2. CASE x[1] = b
    <3>1. x \in Entered(tree, x) /\ x \in Here
      BY <2>1, <2>2 DEF Entered
    <3> QED BY <3>1
  <2>3. CASE x[1] # b
    <3>1. PICK at \in Bridges(tree) : at[1] = b /\ x[1] \in Behind(tree, To(tree, at))
      BY <2>1, <2>3, BehindUnfolds
    <3>2. at \in Here /\ IsBridge(tree[at])
      BY <3>1 DEF Bridges
    <3>3. x \in Entered(tree, at)
      BY <2>1, <3>1, <3>2 DEF Entered, FunctionsFrom
    <3> QED BY <3>2, <3>3
  <2> QED BY <2>2, <2>3
<1>2. ASSUME NEW at \in Here, NEW x \in Entered(tree, at) PROVE x \in FunctionsFrom(tree, b)
  <2>1. CASE x = at
    <3>1. x[1] \in Behind(tree, b)
      BY <1>2, <2>1, BehindLeast
    <3> QED BY <1>2, <2>1, <3>1 DEF FunctionsFrom
  <2>2. CASE IsBridge(tree[at]) /\ x \in FunctionsFrom(tree, To(tree, at))
    <3>1. at \in Bridges(tree)
      BY <1>2, <2>2 DEF Bridges
    <3>2. x[1] \in Behind(tree, b)
      BY <1>2, <2>2, <3>1, BehindUnfolds DEF FunctionsFrom
    <3> QED BY <2>2, <3>2 DEF FunctionsFrom
  <2> QED BY <1>2, <2>1, <2>2 DEF Entered
<1> QED BY <1>1, <1>2

\* check_function, where the walks behind are as they should be.
LEMMA CheckLooks ==
  ASSUME NEW tree, IsTree(tree), Sound(tree), NEW n \in Nat, NEW behind,
         \A c \in Buses : Walked(tree, n, c, behind[c + 1]),
         NEW at \in Shown(tree)
  PROVE  Looked(tree, n + 1, at[1], {at}, check_function(tree, behind, at))
<1>0. UNION {Entered(tree, x) : x \in {at}} = Entered(tree, at)
  OBVIOUS
<1>1. at \in Listed /\ at # StackOverflow
  BY ShownListed
<1>2. <<at>> \in Seq(Listed) /\ ToSet(<<at>>) = {at} /\ IsInjective(<<at>>)
  BY <1>1, OneHolds
<1>3. CASE ~IsBridge(tree[at])
  <2>1. check_function(tree, behind, at) = <<at>>
    BY <1>2, <1>3, ConcatEmptySeq DEF check_function
  <2>2. Entered(tree, at) = {at}
    BY <1>3 DEF Entered
  <2> QED BY <1>0, <1>1, <1>2, <2>1, <2>2 DEF Looked
<1>4. CASE IsBridge(tree[at])
  <2>1. PICK c \in Buses : c = To(tree, at) /\ c > at[1] /\ at[1] \in Buses
    BY <1>4, BridgesLead, BridgesOrdered
  <2>2. PICK w : w = behind[c + 1]
    OBVIOUS
  <2>3. Walked(tree, n, c, w)
    BY <2>2
  <2>4. check_function(tree, behind, at) = w \o <<at>>
    BY <1>4, <2>1, <2>2 DEF check_function, To
  <2>5. w \in Seq(Listed)
    BY <2>3 DEF Walked
  <2>6. /\ w \o <<at>> \in Seq(Listed) /\ ToSet(w \o <<at>>) = ToSet(w) \cup {at}
        /\ IsInjective(w) /\ at \notin ToSet(w) => IsInjective(w \o <<at>>)
    <3>1. at \notin ToSet(w) => ToSet(w) \cap ToSet(<<at>>) = {}
      BY <1>2
    <3>2. /\ w \o <<at>> \in Seq(Listed) /\ ToSet(w \o <<at>>) = ToSet(w) \cup ToSet(<<at>>)
          /\ IsInjective(w) /\ IsInjective(<<at>>) /\ ToSet(w) \cap ToSet(<<at>>) = {} =>
               IsInjective(w \o <<at>>)
      BY <1>2, <2>5, ConcatHolds
    <3> QED BY <1>2, <3>1, <3>2
  <2>7. at \notin FunctionsFrom(tree, c)
    <3>1. \A d \in Behind(tree, c) : d >= c /\ d \in Buses
      BY BehindAfter, BehindLeast
    <3> QED BY <2>1, <3>1 DEF FunctionsFrom, Buses
  <2>8. Entered(tree, at) = FunctionsFrom(tree, c) \cup {at}
    BY <1>4, <2>1 DEF Entered
  <2>9. n + 1 >= NumBuses - at[1] => n >= NumBuses - c
    BY <2>1, PciAssumption DEF Buses
  <2>10. ASSUME StackOverflow \notin ToSet(w \o <<at>>)
         PROVE  IsInjective(w \o <<at>>) /\ ToSet(w \o <<at>>) = Entered(tree, at)
    <3>1. IsInjective(w) /\ ToSet(w) = FunctionsFrom(tree, c)
      BY <2>3, <2>6, <2>10 DEF Walked
    <3> QED BY <2>6, <2>7, <2>8, <3>1
  <2>11. n + 1 >= NumBuses - at[1] => StackOverflow \notin ToSet(w \o <<at>>)
    BY <1>1, <2>3, <2>6, <2>9 DEF Walked
  <2> QED BY <1>0, <2>4, <2>6, <2>10, <2>11 DEF Looked
<1> QED BY <1>3, <1>4

\* The places of a bus.
PlacesOf(tree, b) == {x \in Shown(tree) : x[1] = b}

\* Places of a bus that differ have nothing in common to enter.
LEMMA LooksApart ==
  ASSUME NEW tree, IsTree(tree), Sound(tree), NEW b \in Buses,
         NEW some \in SUBSET PlacesOf(tree, b), NEW others \in SUBSET PlacesOf(tree, b),
         some \cap others = {}
  PROVE  (UNION {Entered(tree, at) : at \in some})
           \cap (UNION {Entered(tree, at) : at \in others}) = {}
<1>1. SUFFICES ASSUME NEW one \in some, NEW other \in others,
                      NEW x \in Entered(tree, one), x \in Entered(tree, other)
               PROVE  FALSE
  OBVIOUS
<1>2. one \in Shown(tree) /\ other \in Shown(tree) /\ one # other /\ one[1] = other[1]
  BY DEF PlacesOf
<1>3. Entered(tree, one) \cap Entered(tree, other) = {}
  BY <1>2, EnteredApart
<1> QED BY <1>1, <1>3

\* One part of a walk after another looks at the places of both.
LEMMA LooksInTurn ==
  ASSUME NEW tree, IsTree(tree), Sound(tree), NEW n \in Nat, NEW b \in Buses,
         NEW some \in SUBSET PlacesOf(tree, b), NEW others \in SUBSET PlacesOf(tree, b),
         some \cap others = {},
         NEW v, NEW w, Looked(tree, n, b, some, v), Looked(tree, n, b, others, w)
  PROVE  Looked(tree, n, b, some \cup others, v \o w)
<1>1. v \in Seq(Listed) /\ w \in Seq(Listed)
  BY DEF Looked
<1>2. /\ v \o w \in Seq(Listed) /\ ToSet(v \o w) = ToSet(v) \cup ToSet(w)
      /\ IsInjective(v) /\ IsInjective(w) /\ ToSet(v) \cap ToSet(w) = {} => IsInjective(v \o w)
  BY <1>1, ConcatHolds
<1>3. PICK first : first = UNION {Entered(tree, at) : at \in some}
  OBVIOUS
<1>4. PICK second : second = UNION {Entered(tree, at) : at \in others}
  OBVIOUS
<1>5. UNION {Entered(tree, at) : at \in some \cup others} = first \cup second
  BY <1>3, <1>4
<1>6. first \cap second = {}
  BY <1>3, <1>4, LooksApart
<1>7. ASSUME StackOverflow \notin ToSet(v \o w)
      PROVE  /\ IsInjective(v \o w)
             /\ ToSet(v \o w) = UNION {Entered(tree, at) : at \in some \cup others}
  <2>1. IsInjective(v) /\ IsInjective(w) /\ ToSet(v) = first /\ ToSet(w) = second
    BY <1>2, <1>3, <1>4, <1>7 DEF Looked
  <2> QED BY <1>2, <1>5, <1>6, <2>1
<1>8. n >= NumBuses - b => StackOverflow \notin ToSet(v \o w)
  BY <1>2 DEF Looked
<1> QED BY <1>2, <1>7, <1>8 DEF Looked

\* So do many.
LEMMA LooksInTurns ==
  ASSUME NEW tree, IsTree(tree), Sound(tree), NEW n \in Nat, NEW b \in Buses, NEW m \in Nat,
         NEW p, NEW places, \A i \in 1..m : Looked(tree, n, b, places[i], p[i]),
         \A i \in 1..m : places[i] \in SUBSET PlacesOf(tree, b),
         \A i, j \in 1..m : i # j => places[i] \cap places[j] = {}
  PROVE  Looked(tree, n, b, UNION {places[i] : i \in 1..m}, Joined(m, p))
<1>1. \A i \in 1..m : p[i] \in Seq(Listed)
  BY DEF Looked
<1>2. PICK w : w = Joined(m, p)
  OBVIOUS
<1>3. /\ w \in Seq(Listed) /\ ToSet(w) = UNION {ToSet(p[i]) : i \in 1..m}
      /\ (/\ \A i \in 1..m : IsInjective(p[i])
          /\ \A i, j \in 1..m : i # j => ToSet(p[i]) \cap ToSet(p[j]) = {}) => IsInjective(w)
  BY <1>1, <1>2, JoinedHolds
<1> DEFINE Of(i) == UNION {Entered(tree, at) : at \in places[i]}
           All == UNION {places[i] : i \in 1..m}
<1>4. UNION {Entered(tree, at) : at \in All} = UNION {Of(i) : i \in 1..m}
  <2>1. ASSUME NEW at \in All, NEW x \in Entered(tree, at) PROVE x \in UNION {Of(i) : i \in 1..m}
    <3>1. PICK i \in 1..m : at \in places[i]
      OBVIOUS
    <3>2. x \in Of(i)
      BY <2>1, <3>1
    <3> QED BY <3>2
  <2>2. ASSUME NEW i \in 1..m, NEW x \in Of(i) PROVE x \in UNION {Entered(tree, at) : at \in All}
    <3>1. PICK at \in places[i] : x \in Entered(tree, at)
      BY <2>2
    <3>2. at \in All
      BY <3>1
    <3> QED BY <3>1, <3>2
  <2> QED BY <2>1, <2>2
<1>5. \A i, j \in 1..m : i # j => Of(i) \cap Of(j) = {}
  <2>1. SUFFICES ASSUME NEW i \in 1..m, NEW j \in 1..m, i # j PROVE Of(i) \cap Of(j) = {}
    OBVIOUS
  <2> QED BY <2>1, LooksApart
<1>6. ASSUME StackOverflow \notin ToSet(w)
      PROVE  IsInjective(w) /\ ToSet(w) = UNION {Entered(tree, at) : at \in All}
  <2>1. \A i \in 1..m : StackOverflow \notin ToSet(p[i])
    BY <1>3, <1>6
  <2>2. \A i \in 1..m : IsInjective(p[i]) /\ ToSet(p[i]) = Of(i)
    BY <2>1 DEF Looked
  <2> HIDE DEF Of, All
  <2>3. \A i, j \in 1..m : i # j => ToSet(p[i]) \cap ToSet(p[j]) = {}
    BY <1>5, <2>2
  <2>4. IsInjective(w)
    BY <1>3, <2>2, <2>3
  <2>5. ToSet(w) = UNION {Of(i) : i \in 1..m}
    BY <1>3, <2>2
  <2> QED BY <1>4, <2>4, <2>5
<1>7. ASSUME n >= NumBuses - b PROVE StackOverflow \notin ToSet(w)
  <2>1. \A i \in 1..m : StackOverflow \notin ToSet(p[i])
    BY <1>7 DEF Looked
  <2> QED BY <1>3, <2>1
<1> QED BY <1>2, <1>3, <1>6, <1>7 DEF Looked

\* Nothing looks at no places.
LEMMA NothingLooks ==
  ASSUME NEW tree, NEW n, NEW b
  PROVE  Looked(tree, n, b, {}, <<>>)
BY NoneHolds DEF Looked

\* scan_device looks at the places its device shows.
LEMMA DeviceLooks ==
  ASSUME NEW tree, IsTree(tree), Sound(tree), NEW n \in Nat, NEW behind,
         \A c \in Buses : Walked(tree, n, c, behind[c + 1]),
         NEW b \in Buses, NEW d \in 0..NumDevices - 1
  PROVE  Looked(tree, n + 1, b, {x \in PlacesOf(tree, b) : x[2] = d},
                scan_device(tree, behind, b, d))
<1>1. PICK here : here = {x \in PlacesOf(tree, b) : x[2] = d}
  OBVIOUS
<1>2. PICK zero : zero = <<b, d, 0>>
  OBVIOUS
<1>3. zero[1] = b /\ zero[2] = d /\ zero[3] = 0
  BY <1>2
<1>4. \A x \in here : /\ x \in Shown(tree) /\ x \in DOMAIN tree /\ x[1] = b /\ x[2] = d
                      /\ x[3] \in 0..NumFunctions - 1 /\ x = <<b, d, x[3]>>
  <2>1. SUFFICES ASSUME NEW x \in here
                 PROVE  /\ x \in Shown(tree) /\ x \in DOMAIN tree /\ x[1] = b /\ x[2] = d
                        /\ x[3] \in 0..NumFunctions - 1 /\ x = <<b, d, x[3]>>
    OBVIOUS
  <2>2. x \in Shown(tree) /\ x \in DOMAIN tree /\ x[1] = b /\ x[2] = d
    BY <1>1 DEF PlacesOf, Shown
  <2>3. x \in (0..NumBuses - 1) \X (0..NumDevices - 1) \X (0..NumFunctions - 1)
    BY <2>2 DEF IsTree
  <2> QED BY <2>2, <2>3
<1>5. CASE zero \notin DOMAIN tree
  <2>1. here = {}
    <3>1. SUFFICES ASSUME NEW x \in here PROVE FALSE
      OBVIOUS
    <3>2. <<x[1], x[2], 0>> \in DOMAIN tree
      BY <1>4 DEF Shown
    <3> QED BY <1>2, <1>4, <1>5, <3>2
  <2>2. scan_device(tree, behind, b, d) = <<>>
    BY <1>2, <1>5 DEF scan_device
  <2> QED BY <1>1, <2>1, <2>2, NothingLooks
<1>6. CASE zero \in DOMAIN tree
  <2>1. zero \in Shown(tree) /\ zero \in here
    BY <1>1, <1>2, <1>3, <1>6 DEF Shown, PlacesOf
  <2>2. PICK first : first = check_function(tree, behind, zero)
    OBVIOUS
  <2>3. Looked(tree, n + 1, b, {zero}, first)
    BY <1>3, <2>1, <2>2, CheckLooks
  <2>4. \A x \in here : x[3] = 0 => x = zero
    BY <1>2, <1>4
  <2>5. CASE ~tree[zero].multi
    <3>1. here = {zero}
      <4>1. SUFFICES ASSUME NEW x \in here PROVE x = zero
        BY <2>1
      <4>2. x[3] = 0
        BY <1>2, <1>4, <2>5 DEF Shown
      <4> QED BY <2>4, <4>2
    <3>2. scan_device(tree, behind, b, d) = first \o <<>>
      BY <1>2, <1>6, <2>2, <2>5 DEF scan_device
    <3>3. first \in Seq(Listed)
      BY <2>3 DEF Looked
    <3>4. scan_device(tree, behind, b, d) = first
      BY <3>2, <3>3, ConcatEmptySeq
    <3> QED BY <1>1, <2>3, <3>1, <3>4
  <2>6. CASE tree[zero].multi
    <3>1. PICK m : m = NumFunctions - 1
      OBVIOUS
    <3>2. m \in Nat
      BY <1>3, <1>4, <2>1, <3>1, PciAssumption
    <3>3. PICK p : p = [f \in 1..m |->
                          IF <<b, d, f>> \in DOMAIN tree
                            THEN check_function(tree, behind, <<b, d, f>>) ELSE <<>>]
      OBVIOUS
    <3>4. scan_device(tree, behind, b, d) = first \o Joined(m, p)
      BY <1>2, <1>6, <2>2, <2>6, <3>1, <3>3 DEF scan_device
    <3>5. PICK places : places = [f \in 1..m |-> {x \in here : x[3] = f}]
      OBVIOUS
    <3>6. ASSUME NEW f \in 1..m PROVE Looked(tree, n + 1, b, places[f], p[f])
      <4>1. PICK at : at = <<b, d, f>>
        OBVIOUS
      <4>2. at[1] = b /\ at[2] = d /\ at[3] = f
        BY <4>1
      <4>3. \A x \in places[f] : x = at
        BY <1>4, <3>5, <4>1
      <4>4. CASE at \in DOMAIN tree
        <5>1. at \in Shown(tree)
          BY <1>2, <1>6, <2>6, <4>2, <4>4 DEF Shown
        <5>2. at \in places[f]
          BY <1>1, <3>5, <4>2, <5>1 DEF PlacesOf
        <5>3. places[f] = {at} /\ p[f] = check_function(tree, behind, at)
          BY <3>3, <4>1, <4>3, <4>4, <5>2
        <5>4. Looked(tree, n + 1, at[1], {at}, check_function(tree, behind, at))
          BY <5>1, CheckLooks
        <5> QED BY <4>2, <5>3, <5>4
      <4>5. CASE at \notin DOMAIN tree
        <5>1. places[f] = {}
          BY <1>4, <3>5, <4>3, <4>5
        <5>2. p[f] = <<>>
          BY <3>3, <4>1, <4>5
        <5> QED BY <5>1, <5>2, NothingLooks
      <4> QED BY <4>4, <4>5
    <3>7. /\ \A f \in 1..m : places[f] \in SUBSET PlacesOf(tree, b)
          /\ \A f, g \in 1..m : f # g => places[f] \cap places[g] = {}
      BY <1>1, <3>5
    <3>8. PICK rest : rest = UNION {places[f] : f \in 1..m}
      OBVIOUS
    <3>9. Looked(tree, n + 1, b, rest, Joined(m, p))
      BY <3>2, <3>6, <3>7, <3>8, LooksInTurns
    <3>10. here = {zero} \cup rest /\ {zero} \cap rest = {}
      <4>1. \A f \in 1..m : \A x \in places[f] : x \in here /\ x # zero
        BY <1>3, <3>5
      <4>2. ASSUME NEW x \in here, x # zero PROVE x \in rest
        <5>1. x[3] \in 1..m
          BY <1>4, <2>4, <3>1, <4>2
        <5>2. x \in places[x[3]]
          BY <3>5, <5>1
        <5> QED BY <3>8, <5>1, <5>2
      <4> QED BY <2>1, <3>8, <4>1, <4>2
    <3>11. {zero} \in SUBSET PlacesOf(tree, b) /\ rest \in SUBSET PlacesOf(tree, b)
      BY <1>1, <3>10
    <3>12. Looked(tree, n + 1, b, {zero} \cup rest, first \o Joined(m, p))
      BY <2>3, <3>9, <3>10, <3>11, LooksInTurn
    <3> QED BY <1>1, <3>4, <3>10, <3>12
  <2> QED BY <2>5, <2>6
<1> QED BY <1>5, <1>6

\* scan_bus walks from its bus, however deep it may nest.
LEMMA BusWalks ==
  ASSUME NEW tree, IsTree(tree), Sound(tree), NEW bus \in Buses
  PROVE  Walked(tree, MaxNesting, bus, scan_bus(tree, bus))
<1> DEFINE Level(nesting, behind) ==
      [b \in 1..NumBuses |->
         IF nesting = 0 THEN <<StackOverflow>>
         ELSE Joined(NumDevices, [d \in 1..NumDevices |->
                scan_device(tree, behind, b - 1, d - 1)])]
           Solves(f, k) == f = [nesting \in 0..k |-> Level(nesting, f[nesting - 1])]
<1>1. PICK scan : /\ scan_bus(tree, bus) = scan[MaxNesting][bus + 1]
                  /\ scan = CHOOSE f : Solves(f, MaxNesting)
  BY DEF scan_bus
<1>2. \A b \in Buses : b + 1 \in 1..NumBuses /\ (b + 1) - 1 = b
  BY PciAssumption DEF Buses
<1>3. \A behind : \A b \in Buses : Level(0, behind)[b + 1] = <<StackOverflow>>
  BY <1>2
<1>4. ASSUME NEW n \in Nat, n # 0, NEW behind, NEW b \in Buses
      PROVE  Level(n, behind)[b + 1] = Joined(NumDevices, [d \in 1..NumDevices |->
                                                scan_device(tree, behind, b, d - 1)])
  BY <1>2, <1>4, Zenon
<1>5. \A one, other : Level(0, one) = Level(0, other)
  OBVIOUS
<1> HIDE DEF Level, Solves
<1>6. MaxNesting \in Nat /\ NumDevices \in Nat
  BY PciAssumption
<1>7. PICK solved : solved = {k \in 0..MaxNesting : \E f : Solves(f, k)}
  OBVIOUS
<1>8. 0 \in solved
  <2>1. PICK f : f = [nesting \in 0..0 |-> Level(nesting, 0)]
    OBVIOUS
  <2>2. \A nesting \in 0..0 : nesting = 0
    OBVIOUS
  <2>3. Solves(f, 0)
    BY <1>5, <2>1, <2>2 DEF Solves
  <2> QED BY <1>6, <1>7, <2>3
<1>9. ASSUME NEW k \in 0..MaxNesting - 1, k \in solved PROVE k + 1 \in solved
  <2>1. PICK f : Solves(f, k)
    BY <1>7, <1>9
  <2>2. PICK last : last = Level(k + 1, f[k])
    OBVIOUS
  <2>3. PICK h : h = [m \in 0..k + 1 |-> IF m = k + 1 THEN last ELSE f[m]]
    OBVIOUS
  <2>4. ASSUME NEW m \in 0..k + 1
        PROVE  h[m] = Level(m, h[m - 1])
    <3>1. CASE m = k + 1
      <4>1. h[m] = last /\ m - 1 = k /\ h[k] = f[k]
        BY <1>6, <2>3, <3>1
      <4> QED BY <2>2, <3>1, <4>1
    <3>2. CASE m # k + 1
      <4>1. m \in 0..k
        BY <1>6, <3>2
      <4>2. f[m] = Level(m, f[m - 1])
        BY <2>1, <4>1 DEF Solves
      <4>3. h[m] = f[m] /\ (m # 0 => h[m - 1] = f[m - 1])
        BY <1>6, <2>3, <4>1
      <4> QED BY <1>5, <4>2, <4>3
    <3> QED BY <3>1, <3>2
  <2>5. Solves(h, k + 1)
    BY <2>3, <2>4 DEF Solves
  <2> QED BY <1>6, <1>7, <2>5
<1>10. Solves(scan, MaxNesting)
  <2>1. \A k \in 0..MaxNesting : k \in solved
    BY <1>6, <1>8, <1>9, IntervalInduction
  <2>2. MaxNesting \in solved
    BY <1>6, <2>1
  <2> QED BY <1>1, <1>7, <2>2
<1>11. \A n \in 0..MaxNesting : scan[n] = Level(n, scan[n - 1])
  BY <1>10 DEF Solves
<1>12. PICK held : held = {n \in 0..MaxNesting :
                            \A b \in Buses : Walked(tree, n, b, scan[n][b + 1])}
  OBVIOUS
<1>13. 0 \in held
  <2>1. SUFFICES ASSUME NEW b \in Buses PROVE Walked(tree, 0, b, scan[0][b + 1])
    BY <1>6, <1>12
  <2>2. scan[0][b + 1] = <<StackOverflow>>
    BY <1>3, <1>6, <1>11
  <2>3. <<StackOverflow>> \in Seq(Listed) /\ ToSet(<<StackOverflow>>) = {StackOverflow}
    BY OneHolds DEF Listed
  <2>4. ~ (0 >= NumBuses - b)
    BY PciAssumption DEF Buses
  <2> QED BY <2>2, <2>3, <2>4 DEF Walked
<1>14. ASSUME NEW n \in 0..MaxNesting - 1, n \in held PROVE n + 1 \in held
  <2>1. PICK behind : behind = scan[n]
    OBVIOUS
  <2>2. n \in Nat /\ \A c \in Buses : Walked(tree, n, c, behind[c + 1])
    BY <1>6, <1>12, <1>14, <2>1
  <2>3. n + 1 \in 0..MaxNesting /\ (n + 1) - 1 = n /\ n + 1 # 0 /\ n + 1 \in Nat
    BY <1>6
  <2>4. SUFFICES ASSUME NEW b \in Buses PROVE Walked(tree, n + 1, b, scan[n + 1][b + 1])
    BY <1>12, <2>3
  <2>5. scan[n + 1] = Level(n + 1, behind)
    BY <1>11, <2>1, <2>3
  <2>6. PICK p : p = [d \in 1..NumDevices |-> scan_device(tree, behind, b, d - 1)]
    OBVIOUS
  <2>7. scan[n + 1][b + 1] = Joined(NumDevices, p)
    BY <1>4, <2>3, <2>5, <2>6
  <2>8. PICK places : places = [d \in 1..NumDevices |-> {x \in PlacesOf(tree, b) : x[2] = d - 1}]
    OBVIOUS
  <2>9. ASSUME NEW d \in 1..NumDevices PROVE Looked(tree, n + 1, b, places[d], p[d])
    <3>1. PICK e \in 0..NumDevices - 1 : e = d - 1
      BY <1>6
    <3>2. Looked(tree, n + 1, b, {x \in PlacesOf(tree, b) : x[2] = e},
                 scan_device(tree, behind, b, e))
      BY <2>2, DeviceLooks
    <3> QED BY <2>6, <2>8, <3>1, <3>2
  <2>10. /\ \A d \in 1..NumDevices : places[d] \in SUBSET PlacesOf(tree, b)
         /\ \A d, e \in 1..NumDevices : d # e => places[d] \cap places[e] = {}
    BY <1>6, <2>8
  <2>11. UNION {places[d] : d \in 1..NumDevices} = PlacesOf(tree, b)
    <3>1. \A d \in 1..NumDevices : places[d] \subseteq PlacesOf(tree, b)
      BY <2>10
    <3>2. ASSUME NEW x \in PlacesOf(tree, b)
          PROVE  \E d \in 1..NumDevices : x \in places[d]
      <4>1. x \in (0..NumBuses - 1) \X (0..NumDevices - 1) \X (0..NumFunctions - 1)
        BY <3>2 DEF PlacesOf, Shown, IsTree
      <4>2. x[2] \in 0..NumDevices - 1
        BY <4>1
      <4>3. x[2] + 1 \in 1..NumDevices /\ (x[2] + 1) - 1 = x[2]
        BY <1>6, <4>2
      <4> QED BY <2>8, <4>3
    <3> QED BY <3>1, <3>2
  <2>12. Looked(tree, n + 1, b, PlacesOf(tree, b), Joined(NumDevices, p))
    <3>1. Looked(tree, n + 1, b, UNION {places[d] : d \in 1..NumDevices}, Joined(NumDevices, p))
      BY <1>6, <2>3, <2>9, <2>10, LooksInTurns
    <3> QED BY <2>11, <3>1
  <2>13. UNION {Entered(tree, at) : at \in PlacesOf(tree, b)} = FunctionsFrom(tree, b)
    BY EntersAll DEF PlacesOf
  <2> QED BY <2>7, <2>12, <2>13 DEF Looked, Walked
<1>15. \A n \in 0..MaxNesting : n \in held
  BY <1>6, <1>13, <1>14, IntervalInduction
<1>16. MaxNesting \in held
  BY <1>6, <1>15
<1> QED BY <1>1, <1>12, <1>16

\* device_list has the walk's functions, from the last one entered to the first.
LEMMA ListWalks ==
  ASSUME NEW tree, IsTree(tree), Sound(tree)
  PROVE  /\ StackOverflow \in ToSet(DeviceList(tree)) => MaxNesting < NumBuses
         /\ StackOverflow \notin ToSet(DeviceList(tree)) =>
              LET reached == {at \in Shown(tree) : at[1] \in Reached(tree)}
              IN  /\ ToSet(DeviceList(tree)) = reached
                  /\ Len(DeviceList(tree)) = Cardinality(reached)
<1>1. 0 \in Buses /\ MaxNesting \in Nat /\ NumBuses \in Nat
  BY PciAssumption DEF Buses
<1>2. PICK w : w = scan_bus(tree, 0)
  OBVIOUS
<1>3. PICK list : list = DeviceList(tree)
  OBVIOUS
<1>4. Walked(tree, MaxNesting, 0, w)
  BY <1>1, <1>2, BusWalks
<1>5. PICK n \in Nat : n = Len(w)
  BY <1>4 DEF Walked
<1>6. DOMAIN w = 1..n /\ list = [i \in 1..n |-> w[(n - i) + 1]]
  BY <1>2, <1>3, <1>4, <1>5 DEF DeviceList, Reverse, Walked
<1>7. \A i \in 1..n : (n - i) + 1 \in 1..n /\ (n - ((n - i) + 1)) + 1 = i
  OBVIOUS
<1>8. DOMAIN list = 1..n /\ Len(list) = n
  BY <1>6
<1>9. ToSet(list) = ToSet(w)
  <2>1. ASSUME NEW x \in ToSet(list) PROVE x \in ToSet(w)
    <3>1. PICK i \in 1..n : x = list[i]
      BY <1>8 DEF ToSet
    <3>2. x = w[(n - i) + 1]
      BY <1>6, <3>1
    <3> QED BY <1>6, <1>7, <3>2 DEF ToSet
  <2>2. ASSUME NEW x \in ToSet(w) PROVE x \in ToSet(list)
    <3>1. PICK i \in 1..n : x = w[i]
      BY <1>6 DEF ToSet
    <3>2. PICK j \in 1..n : j = (n - i) + 1 /\ (n - j) + 1 = i
      BY <1>7
    <3>3. x = list[j]
      BY <1>6, <3>1, <3>2
    <3> QED BY <1>8, <3>3 DEF ToSet
  <2> QED BY <2>1, <2>2
<1>10. PICK reached : reached = {at \in Shown(tree) : at[1] \in Reached(tree)}
  OBVIOUS
<1>11. reached = FunctionsFrom(tree, 0)
  BY <1>10, ReachedIsBehind DEF FunctionsFrom
<1>12. ASSUME StackOverflow \notin ToSet(w) PROVE n = Cardinality(reached) /\ ToSet(w) = reached
  <2>1. IsInjective(w) /\ ToSet(w) = reached
    BY <1>4, <1>11, <1>12 DEF Walked
  <2>2. w \in Seq(Listed)
    BY <1>4 DEF Walked
  <2>3. w \in [1..n -> reached]
    <3>1. \A i \in 1..n : w[i] \in reached
      BY <1>6, <2>1 DEF ToSet
    <3>2. w \in [1..n -> Listed]
      BY <1>5, <2>2
    <3> QED BY <3>1, <3>2
  <2>4. w \in Bijection(1..n, reached)
    <3>1. \A i, j \in 1..n : w[i] = w[j] => i = j
      BY <1>6, <2>1 DEF IsInjective
    <3>2. \A x \in reached : \E i \in 1..n : w[i] = x
      BY <1>6, <2>1 DEF ToSet
    <3> QED BY <2>3, <3>1, <3>2 DEF Bijection, Injection, Surjection, IsInjective
  <2>5. ExistsBijection(1..n, reached)
    BY <2>4 DEF ExistsBijection
  <2> QED BY <2>1, <2>5, FS_CountingElements
<1>13. StackOverflow \in ToSet(w) => MaxNesting < NumBuses
  BY <1>1, <1>4 DEF Walked
<1> QED BY <1>3, <1>8, <1>9, <1>10, <1>12, <1>13

\* The list the kernel goes through is the walk's, and it goes on if the stack was not full.
ListInv ==
  ide.step # "off" =>
    /\ device_list = DeviceList(computer.tree)
    /\ ide.step = "lost" <=> StackOverflow \in ToSet(device_list)

LEMMA ListBegins == DiskInit => ListInv
BY DEF DiskInit, IdeInit, ListInv

LEMMA ListKeeps == DiskInv /\ ListInv /\ [DiskNext]_diskVars => ListInv'
<1> SUFFICES ASSUME DiskInv, ListInv, [DiskNext]_diskVars PROVE ListInv'
  OBVIOUS
<1>1. ide \in [at : Sets \cup {NoController}, n : DriveNumbers,
              step : {"off", "lost", "next", "identify", "status", "busy", "data", "ready"}]
  BY DEF DiskInv, IdeInv, IdeTyped
<1>2. ASSUME computer' = computer, device_list' = device_list, ide' = ide PROVE ListInv'
  BY <1>2 DEF ListInv
<1>3. ASSUME computer' = computer, device_list' = device_list,
             ide.step \notin {"off", "lost"}, ide'.step \notin {"off", "lost"}
      PROVE  ListInv'
  BY <1>3 DEF ListInv
<1>4. CASE pci_initialize
  <2>1. /\ computer' = computer /\ device_list' = DeviceList(computer.tree)
        /\ ide' = [ide EXCEPT !.step = IF StackOverflow \in ToSet(device_list') THEN "lost"
                                      ELSE "next"]
    BY <1>4 DEF pci_initialize
  <2>2. ide'.step = IF StackOverflow \in ToSet(device_list') THEN "lost" ELSE "next"
    BY <1>1, <2>1
  <2> QED BY <2>1, <2>2 DEF ListInv
<1>5. CASE initialize_channels
  <2>1. /\ computer' = computer /\ device_list' = device_list /\ ide.step = "next"
        /\ ide' = [at |-> Head(controllers), n |-> 0, step |-> "identify"]
    BY <1>5 DEF initialize_channels
  <2> QED BY <1>3, <2>1
<1>6. \A s \in STRING : [ide EXCEPT !.step = s].step = s
  BY <1>1
<1>7. Advanced.step \in {"next", "identify"}
  BY <1>1 DEF Advanced
<1>8. CASE initialize_drive
  <2>1. computer' = computer /\ device_list' = device_list
    BY <1>8 DEF initialize_drive, Identify, FirstStatus, Signature, IdentifyData
  <2>2. ide.step \in {"identify", "status", "busy", "data"}
    BY <1>8 DEF initialize_drive, Identify, FirstStatus, Signature, IdentifyData
  <2>3. \/ ide' = Advanced
        \/ \E s \in {"status", "busy", "data"} : ide' = [ide EXCEPT !.step = s]
    BY <1>8 DEF initialize_drive, Identify, FirstStatus, Signature, IdentifyData
  <2>4. ide'.step \notin {"off", "lost"}
    <3>1. CASE ide' = Advanced
      BY <1>7, <3>1
    <3>2. ASSUME NEW s \in {"status", "busy", "data"}, ide' = [ide EXCEPT !.step = s]
          PROVE  ide'.step \notin {"off", "lost"}
      <4>1. ide'.step = s
        BY <1>1, <3>2
      <4> QED BY <4>1
    <3> QED BY <2>3, <3>1, <3>2
  <2> QED BY <1>3, <2>1, <2>2, <2>4
<1>9. CASE IdeInitialized
  <2>1. /\ computer' = computer /\ device_list' = device_list /\ ide.step = "next"
        /\ ide' = [ide EXCEPT !.step = "ready"]
    BY <1>9 DEF IdeInitialized
  <2> QED BY <1>3, <1>6, <2>1
<1>10. CASE read_sectors
  BY <1>2, <1>10 DEF read_sectors, CheckCall, WriteRegister, StartRead, ReadSector
<1>11. CASE disk_initialize
  BY <1>2, <1>11 DEF disk_initialize, ideStill
<1>12. CASE read_gpt
  BY <1>2, <1>12
  DEF read_gpt, ReadHeader, LoadEntries, EntriesLoaded, ReadEntry, LastEntry, ideStill, ideVars
<1>13. CASE SectorsRead
  BY <1>2, <1>13 DEF SectorsRead, ideStill
<1>14. CASE SomeDriveAnswers
  BY <1>2, <1>14 DEF SomeDriveAnswers, DriveAnswers
<1>15. CASE Asked
  BY <1>2, <1>15 DEF Asked, disk_read_sectors, ideStill
<1>16. CASE UNCHANGED diskVars
  BY <1>2, <1>16 DEF diskVars, ideVars
<1> QED BY <1>4, <1>5, <1>8, <1>9, <1>10, <1>11, <1>12, <1>13, <1>14, <1>15, <1>16
        DEF DiskNext, Kernel, Ide

\* The walk that scans the bus behind a bridge before the bridge itself enters every
\* function that can be reached exactly once, on every tree whose bridges lead to higher
\* buses of their own; and the stack is full only where it holds fewer buses behind one
\* another than there are (pci.c: scan_bus, scan_device, check_function).
THEOREM FunctionsEnteredOnce == DiskSpec => []PciOnce
<1>1. DiskInv /\ ListInv => PciOnce
  <2>1. SUFFICES ASSUME DiskInv, ListInv, Sound(computer.tree), ide.step # "off" PROVE PciOnce
    BY DEF PciOnce
  <2>2. IsTree(computer.tree)
    BY <2>1, IdeAssumption DEF DiskInv, IdeInv, IdeTyped
  <2>3. PICK tree : tree = computer.tree
    OBVIOUS
  <2>4. /\ StackOverflow \in ToSet(DeviceList(tree)) => MaxNesting < NumBuses
        /\ StackOverflow \notin ToSet(DeviceList(tree)) =>
             LET reached == {at \in Shown(tree) : at[1] \in Reached(tree)}
             IN  /\ ToSet(DeviceList(tree)) = reached
                 /\ Len(DeviceList(tree)) = Cardinality(reached)
    BY <2>1, <2>2, <2>3, ListWalks
  <2>5. /\ device_list = DeviceList(tree)
        /\ ide.step = "lost" <=> StackOverflow \in ToSet(DeviceList(tree))
    BY <2>1, <2>3 DEF ListInv
  <2> QED BY <2>3, <2>4, <2>5 DEF PciOnce
<1>2. DiskSpec => []ListInv
  <2>1. DiskInit => ListInv
    BY ListBegins
  <2>2. DiskInv /\ ListInv /\ [DiskNext]_diskVars => ListInv'
    BY ListKeeps
  <2> QED BY <2>1, <2>2, DisksInvariant, PTL DEF DiskSpec
<1> QED BY <1>1, <1>2, DisksInvariant, PTL
=============================================================================
