------------------------------- MODULE IdeDrives -------------------------------
(***************************************************************************)
(* The IDE driver (kernel/arch/i686/ide.c): looking for the four drives of *)
(* every controller the walk over the PCI buses found, and reading sectors *)
(* from them through the registers the two drives of a channel share.      *)
(*                                                                         *)
(* A drive works on its own: the driver's polling loops are the guards of  *)
(* its steps.  While it is busy or holds data for the driver it takes no   *)
(* register and no command, and ends with an error (ERR) or with a device  *)
(* fault (DF) alone.  A byte has ByteSpan values here, of 256, and the     *)
(* widths made of bytes follow: a sector's address is three and a nibble.  *)
(***************************************************************************)
EXTENDS PciBus

CONSTANTS
  ByteSpan,    \* 256: values of a byte
  NibbleSpan,  \* 16: of a nibble
  Computers    \* [tree, drives, reserved, gpt, memory]; see IdeAssumption, DiskAssumption

\* How many values 1 to 4 bytes have.
Width(bytes) ==
  LET two == ByteSpan * ByteSpan
  IN <<ByteSpan, two, two * ByteSpan, two * two>>[bytes]
MaxLba28 == NibbleSpan * Width(3) - 1

\* What is at a place of a channel.  IDENTIFY ends with an error on a broken drive, and with
\* a device fault alone on a faulting one; "floating" is a channel that reads 0xFF.
\* drives[at][n] is drive n of the controller at `at'; `reserved' is what a register that
\* belongs to no drive reads like, a place where nothing is (0) or a floating one.
Kinds == {"PATA", "broken PATA", "faulting PATA", "PATAPI", "SATA", "none", "floating"}
Absent == [kind |-> "none", size48 |-> 0, size28 |-> 0, bad |-> {}]
DriveNumbers == 0..3
Channels == 0..1
ChannelOf(n) == n \div 2

Drives == [kind : Kinds, size48 : Nat, size28 : Nat, bad : SUBSET Nat]

NoController == <<>>

\* The IDE controllers the walk over the buses lists; none if the stack is full.
ControllersOf(tree) ==
  LET list == DeviceList(tree)
  IN IF StackOverflow \in ToSet(list) THEN <<>>
     ELSE SelectSeq(list, LAMBDA at : IsIde(tree[at]))

ASSUME IdeAssumption ==
  /\ ByteSpan \in Nat /\ ByteSpan > 1 /\ NibbleSpan \in Nat /\ NibbleSpan > 0
  /\ \A c \in Computers :
       /\ IsTree(c.tree)
       /\ c.drives \in [DOMAIN c.drives -> [DriveNumbers -> Drives]]
       /\ NoController \notin DOMAIN c.drives
       /\ c.reserved \in {"none", "floating"}
       /\ ControllersOf(c.tree) \in Seq(DOMAIN c.drives)

VARIABLES
  computer,     \* the tree, the drives, a reserved register, the disk's table, the memory
  device_list,  \* pci.c's list
  controllers,  \* the IDE controllers on it that are still to initialize, in order
  channels,     \* ide.c's, and the registers of the channel
  drives,       \* ide.c's
  working,      \* what the drive of each number does: [state, sector, left]
  ide,          \* the function that runs: [at, n, step]
  reader,       \* a call of read_sectors: [n, lba, sectors, buffer, written, step]
  unread        \* history: channels with a command sent for a count of 0, which is ByteSpan
                \* sectors to the drive and none to the call

ideVars == <<computer, device_list, controllers, channels, drives, working, ide, reader,
             unread>>

Idle == [state |-> "idle", sector |-> 0, left |-> 0]
NoChannel == [selected_dev |-> 255, native |-> FALSE, drive |-> 0, high |-> 0, count |-> 0,
              lba |-> <<0, 0, 0>>]
NoDrive == [present |-> FALSE, type |-> "PATA", size |-> 0]
NoReader == [n |-> 0, lba |-> 0, sectors |-> 0, buffer |-> <<>>, written |-> 0, step |-> "none"]

IdeInit ==
  /\ computer \in Computers
  /\ device_list = <<>> /\ controllers = <<>>
  /\ channels = [c \in Channels |-> NoChannel]
  /\ drives = [n \in DriveNumbers |-> NoDrive]
  /\ working = [n \in DriveNumbers |-> Idle]
  /\ ide = [at |-> NoController, n |-> 0, step |-> "off"]
  /\ reader = NoReader /\ unread = {}

\* The drive the controller's registers reach: the one of the channel that its drive
\* register names.  In native mode the kernel takes the low bit of the BAR for part of
\* the address: it reaches no drive, and reads its status from a reserved register.
Selected(c) == 2 * c + channels[c].drive
There(n) == IF channels[ChannelOf(n)].native
              THEN [Absent EXCEPT !.kind = computer.reserved]
              ELSE computer.drives[ide.at][n]
Selecting(n) == Selected(ChannelOf(n))
Status(n) == LET s == Selecting(n)
             IN CASE There(s).kind = "floating" -> "busy"
                  [] There(s).kind = "none" -> "none"
                  [] OTHER -> working[s].state

\* The signature a drive that is no hard disk leaves after IDENTIFY.
TypeBySignature(kind) ==
  CASE kind = "PATAPI" -> "PATAPI" [] kind = "SATA" -> "SATA" [] OTHER -> "PATA"

-----------------------------------------------------------------------------

\* pci_initialize's walk, and the controllers its loop over the list will come to.
pci_initialize ==
  /\ ide.step = "off"
  /\ device_list' = DeviceList(computer.tree)
  /\ controllers' = ControllersOf(computer.tree)
  /\ ide' = [ide EXCEPT !.step = IF StackOverflow \in ToSet(device_list') THEN "lost"
                                 ELSE "next"]
  /\ UNCHANGED <<computer, channels, drives, working, reader, unread>>

\* ide_initialize of the next controller: nothing selected, the ports of each channel.
initialize_channels ==
  /\ ide.step = "next" /\ controllers # <<>>
  /\ ide' = [at |-> Head(controllers), n |-> 0, step |-> "identify"]
  /\ controllers' = Tail(controllers)
  /\ LET progIf == computer.tree[Head(controllers)].progIf
     IN channels' = [c \in Channels |->
          [channels[c] EXCEPT !.selected_dev = 255,
                              !.native = (progIf \div (IF c = 0 THEN 1 ELSE 4)) % 2 = 1]]
  /\ working' = [n \in DriveNumbers |-> Idle]
  /\ UNCHANGED <<computer, device_list, drives, reader, unread>>

\* Fault: the drive is remembered as selected and the controller not told.
SelectSilently(n) == [channels EXCEPT ![ChannelOf(n)].selected_dev = n % 2]

\* select_device keeps which drive it selected last, and tells the controller of another.
select_device(n) ==
  LET c == ChannelOf(n)
  IN IF channels[c].selected_dev = n % 2 THEN channels
     ELSE [channels EXCEPT ![c].selected_dev = n % 2, ![c].drive = n % 2, ![c].high = 0]

\* initialize_drive: select, clear the registers, IDENTIFY.
Identify ==
  /\ ide.step = "identify"
  /\ channels' = [select_device(ide.n) EXCEPT ![ChannelOf(ide.n)].count = 0,
                                              ![ChannelOf(ide.n)].lba = <<0, 0, 0>>]
  /\ drives' = [drives EXCEPT ![ide.n].present = FALSE]
  /\ LET s == 2 * ChannelOf(ide.n) + channels'[ChannelOf(ide.n)].drive
     IN working' = [working EXCEPT ![s] = [Idle EXCEPT !.state = "busy"]]
  /\ ide' = [ide EXCEPT !.step = "status"]
  /\ UNCHANGED <<computer, device_list, controllers, reader, unread>>

\* The next drive of the controller, or the next controller.
Advanced == IF ide.n = 3 THEN [ide EXCEPT !.step = "next"]
            ELSE [ide EXCEPT !.n = @ + 1, !.step = "identify"]

\* The first status: 0 where no drive is.
FirstStatus ==
  /\ ide.step = "status"
  /\ IF Status(ide.n) = "none" THEN ide' = Advanced /\ UNCHANGED drives
     ELSE ide' = [ide EXCEPT !.step = "busy"] /\ drives' = [drives EXCEPT ![ide.n].present = TRUE]
  /\ UNCHANGED <<computer, device_list, controllers, channels, working, reader, unread>>

\* Not busy any more: the signature says the type; only a hard disk is kept.
Signature ==
  /\ ide.step = "busy" /\ Status(ide.n) # "busy"
  /\ LET type == TypeBySignature(There(Selecting(ide.n)).kind)
     IN IF type = "PATA"
          THEN /\ drives' = [drives EXCEPT ![ide.n].type = type]
               /\ ide' = [ide EXCEPT !.step = "data"]
          ELSE /\ drives' = [drives EXCEPT ![ide.n] =
                               [present |-> FALSE, type |-> type, size |-> 0]]
               /\ ide' = Advanced
  /\ UNCHANGED <<computer, device_list, controllers, channels, working, reader, unread>>

\* The size: the 48-bit one if the drive has and fills it, or else the 28-bit one.
SizeOf(d) == IF d.size48 # 0 THEN d.size48 ELSE d.size28

\* Fault: polling ends with data only.
IdentifyDataOnly ==
  /\ ide.step = "data" /\ Status(ide.n) = "data"
  /\ drives' = [drives EXCEPT ![ide.n].size = SizeOf(There(Selecting(ide.n)))]
  /\ working' = [working EXCEPT ![Selecting(ide.n)] = Idle]
  /\ ide' = Advanced
  /\ UNCHANGED <<computer, device_list, controllers, channels, reader, unread>>

\* Data or an error: with an error the drive stays present, its size what it was.  A device
\* fault without an error ends the loop as little as a busy drive does.
IdentifyData ==
  /\ ide.step = "data" /\ Status(ide.n) \in {"data", "error"}
  /\ drives' = IF Status(ide.n) = "error" THEN drives
               ELSE [drives EXCEPT ![ide.n].size = SizeOf(There(Selecting(ide.n)))]
  /\ working' = [working EXCEPT ![Selecting(ide.n)] = Idle]
  /\ ide' = Advanced
  /\ UNCHANGED <<computer, device_list, controllers, channels, reader, unread>>

\* The loop over device_list ends.
IdeInitialized ==
  /\ ide.step = "next" /\ controllers = <<>>
  /\ ide' = [ide EXCEPT !.step = "ready"]
  /\ UNCHANGED <<computer, device_list, controllers, channels, drives, working, reader,
                 unread>>

initialize_drive == Identify \/ FirstStatus \/ Signature \/ IdentifyData

ide_get_drive(n) == IF drives[n].present THEN {n} ELSE {}

-----------------------------------------------------------------------------
(* read_sectors.  A call is a record in reader, and its result the state   *)
(* it is left in: the caller takes it with Return.                         *)

Call(n, sectors, lba) ==
  [n |-> n, lba |-> lba % Width(4), sectors |-> sectors % Width(1), buffer |-> <<>>,
   written |-> 0, step |-> "call"]

\* What a call gives: the sectors it read before an error, or all; the function ends
\* without a return then, and the build leaves the count in the register.
Result == Len(reader.buffer)
Return == reader.step = "done" /\ reader' = NoReader

\* Fault: the address's highest bits are left out.
NoHighBits(lba) == 0

\* The part of an address that goes to the drive register, and the bytes of the rest.
HighBits(lba) == (lba \div Width(3)) % NibbleSpan
LbaBytes(lba) ==
  <<lba % ByteSpan, (lba \div ByteSpan) % ByteSpan, (lba \div Width(2)) % ByteSpan>>

\* The sector that the drive takes these for.
Addressed(lba, high) ==
  lba[1] + ByteSpan * lba[2] + Width(2) * lba[3] + Width(3) * high

\* Registers are written for a drive that is there and an address that fits them.
CheckCall ==
  /\ reader.step = "call"
  /\ reader' = [reader EXCEPT
       !.step = IF ~drives[reader.n].present \/ reader.lba > MaxLba28 THEN "done"
                ELSE "registers"]
  /\ UNCHANGED <<computer, device_list, controllers, channels, drives, working, ide, unread>>

\* The channel's registers behind the k-th write: the drive, the count, three of the address.
Registers == 5
Written(k) ==
  LET c == ChannelOf(reader.n)
  IN CASE k = 1 -> [channels EXCEPT ![c].drive = reader.n % 2, ![c].high = HighBits(reader.lba)]
       [] k = 2 -> [channels EXCEPT ![c].count = reader.sectors]
       [] OTHER -> [channels EXCEPT ![c].lba[k - 2] = LbaBytes(reader.lba)[k - 2]]

\* The registers one after another; a selected drive that is at something takes none of them.
WriteRegister ==
  /\ reader.step = "registers" /\ reader.written < Registers
  /\ channels' = IF Status(reader.n) \in {"busy", "data"} THEN channels
                 ELSE Written(reader.written + 1)
  /\ reader' = [reader EXCEPT !.written = @ + 1]
  /\ UNCHANGED <<computer, device_list, controllers, drives, working, ide, unread>>

\* wait_dev_nbsy, and the command: a drive with data to give goes on with that instead.
StartRead ==
  /\ reader.step = "registers" /\ reader.written = Registers /\ Status(reader.n) # "busy"
  /\ LET c == ChannelOf(reader.n)
         asked == channels[c]
     IN /\ working' = IF Status(reader.n) = "data" THEN working
                      ELSE [working EXCEPT ![Selected(c)] =
                        [state |-> "busy", sector |-> Addressed(asked.lba, asked.high),
                         left |-> IF asked.count = 0 THEN Width(1) ELSE asked.count]]
        /\ unread' = IF reader.sectors = 0 THEN unread \cup {c} ELSE unread
  /\ reader' = [reader EXCEPT !.step = IF reader.sectors = 0 THEN "done" ELSE "poll"]
  /\ UNCHANGED <<computer, device_list, controllers, channels, drives, ide>>

\* A sector is read when its data is there; an error or a device fault ends the call.
ReadSector ==
  /\ reader.step = "poll" /\ Status(reader.n) \in {"data", "error", "fault"}
  /\ LET s == Selecting(reader.n)
         buffer == Append(reader.buffer, <<s, working[s].sector>>)
         last == Len(buffer) = reader.sectors
     IN IF Status(reader.n) # "data"
          THEN reader' = [reader EXCEPT !.step = "done"] /\ UNCHANGED working
          ELSE /\ reader' = [reader EXCEPT !.buffer = buffer,
                                           !.step = IF last THEN "done" ELSE "poll"]
               /\ working' = [working EXCEPT ![s] =
                    IF working[s].left = 1 THEN Idle
                    ELSE [state |-> "busy", sector |-> @.sector + 1, left |-> @.left - 1]]
  /\ UNCHANGED <<computer, device_list, controllers, channels, drives, ide, unread>>

read_sectors == CheckCall \/ WriteRegister \/ StartRead \/ ReadSector

\* How a drive can end IDENTIFY, and how the sector it is at.
Identified(kind) ==
  CASE kind = "PATA" -> "data" [] kind = "faulting PATA" -> "fault" [] OTHER -> "error"
Fails(d, sector) ==
  d.kind # "PATA" \/ sector \in d.bad \/ sector >= SizeOf(d) \/ sector > MaxLba28
Outcomes(n) ==
  IF working[n].left = 0 THEN {Identified(There(n).kind)}
  ELSE IF Fails(There(n), working[n].sector) THEN {"error", "fault"}
  ELSE {"data"}

\* A drive comes to an end with IDENTIFY, or with the sector it is at.
DriveAnswers(n) ==
  /\ working[n].state = "busy" /\ There(n).kind \notin {"none", "floating"}
  /\ \E state \in Outcomes(n) : working' = [working EXCEPT ![n].state = state]
  /\ UNCHANGED <<computer, device_list, controllers, channels, drives, ide, reader, unread>>

Ide == pci_initialize \/ initialize_channels \/ initialize_drive \/ IdeInitialized \/ read_sectors
=============================================================================
