------------------------------- MODULE MCDevices -------------------------------
(***************************************************************************)
(* The machines the kernel's start is checked on: one part of the run goes *)
(* through the PS/2 controller and its interrupts, the other through the   *)
(* PCI buses, the IDE drives and the partitions.                           *)
(***************************************************************************)
EXTENDS PS2Controller, Partitions, TLC

VARIABLE part

-----------------------------------------------------------------------------
(* PS/2: every pair of devices, with a self test that resets and one that  *)
(* does not; one channel; trouble; and controllers that are not there.     *)

Machine(p1, p2, dual, resets, trouble) ==
  [pic |-> TRUE, ps2 |-> TRUE, dual |-> dual, resets |-> resets, port1 |-> p1, port2 |-> p2,
   trouble |-> trouble]
Usual == Machine("keyboard", "mouse", TRUE, FALSE, "none")

MCMachines ==
  {Machine(p1, p2, TRUE, resets, "none") :
     p1 \in Attached, p2 \in Attached, resets \in BOOLEAN}
  \cup {Machine(p1, "none", FALSE, TRUE, "none") : p1 \in {"keyboard", "none"}}
  \cup {Machine("keyboard", p2, TRUE, TRUE, t) :
          p2 \in {"mouse", "none"}, t \in {"late answer", "busy", "early key"}}
  \cup {[Usual EXCEPT !.pic = FALSE], [Usual EXCEPT !.ps2 = FALSE]}

-----------------------------------------------------------------------------
(* PCI: functions at any of some places on bus 0 and bus 1, each of which  *)
(* may have function 0 or not; a bridge to bus 1 or to its own; and three  *)
(* bridges, to buses of their own, to the same one, or to one another's.   *)

Plain(multi) == Function(2, 0, multi, 0, 0)
IdeController(progIf) == Function(1, 1, TRUE, 0, progIf)
Bridge(multi, to) == Function(6, 4, multi, to, 0)
Places == {<<0, 0, 0>>, <<0, 0, 1>>, <<0, 1, 0>>, <<1, 0, 0>>, <<1, 0, 1>>, <<1, 1, 1>>}

PlainTrees == {[at \in places |-> Plain(multi)] : places \in SUBSET Places, multi \in BOOLEAN}
BridgeTrees ==
  {(at :> Bridge(multi, to)) @@ [place \in places |-> Plain(TRUE)] :
     places \in SUBSET (Places \ {<<0, 0, 0>>}),
     at \in {<<0, 0, 0>>, <<0, 1, 1>>}, multi \in BOOLEAN, to \in 0..1}
TwoBridges ==
  {(<<0, 0, 0>> :> Bridge(TRUE, first)) @@ (<<0, 0, 1>> :> Bridge(FALSE, second))
   @@ (<<1, 0, 0>> :> Bridge(FALSE, third)) @@ (<<1, 1, 0>> :> Plain(FALSE))
   @@ (<<2, 1, 0>> :> Plain(FALSE)) @@ (<<3, 1, 0>> :> Plain(TRUE)) :
   first \in 1..2, second \in 1..3, third \in 1..3}

NoTable == [valid |-> FALSE, start |-> 2, entrySize |-> 128, entries |-> <<>>]
NoDrives == [n \in DriveNumbers |-> Absent]
PciComputers ==
  {[tree |-> tree, drives |-> <<>>, reserved |-> "none", gpt |-> NoTable, memory |-> 9] :
     tree \in PlainTrees \cup BridgeTrees \cup TwoBridges}

-----------------------------------------------------------------------------
(* IDE: one controller with any two drives on a channel, in either mode    *)
(* with either reading of a reserved register, and two controllers.        *)

First0 == <<0, 0, 0>>
Second0 == <<0, 1, 0>>
Drive(kind) == [kind |-> kind, size28 |-> 40, size48 |-> 0, bad |-> {}]
Big == [Drive("PATA") EXCEPT !.size28 = 127, !.size48 = 300]
Pair(master, slave) == [n \in DriveNumbers |-> CASE n = 0 -> master [] n = 1 -> slave
                                                  [] OTHER -> Absent]
IdeComputer(progIf, set, table, blocks) ==
  [tree |-> First0 :> IdeController(progIf), drives |-> First0 :> set, reserved |-> "none",
   gpt |-> table, memory |-> blocks]

IdeComputers ==
  {IdeComputer(progIf, Pair(Drive(master), Drive(slave)), NoTable, 9) :
     progIf \in {0, 1, 4}, master \in Kinds, slave \in Kinds}
  \cup {[IdeComputer(progIf, Pair(Drive("PATA"), Absent), NoTable, 9) EXCEPT
            !.reserved = "floating"] : progIf \in {0, 1, 4}}
  \cup {IdeComputer(0, [n \in DriveNumbers |-> IF n = 2 THEN Big ELSE Drive(third)],
                    NoTable, 9) : third \in {"none", "SATA"}}
  \cup {[tree |-> (First0 :> IdeController(0)) @@ (Second0 :> IdeController(0)),
         drives |-> (First0 :> Pair(Drive("PATA"), Drive(k))) @@ (Second0 :> Pair(Drive(k), Big)),
         reserved |-> "none", gpt |-> NoTable, memory |-> 9] : k \in {"PATA", "PATAPI", "none"}}

-----------------------------------------------------------------------------
(* Tables: entries of one, two and four to a sector, used or not; disks of *)
(* 28 and 48 bits, with a sector that cannot be read; memory that runs out *)
(* at each point.                                                          *)

Entry(used, start) == [used |-> used, start |-> start, end |-> start + 9]
Table(size, uses, starts) ==
  [valid |-> TRUE, start |-> 2, entrySize |-> size,
   entries |-> [i \in 1..Len(uses) |-> Entry(uses[i], starts[i])]]

TableComputers ==
  {IdeComputer(0, Pair(Big, Absent), Table(size, uses, <<20, 30, 120, 140, 250>>), 20) :
     size \in {128, 256, 512},
     uses \in {<<TRUE, TRUE, TRUE, TRUE, TRUE>>, <<FALSE, TRUE, FALSE, TRUE>>,
               <<TRUE, FALSE, FALSE, FALSE, TRUE>>, <<>>}}
  \cup {IdeComputer(0, Pair(Absent, [Drive("PATA") EXCEPT !.bad = bad]),
                    Table(128, <<TRUE, TRUE, FALSE, FALSE, TRUE>>, <<20, 30, 0, 0, 30>>), m) :
          bad \in {{}, {1}, {3}, {22}}, m \in {3, 20}}
  \cup {IdeComputer(0, Pair(Drive("PATA"), Drive("PATA")),
                    Table(128, <<TRUE, TRUE>>, <<20, 30>>), m) : m \in 0..8}

MCComputers == PciComputers \cup IdeComputers \cup TableComputers

MCRequests == {[sectors |-> n, lba |-> lba] : n \in {1, 3, 4}, lba \in {0, 2, 7, 8, 9}}

-----------------------------------------------------------------------------

MCInit ==
  /\ part \in {"ps2", "disks"}
  /\ PS2Init /\ DiskInit
  /\ part # "ps2" => machine = [Usual EXCEPT !.pic = FALSE] /\ cpu.requests = {}
  /\ part # "disks" => computer = CHOOSE c \in TableComputers : TRUE

mcVars == <<part, ps2Vars, diskVars>>
Ps2(action) == part = "ps2" /\ action /\ UNCHANGED <<part, diskVars>>
Disks(action) == part = "disks" /\ action /\ UNCHANGED <<part, ps2Vars>>

MCNext == Ps2(PS2Next) \/ Disks(DiskNext)

\* The processor goes on with its program and the interrupts it can take, the controller
\* brings the bytes it has, and a drive comes to an end with what it was asked.
MCFairness ==
  /\ WF_mcVars(Ps2(Processor)) /\ WF_mcVars(Ps2(ControllerBrings))
  /\ WF_mcVars(Disks(Kernel)) /\ WF_mcVars(Disks(SomeDriveAnswers))

MCSpec == MCInit /\ [][MCNext]_mcVars /\ MCFairness
=============================================================================
