--------------------------------- MODULE PciBus ---------------------------------
(***************************************************************************)
(* How the kernel finds the functions on its PCI buses (kernel/arch/i686/  *)
(* pci.c, kernel/util/list.c): a walk that scans the bus behind a bridge   *)
(* before it enters the bridge itself.                                     *)
(*                                                                         *)
(* A tree is the configuration space: a function from the places that hold *)
(* a function, <<bus, device, function>>, to what the walk reads of it; a  *)
(* place outside its domain reads as 0xFFFF.                               *)
(***************************************************************************)
EXTENDS Integers, Sequences, SequencesExt, FiniteSets

CONSTANTS
  NumBuses,      \* of 256
  NumDevices,    \* of 32 on a bus
  NumFunctions,  \* of 8 of a device
  MaxNesting     \* buses behind one another before the stack is full

ASSUME PciAssumption ==
  NumBuses \in Nat \ {0} /\ NumDevices \in Nat /\ NumFunctions \in Nat /\ MaxNesting \in Nat

\* A function that is read: its class and subclass; the bit that says its device has
\* more functions; the bus behind a bridge; the programming interface.
Function(class, subclass, multi, secondary, progIf) ==
  [class |-> class, subclass |-> subclass, multi |-> multi, secondary |-> secondary,
   progIf |-> progIf]

IsBridge(f) == f.class = 6 /\ f.subclass = 4
IsIde(f) == f.class = 1 /\ f.subclass = 1

\* Every bus, device and function is a number of its width.
IsTree(tree) ==
  /\ DOMAIN tree \subseteq (0..NumBuses - 1) \X (0..NumDevices - 1) \X (0..NumFunctions - 1)
  /\ \A at \in DOMAIN tree : IsBridge(tree[at]) => tree[at].secondary \in 0..NumBuses - 1

\* Where the kernel's stack is full.
StackOverflow == <<"overflow">>

\* The sequences pieces[1] to pieces[n], one after another.
Joined(n, pieces) ==
  LET joined[k \in 0..n] == IF k = 0 THEN <<>> ELSE joined[k - 1] \o pieces[k]
  IN joined[n]

\* The functions entered by looking at one place, in order; behind is the walk over
\* each bus, bus 0 first, as it goes from there.
check_function(tree, behind, at) ==
  (IF IsBridge(tree[at]) THEN behind[tree[at].secondary + 1] ELSE <<>>) \o <<at>>

\* Fault: devices without more functions are looked at for more, too, where each is
\* found again as function 0.
ScanEveryFunction(tree, behind, bus, device) ==
  IF <<bus, device, 0>> \notin DOMAIN tree THEN <<>>
  ELSE Joined(NumFunctions, [f \in 1..NumFunctions |->
         LET at == IF tree[<<bus, device, 0>>].multi THEN <<bus, device, f - 1>>
                   ELSE <<bus, device, 0>>
         IN IF at \in DOMAIN tree THEN check_function(tree, behind, at) ELSE <<>>])

\* Only a device with its function 0 is there, and only its header says there are more.
scan_device(tree, behind, bus, device) ==
  IF <<bus, device, 0>> \notin DOMAIN tree THEN <<>>
  ELSE check_function(tree, behind, <<bus, device, 0>>)
       \o (IF ~tree[<<bus, device, 0>>].multi THEN <<>>
           ELSE Joined(NumFunctions - 1, [f \in 1..NumFunctions - 1 |->
                  IF <<bus, device, f>> \in DOMAIN tree
                    THEN check_function(tree, behind, <<bus, device, f>>) ELSE <<>>]))

scan_bus(tree, bus) ==
  LET scan[nesting \in 0..MaxNesting] ==
        [b \in 1..NumBuses |->
           IF nesting = 0 THEN <<StackOverflow>>
           ELSE Joined(NumDevices, [d \in 1..NumDevices |->
                  scan_device(tree, scan[nesting - 1], b - 1, d - 1)])]
  IN scan[MaxNesting][bus + 1]

\* device_list after the walk: list_add_head has the last function entered first.
DeviceList(tree) == Reverse(scan_bus(tree, 0))

-----------------------------------------------------------------------------
(* What the walk is for.                                                   *)

\* The places a device shows: function 0, and the others if it says there are.
Shown(tree) ==
  {at \in DOMAIN tree :
     LET zero == <<at[1], at[2], 0>>
     IN zero \in DOMAIN tree /\ (at[3] = 0 \/ tree[zero].multi)}

\* The buses reached from bus 0 through bridges, by as many steps as there are places.
Reached(tree) ==
  LET bridges == {at \in Shown(tree) : IsBridge(tree[at])}
      step[n \in 0..Cardinality(bridges)] ==
        IF n = 0 THEN {0}
        ELSE LET near == step[n - 1]
             IN near \cup {tree[at].secondary : at \in {b \in bridges : b[1] \in near}}
  IN step[Cardinality(bridges)]

\* Firmware gives each bridge a bus of its own, behind the one it is on.
Sound(tree) ==
  LET bridges == {at \in DOMAIN tree : IsBridge(tree[at])}
  IN /\ \A at \in bridges : tree[at].secondary > at[1]
     /\ \A one, other \in bridges : tree[one].secondary = tree[other].secondary => one = other
=============================================================================
