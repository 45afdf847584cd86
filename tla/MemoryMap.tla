------------------------------- MODULE MemoryMap -------------------------------
(***************************************************************************)
(* memory_initialize (kernel/libc/memory.c): from the memory map the       *)
(* bootloader took from the BIOS to the free list the heap starts with.    *)
(* One step per turn of each of its loops.                                 *)
(***************************************************************************)
EXTENDS FreeList, FiniteSets

CONSTANTS
  KernelStart, KernelEnd,  \* __start and __end
  Maps                     \* [regions, first]: the map and FirstAvailiableMemory

AVAILIABLE == 1
RESERVED == 2

Region == [BaseAddress : Nat, Length : Nat, Type : {AVAILIABLE, RESERVED}]

ASSUME MemoryMapAssumption ==
  /\ PointerSpan \in Nat
  /\ KernelStart \in Nat /\ KernelEnd \in Nat
  /\ 0 < KernelStart /\ KernelStart <= KernelEnd /\ KernelEnd < PointerSpan
  /\ \A map \in Maps :
       /\ map.regions \in Seq(Region) /\ map.regions # <<>>
       /\ map.first \in 1..PointerSpan - 1

VARIABLES
  map,       \* what the bootloader passed
  regions,   \* the memory map, sorted and clamped in place
  step,      \* how far memory_initialize is
  index,     \* the region the loop of sort_regions or free_availiable_regions comes to
  pieces,    \* the calls of free_nonrestricted_mem due for the region before that
  at,        \* the region the first of these calls comes to
  freed,     \* the arguments of the calls of free_memory, in order
  bytes,     \* availiable_bytes
  freeList   \* the list at `start'

vars == <<map, regions, step, index, pieces, at, freed, bytes, freeList>>

AsPointer(a) == a % PointerSpan

RegionBase(r) == AsPointer(r.BaseAddress)
RegionEnd(r) == AsPointer(RegionBase(r) + r.Length)

-----------------------------------------------------------------------------

\* The inner loop of sort_regions: region i is copied over every larger one next to
\* it.  The one the swap keeps in temp is not written back.
MoveBack(rs, i) ==
  [k \in 1..Len(rs) |->
     IF k < i /\ \A j \in k..i - 1 : rs[j].BaseAddress > rs[i].BaseAddress
       THEN rs[i]
       ELSE rs[k]]

\* Fault: the length does not wrap.
ClampSigned(rs, first) ==
  IF rs[1].BaseAddress < first
    THEN [rs EXCEPT ![1].BaseAddress = first,
                    ![1].Length = rs[1].BaseAddress + rs[1].Length - first]
    ELSE rs

\* The first region is cut off below the first available byte; its length wraps
\* around if nothing of it is left.  It wraps at 64 bits, but is only ever used modulo
\* PointerSpan.
Clamp(rs, first) ==
  IF rs[1].BaseAddress < first
    THEN [rs EXCEPT ![1].BaseAddress = first,
                    ![1].Length = AsPointer(rs[1].BaseAddress + rs[1].Length - first)]
    ELSE rs

\* Arguments of free_nonrestricted_mem.
Piece(base, end) == [base |-> base, end |-> end]

\* Faults: the kernel is freed with the region it lies in; the part after the kernel
\* is freed from the start of the region.
PiecesWithKernel(r) ==
  IF r.Type = AVAILIABLE THEN <<Piece(RegionBase(r), RegionEnd(r))>> ELSE <<>>
PiecesTwice(r) ==
  CASE r.Type # AVAILIABLE -> <<>>
    [] r.Type = AVAILIABLE /\ RegionBase(r) < KernelEnd /\ KernelStart < RegionEnd(r) ->
         <<Piece(RegionBase(r), KernelStart), Piece(RegionBase(r), RegionEnd(r))>>
    [] OTHER -> <<Piece(RegionBase(r), RegionEnd(r))>>

\* What free_availiable_regions wants freed of a region: one the kernel lies in is
\* freed in two parts.
Pieces(r) ==
  LET base == RegionBase(r)
      end == RegionEnd(r)
  IN CASE r.Type # AVAILIABLE -> <<>>
       [] r.Type = AVAILIABLE /\ base < KernelEnd /\ KernelStart < end ->
            (IF KernelStart # base THEN <<Piece(base, KernelStart)>> ELSE <<>>)
              \o (IF KernelEnd # end THEN <<Piece(KernelEnd, end)>> ELSE <<>>)
       [] OTHER -> <<Piece(base, end)>>

\* A region the loop of free_nonrestricted_mem goes past: one that ends before the
\* piece, or an available one that starts before it.
GoesPast(p, r) ==
  \/ p.base >= RegionEnd(r)
  \/ RegionBase(r) < p.end /\ p.base > RegionBase(r) /\ r.Type = AVAILIABLE

\* A region behind the piece ends the loop.
IsBehind(p, r) == p.base < RegionEnd(r) /\ RegionBase(r) >= p.end

-----------------------------------------------------------------------------

Init ==
  /\ map \in Maps
  /\ regions = map.regions
  /\ step = "sort"
  /\ index = 2
  /\ pieces = <<>>
  /\ at = 1
  /\ freed = <<>>
  /\ bytes = 0
  /\ freeList = <<>>

SortNext ==
  /\ step = "sort"
  /\ index <= Len(regions)
  /\ regions' = MoveBack(regions, index)
  /\ index' = index + 1
  /\ UNCHANGED <<map, step, pieces, at, freed, bytes, freeList>>

ClampFirst ==
  /\ step = "sort"
  /\ index > Len(regions)
  /\ regions' = Clamp(regions, map.first)
  /\ step' = "free"
  /\ index' = 1
  /\ UNCHANGED <<map, pieces, at, freed, bytes, freeList>>

NextRegion ==
  /\ step = "free" /\ pieces = <<>>
  /\ index <= Len(regions)
  /\ pieces' = Pieces(regions[index])
  /\ at' = 1
  /\ index' = index + 1
  /\ UNCHANGED <<map, regions, step, freed, bytes, freeList>>

\* The bytes base .. end - 1 are freed and counted.
FreeBytes(base, end) ==
  /\ freed' = Append(freed, [base |-> base, length |-> end - base])
  /\ bytes' = bytes + (end - base)
  /\ freeList' = FreeMemory(freeList, base, end - base)

FreeNothing == UNCHANGED <<freed, bytes, freeList>>

\* The loop of free_nonrestricted_mem is at a region.  The one the piece is of is
\* ignored.
InLoop == pieces # <<>> /\ at <= Len(regions)
Ignored == at = index - 1

GoPast ==
  /\ InLoop
  /\ Ignored \/ GoesPast(pieces[1], regions[at])
  /\ at' = at + 1
  /\ UNCHANGED <<map, regions, step, index, pieces>> /\ FreeNothing

StopBehind ==
  /\ InLoop
  /\ ~Ignored /\ IsBehind(pieces[1], regions[at])
  /\ at' = Len(regions) + 1
  /\ UNCHANGED <<map, regions, step, index, pieces>> /\ FreeNothing

\* What lies before a region that overlaps is freed; the piece goes on where that
\* region starts.
FreeBefore ==
  /\ InLoop
  /\ ~Ignored /\ ~GoesPast(pieces[1], regions[at]) /\ ~IsBehind(pieces[1], regions[at])
  /\ LET base == RegionBase(regions[at])
     IN /\ IF pieces[1].base <= base THEN FreeBytes(pieces[1].base, base) ELSE FreeNothing
        /\ pieces' = [pieces EXCEPT ![1].base = base]
  /\ at' = at + 1
  /\ UNCHANGED <<map, regions, step, index>>

\* Behind the loop: what remains of the piece is freed.
FreeRest ==
  /\ pieces # <<>> /\ at > Len(regions)
  /\ IF pieces[1].base < pieces[1].end
       THEN FreeBytes(pieces[1].base, pieces[1].end)
       ELSE FreeNothing
  /\ pieces' = Tail(pieces)
  /\ at' = 1
  /\ UNCHANGED <<map, regions, step, index>>

Finish ==
  /\ step = "free" /\ pieces = <<>>
  /\ index > Len(regions)
  /\ step' = "done"
  /\ UNCHANGED <<map, regions, index, pieces, at, freed, bytes, freeList>>

Next ==
  \/ SortNext \/ ClampFirst \/ NextRegion
  \/ GoPast \/ StopBehind \/ FreeBefore \/ FreeRest
  \/ Finish

Spec == Init /\ [][Next]_vars /\ WF_vars(Next)

-----------------------------------------------------------------------------
(* Properties.                                                             *)

Addresses == 0..PointerSpan - 1

\* Types.
TypeOK ==
  /\ regions \in Seq(Region) /\ Len(regions) = Len(map.regions)
  /\ step \in {"sort", "free", "done"}
  /\ index \in 1..Len(regions) + 1 /\ at \in 1..Len(regions) + 1
  /\ pieces \in Seq([base : Addresses, end : Addresses]) /\ Len(pieces) <= 2
  /\ freed \in Seq([base : Addresses, length : Addresses])
  /\ bytes \in Nat
  /\ freeList \in Seq(Node)

Within(r, a) == r.BaseAddress <= a /\ a < r.BaseAddress + r.Length

\* What the comments of free_availiable_regions ask for: memory the map calls
\* available, that nothing else in it claims, from the first available byte, outside
\* the kernel.
ShouldBeFree(a) ==
  /\ \E i \in 1..Len(map.regions) :
       map.regions[i].Type = AVAILIABLE /\ Within(map.regions[i], a)
  /\ \A i \in 1..Len(map.regions) :
       Within(map.regions[i], a) => map.regions[i].Type = AVAILIABLE
  /\ a >= map.first
  /\ ~ (KernelStart <= a /\ a < KernelEnd)

\* The maps the properties are about: in order, without overlaps but for reserved
\* regions without a byte, and only the first region may reach below the first
\* available byte.  A region may reach past the pointers if it is reserved and its end
\* is cut to 0, as that of the BIOS below 4 GiB.
IsEmpty(r) == r.Type = RESERVED /\ r.Length = 0

Precedes(r, later) ==
  IF IsEmpty(later)
    THEN r.BaseAddress <= later.BaseAddress
    ELSE r.BaseAddress + r.Length <= later.BaseAddress

InReach(r, first) ==
  \/ r.BaseAddress + r.Length < PointerSpan
  \/ r.Type = RESERVED /\ r.BaseAddress >= first /\ RegionEnd(r) = 0

IsTidy(m) ==
  /\ \A i, j \in 1..Len(m.regions) : i < j => Precedes(m.regions[i], m.regions[j])
  /\ \A i \in 1..Len(m.regions) : InReach(m.regions[i], m.first)
  /\ \A i \in 2..Len(m.regions) :
       m.regions[i].Type = AVAILIABLE => m.regions[i].BaseAddress >= m.first

\* The heap starts with the memory it may use, all of it and no other.
ExactlyTheAvailable ==
  step = "done" => \A a \in Addresses : Covers(freeList, a) <=> ShouldBeFree(a)

\* The precondition of free_memory: "none of the bytes to free are already free".
FreedOnce ==
  \A i, j \in 1..Len(freed) :
    i < j => \/ freed[i].base + freed[i].length <= freed[j].base
             \/ freed[j].base + freed[j].length <= freed[i].base

\* Regions that touch are one node, and memory_initialize returns the bytes in the list.
ListIsTight ==
  /\ Separated(freeList)
  /\ step = "done" => bytes = Cardinality({a \in Addresses : Covers(freeList, a)})

\* What the comment of free_availiable_regions says: "Memory that overlaps with
\* regions that are not availiable is not freed".
ReservedNotFreed ==
  \A i \in 1..Len(map.regions), n \in 1..Len(freed) :
    map.regions[i].Type = RESERVED =>
      \A a \in freed[n].base..freed[n].base + freed[n].length - 1 : ~ Within(map.regions[i], a)
=============================================================================
