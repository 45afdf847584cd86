------------------------------- MODULE FreeList -------------------------------
(***************************************************************************)
(* The free list of kernel/libc/memory.c, as pure operators on a sequence  *)
(* of nodes: the list `start' points to, in the order its next pointers    *)
(* give.  The module has no variables: Heap and EventLoop each hold a free *)
(* list and take one step per call.                                        *)
(***************************************************************************)
EXTENDS Integers, Sequences

CONSTANT PointerSpan  \* 2^32: pointer_t and size_t hold a number modulo this

\* sizeof(AllocatedRegionHeader): two size_t, a char and three bytes of padding.
HeaderSize == 12

\* sizeof(MemoryNode): the two words every free node keeps in its own memory.
NodeSize == 8

\* malloc_align_size
MallocAlignSize == 8

AsSize(n) == n % PointerSpan

Node == [base : Nat, size : Nat]

\* An allocated region: the memory the list gave up (base, total_size), the
\* size the caller asked for and the distance from the base to its pointer.
Block == [base : Nat, total : Nat, requested : Nat, offset : Nat]

NodeEnd(n) == n.base + n.size
BlockEnd(b) == b.base + b.total
Pointer(b) == b.base + b.offset

-----------------------------------------------------------------------------
(* Bytes.                                                                  *)

InNode(n, x) == n.base <= x /\ x < NodeEnd(n)
InBlock(b, x) == b.base <= x /\ x < BlockEnd(b)
Covers(list, x) == \E i \in 1..Len(list) : InNode(list[i], x)

\* In address order, and no two nodes touch: a freed byte never lies next to a
\* byte of another node.
Separated(list) ==
  \A i, j \in 1..Len(list) : i < j => NodeEnd(list[i]) < list[j].base

\* No node is too small to hold its own size and next pointer.
HoldsNodes(list) == \A i \in 1..Len(list) : NodeSize <= list[i].size

-----------------------------------------------------------------------------
(* The nodes lo..hi of the list (none of them if hi = lo - 1) give way to  *)
(* the nodes mid.                                                          *)

Splice(list, lo, hi, mid) ==
  (SubSeq(list, 1, lo - 1) \o mid) \o SubSeq(list, hi + 1, Len(list))

\* Where the walk of free_memory stops: p nodes lie before base.
IsNodesBefore(list, base, p) ==
  /\ p \in 0..Len(list)
  /\ \A i \in 1..p : list[i].base < base
  /\ p < Len(list) => base <= list[p + 1].base

NodesBefore(list, base) ==
  CHOOSE p \in 0..Len(list) : IsNodesBefore(list, base, p)

\* Faults for the checks to find.  The node after is joined, but its bytes are not
\* counted.
FreeMemoryShort(list, base, length) ==
  LET p == NodesBefore(list, base)
      joinsNext == p < Len(list) /\ list[p + 1].base <= base + length
  IN Splice(list, p + 1, IF joinsNext THEN p + 1 ELSE p, <<[base |-> base, size |-> length]>>)

\* The node before is joined only if it overlaps, not if it touches.
FreeMemoryApart(list, base, length) ==
  LET end == base + length
      p == NodesBefore(list, base)
      joinsNext == p < Len(list) /\ list[p + 1].base <= end
      last == IF joinsNext THEN NodeEnd(list[p + 1]) ELSE end
  IN Splice(list, p + 1, IF joinsNext THEN p + 1 ELSE p, <<[base |-> base, size |-> last - base]>>)

\* free_memory: the bytes base .. base + length - 1 join the node before them
\* and the node after them if they touch, else they are a node of their own.
FreeMemory(list, base, length) ==
  LET end == base + length
      p == NodesBefore(list, base)
      joinsPrevious == p > 0 /\ NodeEnd(list[p]) >= base
      joinsNext == p < Len(list) /\ list[p + 1].base <= end
      first == IF joinsPrevious THEN list[p].base ELSE base
      last == IF joinsNext THEN NodeEnd(list[p + 1]) ELSE end
  IN Splice(list,
            IF joinsPrevious THEN p ELSE p + 1,
            IF joinsNext THEN p + 1 ELSE p,
            <<[base |-> first, size |-> last - first]>>)

-----------------------------------------------------------------------------
(* aligned_alloc.                                                          *)

\* The header and the bytes added to align the object, counted from the start
\* of a free node.
OffsetIn(base, alignment) ==
  LET alignOffset == alignment - ((base + HeaderSize) % alignment)
  IN HeaderSize + ((alignment - alignOffset) % alignment)

\* Fault: the padding is forgotten.
FitsUnpadded(n, alignment, size) == AsSize(size + HeaderSize) <= n.size

\* What an object of that size takes of the node.
WithHeader(n, alignment, size) == AsSize(size + OffsetIn(n.base, alignment))

\* A request the sums above and below hold without a wrap, in any node.
NoWrap(alignment, size) == size + HeaderSize + alignment + NodeSize <= PointerSpan

Fits(n, alignment, size) == WithHeader(n, alignment, size) <= n.size

\* The scan keeps the first of the smallest nodes that fit.
IsBestFit(list, alignment, size, i) ==
  /\ i \in 1..Len(list)
  /\ Fits(list[i], alignment, size)
  /\ \A j \in 1..Len(list) :
       Fits(list[j], alignment, size) =>
         \/ list[i].size < list[j].size
         \/ list[i].size = list[j].size /\ i <= j

BestFit(list, alignment, size) ==
  CHOOSE i \in 1..Len(list) : IsBestFit(list, alignment, size, i)

\* Fault: only the first node is looked at.
CanAllocateFirst(list, alignment, size) ==
  size > 0 /\ Len(list) > 0 /\ Fits(list[1], alignment, size)

CanAllocate(list, alignment, size) ==
  /\ size > 0
  /\ \E i \in 1..Len(list) : Fits(list[i], alignment, size)

\* Fault: any remainder becomes a node.
TotalSizeExact(n, alignment, size) == WithHeader(n, alignment, size)

\* A remainder that could not hold a node stays with the block.
TotalSize(n, alignment, size) ==
  LET withHeader == WithHeader(n, alignment, size)
  IN IF AsSize(withHeader + NodeSize) < n.size THEN withHeader ELSE n.size

AllocatedBlock(list, alignment, size) ==
  LET n == list[BestFit(list, alignment, size)]
  IN [base |-> n.base, total |-> TotalSize(n, alignment, size),
      requested |-> size, offset |-> OffsetIn(n.base, alignment)]

\* Faults: the remainder keeps the size of the node; it starts a byte early.
RemainderFullSize(n, total) ==
  IF total < n.size
    THEN <<[base |-> n.base + total, size |-> n.size]>>
    ELSE <<>>
RemainderEarly(n, total) ==
  IF total < n.size
    THEN <<[base |-> n.base + total - 1, size |-> n.size - total + 1]>>
    ELSE <<>>

\* What is left of a node of which the first total bytes are taken.
Remainder(n, total) ==
  IF total < n.size
    THEN <<[base |-> n.base + total, size |-> n.size - total]>>
    ELSE <<>>

AllocatedList(list, alignment, size) ==
  LET i == BestFit(list, alignment, size)
  IN Splice(list, i, i,
            Remainder(list[i], TotalSize(list[i], alignment, size)))
=============================================================================
