--------------------------------- MODULE Heap ---------------------------------
(***************************************************************************)
(* The kernel's heap (kernel/libc/memory.c): a caller allocates, frees and *)
(* resizes objects, one call at a time.  What happens when an interrupt    *)
(* calls malloc in the middle of another call is the subject of EventLoop. *)
(***************************************************************************)
EXTENDS FreeList, FiniteSets

CONSTANTS
  MemorySize,   \* bytes of memory; addresses are 0 .. MemorySize - 1
  InitialList,  \* the free list memory_initialize leaves
  Sizes,        \* the sizes callers ask for
  Alignments    \* the alignments callers ask for

\* A node is real memory above address 0 (NULL), and the list is as free_memory builds it.
ASSUME HeapAssumption ==
  /\ MemorySize \in Nat
  /\ InitialList \in Seq(Node)
  /\ Separated(InitialList)
  /\ HoldsNodes(InitialList)
  /\ \A i \in 1..Len(InitialList) :
       0 < InitialList[i].base /\ NodeEnd(InitialList[i]) <= MemorySize

\* aligned_alloc keeps the offset, at most 12 + (alignment - 1), in a char.  Nobody
\* asks for so much that a size_t does not hold it with its header and a node.
ASSUME RequestAssumption ==
  /\ PointerSpan \in Nat
  /\ \A s \in Sizes, a \in Alignments : NoWrap(a, s)
  /\ Sizes \subseteq Nat
  /\ Alignments \subseteq 1..116
  /\ MallocAlignSize \in Alignments

VARIABLES
  freeList,  \* the list at `start'
  blocks,    \* the allocated regions, by their headers
  contents,  \* for each region, what its object's bytes hold
  request,   \* what the last call asked for: an alignment and a size
  result     \* what the last call returned: a pointer or NULL

vars == <<freeList, blocks, contents, request, result>>

NULL == 0

\* What free asks for; realloc has no alignment to ask for.
AsksNothing == <<1, 0>>

\* What an object holds: bytes its owner wrote, or whatever the memory held.
Indeterminate == "indeterminate"
Written == "written"
Contents == {Indeterminate, Written}

Init ==
  /\ freeList = InitialList
  /\ blocks = {}
  /\ contents = <<>>
  /\ request = AsksNothing
  /\ result = NULL

-----------------------------------------------------------------------------
(* Calls.                                                                  *)

Holding(f, b, value) == [x \in DOMAIN f \cup {b.base} |-> IF x = b.base THEN value ELSE f[x]]
Without(f, b) == [x \in DOMAIN f \ {b.base} |-> f[x]]

\* aligned_alloc that finds room.
AlignedAlloc(alignment, size) ==
  /\ CanAllocate(freeList, alignment, size)
  /\ LET b == AllocatedBlock(freeList, alignment, size)
     IN /\ blocks' = blocks \cup {b}
        /\ contents' = Holding(contents, b, Indeterminate)
        /\ result' = Pointer(b)
  /\ request' = <<alignment, size>>
  /\ freeList' = AllocatedList(freeList, alignment, size)

\* aligned_alloc of nothing, or with no node large enough.
AllocFails(alignment, size) ==
  /\ ~CanAllocate(freeList, alignment, size)
  /\ request' = <<alignment, size>>
  /\ result' = NULL
  /\ UNCHANGED <<freeList, blocks, contents>>

\* The owner of an object writes all of it.
Write(b) ==
  /\ contents' = [contents EXCEPT ![b.base] = Written]
  /\ UNCHANGED <<freeList, blocks, request, result>>

Free(b) ==
  /\ freeList' = FreeMemory(freeList, b.base, b.total)
  /\ blocks' = blocks \ {b}
  /\ contents' = Without(contents, b)
  /\ request' = AsksNothing
  /\ result' = NULL

\* realloc: malloc, a copy that runs from the new object to the old one, then
\* free of the old object, also when malloc found no room.
ReallocMoves(b, size) ==
  /\ CanAllocate(freeList, MallocAlignSize, size)
  /\ LET new == AllocatedBlock(freeList, MallocAlignSize, size)
     IN /\ blocks' = (blocks \cup {new}) \ {b}
        /\ contents' = Without(Holding(contents, new, Indeterminate), b)
        /\ result' = Pointer(new)
  /\ request' = <<1, size>>
  /\ freeList' = FreeMemory(AllocatedList(freeList, MallocAlignSize, size), b.base, b.total)

ReallocFails(b, size) ==
  /\ ~CanAllocate(freeList, MallocAlignSize, size)
  /\ Free(b)

Realloc(b, size) == ReallocMoves(b, size) \/ ReallocFails(b, size)

Next ==
  \/ \E s \in Sizes, a \in Alignments : AlignedAlloc(a, s)
  \/ \E s \in Sizes, a \in Alignments : AllocFails(a, s)
  \/ \E b \in blocks : Write(b)
  \/ \E b \in blocks : Free(b)
  \/ \E b \in blocks, s \in Sizes : Realloc(b, s)

Spec == Init /\ [][Next]_vars

-----------------------------------------------------------------------------
(* Properties.                                                             *)

Bytes == 0..MemorySize - 1

\* Types, and everything within memory.
TypeOK ==
  /\ freeList \in Seq(Node)
  /\ \A i \in 1..Len(freeList) : NodeEnd(freeList[i]) <= MemorySize
  /\ blocks \subseteq Block
  /\ \A b \in blocks : BlockEnd(b) <= MemorySize
  /\ DOMAIN contents = {b.base : b \in blocks}
  /\ \A x \in DOMAIN contents : contents[x] \in Contents
  /\ request \in Nat \X Nat
  /\ result \in Nat

\* Nothing is lost and nothing is invented: the bytes memory_initialize freed are,
\* at any later time, those of the free list and those of the allocated regions.
BytesAccountedFor ==
  \A x \in Bytes :
    Covers(InitialList, x) <=> Covers(freeList, x) \/ \E b \in blocks : InBlock(b, x)

\* No byte is handed out twice, and none is both free and handed out.
NoByteTwice ==
  \A x \in Bytes, b \in blocks :
    InBlock(b, x) =>
      /\ ~ Covers(freeList, x)
      /\ \A c \in blocks : InBlock(c, x) => b = c

\* The list stays in address order, neighbours are always merged, and every node
\* can hold its size and next pointer.
FreeListCoalesced == Separated(freeList) /\ HoldsNodes(freeList)

\* The object lies behind the header and inside its region, which can become a node again.
ObjectsFit ==
  \A b \in blocks :
    /\ HeaderSize <= b.offset
    /\ b.offset + b.requested <= b.total
    /\ NodeSize <= b.total

\* Once everything is freed, in whatever order, the list is the initial one again.
NoFragmentation == blocks = {} => freeList = InitialList

HeapInv ==
  /\ TypeOK
  /\ BytesAccountedFor
  /\ NoByteTwice
  /\ FreeListCoalesced
  /\ ObjectsFit

\* What memory.h says of realloc: the new object "has the same contents as the old
\* object prior to deallocation".
ReallocKeepsContents ==
  [][\A b \in blocks, s \in Sizes :
       ReallocMoves(b, s) =>
         \E new \in blocks' :
           Pointer(new) = result' /\ contents'[new.base] = contents[b.base]]_vars

\* The heap implements the pool: the caller of malloc, free and realloc sees memory
\* nobody owned, or NULL when there was no room, and never the list.
Usable == {x \in Bytes : Covers(InitialList, x)}
Pool == INSTANCE MemoryPool
PoolSpec == Pool!Spec
=============================================================================
