------------------------------ MODULE HeapProofs ------------------------------
(***************************************************************************)
(* Every reachable state of Heap satisfies HeapInv, for every memory size, *)
(* initial list, set of sizes and set of alignments up to 116, and Heap    *)
(* implements MemoryPool.                                                  *)
(***************************************************************************)
EXTENDS Heap, FreeListProofs

(* HeapInv says of the list and the regions, as a predicate on both, so    *)
(* that realloc's two changes can be taken one after the other.            *)
Shape(list, bs) ==
  /\ list \in Seq(Node)
  /\ bs \subseteq Block
  /\ Separated(list)
  /\ HoldsNodes(list)
  /\ \A b \in bs :
       /\ HeaderSize <= b.offset
       /\ b.offset + b.requested <= b.total
       /\ NodeSize <= b.total
  /\ \A x \in Nat :
       Covers(InitialList, x) <=> Covers(list, x) \/ \E b \in bs : InBlock(b, x)
  /\ \A x \in Nat, b \in bs :
       InBlock(b, x) => ~ Covers(list, x) /\ \A c \in bs : InBlock(c, x) => b = c

(* The initial list lies in memory. *)
LEMMA InitialBytes == \A x \in Nat : Covers(InitialList, x) => x \in Bytes
<1> SUFFICES ASSUME NEW x \in Nat, NEW i \in 1..Len(InitialList), InNode(InitialList[i], x)
             PROVE  x \in Bytes
  BY DEF Covers
<1>1. InitialList[i] \in Node /\ NodeEnd(InitialList[i]) <= MemorySize /\ MemorySize \in Nat
  BY HeapAssumption, ElementOfSeq
<1> QED BY <1>1 DEF Bytes, InNode, NodeEnd, Node

(* aligned_alloc with room keeps the shape of the heap. *)
LEMMA AllocationKeepsShape ==
  ASSUME NEW list, NEW bs, Shape(list, bs),
         NEW alignment \in Nat \ {0}, NEW size \in Nat, NoWrap(alignment, size),
         CanAllocate(list, alignment, size)
  PROVE  Shape(AllocatedList(list, alignment, size),
               bs \cup {AllocatedBlock(list, alignment, size)})
<1>1. PICK new, b : /\ new = AllocatedList(list, alignment, size)
                    /\ b = AllocatedBlock(list, alignment, size)
  OBVIOUS
<1>2. list \in Seq(Node) /\ Separated(list) /\ HoldsNodes(list)
  BY DEF Shape
<1>3. /\ b \in Block
      /\ HeaderSize <= b.offset /\ b.offset + size <= b.total /\ b.requested = size
      /\ NodeSize <= b.total
      /\ \A x \in Nat : InBlock(b, x) => Covers(list, x)
      /\ new \in Seq(Node)
      /\ Separated(new)
      /\ HoldsNodes(new)
      /\ \A x \in Nat : Covers(new, x) <=> Covers(list, x) /\ ~ InBlock(b, x)
  BY <1>1, <1>2, RequestAssumption, AllocationEffect
<1>4. Shape(new, bs \cup {b})
  BY <1>3 DEF Shape
<1> QED BY <1>1, <1>4

(* Freeing one of the regions keeps it, too. *)
LEMMA FreeKeepsShape ==
  ASSUME NEW list, NEW bs, Shape(list, bs), NEW b \in bs
  PROVE  Shape(FreeMemory(list, b.base, b.total), bs \ {b})
<1>1. PICK new : new = FreeMemory(list, b.base, b.total)
  OBVIOUS
<1>2. list \in Seq(Node) /\ Separated(list) /\ HoldsNodes(list)
  BY DEF Shape
<1>3. b \in Block /\ b.base \in Nat /\ b.total \in Nat /\ NodeSize <= b.total
  BY DEF Shape, Block
<1>4. \A x \in Nat : InBlock(b, x) <=> b.base <= x /\ x < b.base + b.total
  BY DEF InBlock, BlockEnd
<1>5. \A x \in b.base..b.base + b.total - 1 : ~ Covers(list, x)
  BY <1>3, <1>4 DEF Shape
<1>6. /\ new \in Seq(Node)
      /\ Separated(new)
      /\ HoldsNodes(new)
      /\ \A x \in Nat : Covers(new, x) <=> Covers(list, x) \/ (b.base <= x /\ x < b.base + b.total)
  BY <1>1, <1>2, <1>3, <1>5, FreeMemoryEffect
<1>7. \A x \in Nat : Covers(new, x) <=> Covers(list, x) \/ InBlock(b, x)
  BY <1>4, <1>6
<1>8. Shape(new, bs \ {b})
  BY <1>6, <1>7 DEF Shape
<1> QED BY <1>1, <1>8

(* A heap of that shape lies in memory. *)
LEMMA ShapeWithinMemory ==
  ASSUME NEW list, NEW bs, Shape(list, bs)
  PROVE  /\ \A i \in 1..Len(list) : NodeEnd(list[i]) <= MemorySize
         /\ \A b \in bs : BlockEnd(b) <= MemorySize
<1>1. MemorySize \in Nat
  BY HeapAssumption
<1>2. ASSUME NEW i \in 1..Len(list) PROVE NodeEnd(list[i]) <= MemorySize
  <2>1. /\ list[i].base \in Nat /\ list[i].size \in Nat /\ 8 <= list[i].size
    <3>1. list[i] \in Node
      BY ElementOfSeq DEF Shape
    <3> QED BY <3>1 DEF Shape, HoldsNodes, NodeSize, Node
  <2>2. PICK x \in Nat : x = NodeEnd(list[i]) - 1 /\ InNode(list[i], x)
    BY <2>1, SMTT(30) DEF NodeEnd, InNode
  <2>3. Covers(InitialList, x)
    BY <2>2 DEF Covers, Shape
  <2>4. x \in Bytes
    BY <2>3, InitialBytes
  <2> QED BY <1>1, <2>1, <2>2, <2>4 DEF Bytes, NodeEnd
<1>3. ASSUME NEW b \in bs PROVE BlockEnd(b) <= MemorySize
  <2>1. b.base \in Nat /\ b.total \in Nat /\ 8 <= b.total
    BY DEF Shape, Block, NodeSize
  <2>2. PICK x \in Nat : x = BlockEnd(b) - 1 /\ InBlock(b, x)
    BY <2>1 DEF BlockEnd, InBlock
  <2>3. Covers(InitialList, x)
    BY <2>2 DEF Shape
  <2>4. x \in Bytes
    BY <2>3, InitialBytes
  <2> QED BY <1>1, <2>1, <2>2, <2>4 DEF Bytes, BlockEnd
<1> QED BY <1>2, <1>3

HeapShape == Shape(freeList, blocks)

\* The part of HeapInv that is not about the shape of the heap.
Typed ==
  /\ DOMAIN contents = {b.base : b \in blocks}
  /\ \A x \in DOMAIN contents : contents[x] \in Contents
  /\ request \in Nat \X Nat
  /\ result \in Nat

(* HeapInv is the shape of the heap and the types of the rest. *)
LEMMA HeapInvIsShape == HeapInv <=> HeapShape /\ Typed
<1>1. ASSUME HeapInv PROVE HeapShape /\ Typed
  <2>1. ASSUME NEW x \in Nat, Covers(freeList, x) PROVE x \in Bytes
    <3>1. PICK i \in 1..Len(freeList) : InNode(freeList[i], x)
      BY <2>1 DEF Covers
    <3>2. freeList[i].base \in Nat /\ NodeEnd(freeList[i]) \in Nat
      <4>1. freeList[i] \in Node
        BY <1>1, ElementOfSeq DEF HeapInv, TypeOK
      <4> QED BY <4>1 DEF Node, NodeEnd
    <3> QED BY <1>1, <3>1, <3>2, HeapAssumption DEF HeapInv, TypeOK, InNode, Bytes
  <2>2. ASSUME NEW x \in Nat, NEW b \in blocks, InBlock(b, x) PROVE x \in Bytes
    <3>1. b.base \in Nat /\ b.total \in Nat /\ BlockEnd(b) <= MemorySize
      BY <1>1 DEF HeapInv, TypeOK, Block
    <3> QED BY <2>2, <3>1, HeapAssumption DEF InBlock, BlockEnd, Bytes
  <2>3. \A x \in Nat :
          Covers(InitialList, x) <=> Covers(freeList, x) \/ \E b \in blocks : InBlock(b, x)
    BY <1>1, <2>1, <2>2, InitialBytes DEF HeapInv, BytesAccountedFor
  <2>4. \A x \in Nat, b \in blocks :
          InBlock(b, x) =>
            ~ Covers(freeList, x) /\ \A c \in blocks : InBlock(c, x) => b = c
    BY <1>1, <2>2 DEF HeapInv, NoByteTwice
  <2> QED BY <1>1, <2>3, <2>4
          DEF HeapInv, TypeOK, FreeListCoalesced, ObjectsFit, HeapShape, Shape, Typed
<1>2. ASSUME HeapShape, Typed PROVE HeapInv
  <2>1. TypeOK
    BY <1>2, ShapeWithinMemory DEF TypeOK, HeapShape, Shape, Typed
  <2>2. BytesAccountedFor /\ NoByteTwice
    BY <1>2, HeapAssumption DEF BytesAccountedFor, NoByteTwice, HeapShape, Shape, Bytes
  <2>3. FreeListCoalesced /\ ObjectsFit
    BY <1>2 DEF FreeListCoalesced, ObjectsFit, HeapShape, Shape
  <2> QED BY <2>1, <2>2, <2>3 DEF HeapInv
<1> QED BY <1>1, <1>2

(* The initial state: nothing is allocated. *)
LEMMA InitInv == Init => HeapInv
<1> SUFFICES ASSUME Init PROVE HeapInv
  OBVIOUS
<1>1. HeapShape
  BY HeapAssumption DEF Init, HeapShape, Shape
<1>2. Typed
  BY DEF Init, Typed, NULL, AsksNothing
<1> QED BY <1>1, <1>2, HeapInvIsShape

(* The pointer a call returns. *)
LEMMA PointerIsNat ==
  ASSUME NEW b \in Block
  PROVE  Pointer(b) \in Nat /\ b.base \in Nat
BY DEF Pointer, Block

(* What a step does to the contents of the objects. *)
LEMMA HoldingTyped ==
  ASSUME Typed, NEW b, NEW value \in Contents
  PROVE  /\ DOMAIN Holding(contents, b, value) = {c.base : c \in blocks \cup {b}}
         /\ \A x \in DOMAIN Holding(contents, b, value) :
              Holding(contents, b, value)[x] \in Contents
BY DEF Typed, Holding

(* Each kind of step keeps the invariant. *)
LEMMA AlignedAllocInv ==
  ASSUME HeapInv, NEW s \in Sizes, NEW a \in Alignments, AlignedAlloc(a, s)
  PROVE  HeapInv'
<1>1. Shape(freeList, blocks) /\ Typed
  BY HeapInvIsShape DEF HeapShape
<1>2. a \in Nat \ {0} /\ s \in Nat /\ NoWrap(a, s)
  BY RequestAssumption
<1>3. PICK b : b = AllocatedBlock(freeList, a, s)
  OBVIOUS
<1>4. /\ CanAllocate(freeList, a, s)
      /\ freeList' = AllocatedList(freeList, a, s)
      /\ blocks' = blocks \cup {b}
      /\ contents' = Holding(contents, b, Indeterminate)
      /\ request' = <<a, s>>
      /\ result' = Pointer(b)
  BY <1>3 DEF AlignedAlloc
<1>5. Shape(freeList', blocks')
  BY <1>1, <1>2, <1>3, <1>4, AllocationKeepsShape
<1>6. Typed'
  <2>1. b \in Block
    BY <1>4, <1>5 DEF Shape
  <2>2. Indeterminate \in Contents
    BY DEF Contents
  <2>3. result' \in Nat /\ request' \in Nat \X Nat
    BY <1>2, <1>4, <2>1, PointerIsNat
  <2> QED BY <1>1, <1>4, <2>2, <2>3, HoldingTyped DEF Typed
<1>7. HeapShape'
  BY <1>5 DEF HeapShape
<1> QED BY <1>6, <1>7, HeapInvIsShape, PTL

LEMMA AllocFailsInv ==
  ASSUME HeapInv, NEW s \in Sizes, NEW a \in Alignments, AllocFails(a, s)
  PROVE  HeapInv'
<1>1. HeapShape /\ Typed
  BY HeapInvIsShape
<1>2. HeapShape' /\ Typed'
  BY <1>1, RequestAssumption DEF AllocFails, HeapShape, Typed, NULL
<1> QED BY <1>2, HeapInvIsShape, PTL

LEMMA WriteInv ==
  ASSUME HeapInv, NEW b \in blocks, Write(b)
  PROVE  HeapInv'
<1>1. HeapShape /\ Typed
  BY HeapInvIsShape
<1>2. HeapShape' /\ Typed'
  BY <1>1 DEF Write, HeapShape, Typed, Contents
<1> QED BY <1>2, HeapInvIsShape, PTL

(* No two regions begin at the same address. *)
LEMMA BasesDiffer ==
  ASSUME NEW list, NEW bs, Shape(list, bs), NEW b \in bs, NEW c \in bs, b.base = c.base
  PROVE  b = c
<1>1. /\ b.base \in Nat /\ b.total \in Nat /\ 8 <= b.total
      /\ c.base \in Nat /\ c.total \in Nat /\ 8 <= c.total
  BY DEF Shape, Block, NodeSize
<1>2. InBlock(b, b.base) /\ InBlock(c, b.base)
  BY <1>1 DEF InBlock, BlockEnd
<1> QED BY <1>1, <1>2 DEF Shape

LEMMA FreeInv ==
  ASSUME HeapInv, NEW b \in blocks, Free(b)
  PROVE  HeapInv'
<1>1. Shape(freeList, blocks) /\ Typed
  BY HeapInvIsShape DEF HeapShape
<1>2. HeapShape'
  BY <1>1, FreeKeepsShape DEF Free, HeapShape
<1>3. {c.base : c \in blocks} \ {b.base} = {c.base : c \in blocks \ {b}}
  BY <1>1, BasesDiffer
<1>4. Typed'
  BY <1>1, <1>3 DEF Free, Typed, Without, NULL, AsksNothing
<1> QED BY <1>2, <1>4, HeapInvIsShape, PTL

LEMMA ReallocInv ==
  ASSUME HeapInv, NEW b \in blocks, NEW s \in Sizes, Realloc(b, s)
  PROVE  HeapInv'
<1>1. Shape(freeList, blocks) /\ Typed
  BY HeapInvIsShape DEF HeapShape
<1>2. CASE ReallocFails(b, s)
  BY <1>2, FreeInv DEF ReallocFails
<1>3. CASE ReallocMoves(b, s)
  <2>1. MallocAlignSize \in Nat \ {0} /\ s \in Nat /\ NoWrap(MallocAlignSize, s)
    BY RequestAssumption
  <2>2. PICK new, list : /\ new = AllocatedBlock(freeList, MallocAlignSize, s)
                         /\ list = AllocatedList(freeList, MallocAlignSize, s)
    OBVIOUS
  <2>3. /\ CanAllocate(freeList, MallocAlignSize, s)
        /\ blocks' = (blocks \cup {new}) \ {b}
        /\ contents' = Without(Holding(contents, new, Indeterminate), b)
        /\ request' = <<1, s>>
        /\ result' = Pointer(new)
        /\ freeList' = FreeMemory(list, b.base, b.total)
    BY <1>3, <2>2 DEF ReallocMoves
  <2>4. Shape(list, blocks \cup {new})
    BY <1>1, <2>1, <2>2, <2>3, AllocationKeepsShape
  <2>5. HeapShape'
    BY <2>3, <2>4, FreeKeepsShape DEF HeapShape
  <2>6. {c.base : c \in blocks \cup {new}} \ {b.base} = {c.base : c \in (blocks \cup {new}) \ {b}}
    BY <2>4, BasesDiffer
  <2>7. PICK h : h = Holding(contents, new, Indeterminate)
    OBVIOUS
  <2>8. DOMAIN h = {c.base : c \in blocks \cup {new}} /\ \A x \in DOMAIN h : h[x] \in Contents
    BY <1>1, <2>7, HoldingTyped DEF Contents
  <2>9. new \in Block
    BY <2>4 DEF Shape
  <2>10. result' \in Nat /\ request' \in Nat \X Nat
    BY <2>1, <2>3, <2>9, PointerIsNat
  <2>11. Typed'
    BY <2>3, <2>6, <2>7, <2>8, <2>10 DEF Typed, Without
  <2> QED BY <2>5, <2>11, HeapInvIsShape, PTL
<1> QED BY <1>2, <1>3 DEF Realloc

(***************************************************************************)
(* The heap keeps its invariant: typed and in memory, every byte accounted *)
(* for, none handed out twice, the list in order and coalesced, and every  *)
(* object inside its region.                                               *)
(***************************************************************************)
THEOREM HeapCorrect == Spec => []HeapInv
<1>1. HeapInv /\ [Next]_vars => HeapInv'
  <2> SUFFICES ASSUME HeapInv, [Next]_vars PROVE HeapInv'
    OBVIOUS
  <2>1. ASSUME NEW s \in Sizes, NEW a \in Alignments, AlignedAlloc(a, s) PROVE HeapInv'
    BY <2>1, AlignedAllocInv
  <2>2. ASSUME NEW s \in Sizes, NEW a \in Alignments, AllocFails(a, s) PROVE HeapInv'
    BY <2>2, AllocFailsInv
  <2>3. ASSUME NEW b \in blocks, Write(b) PROVE HeapInv'
    BY <2>3, WriteInv
  <2>4. ASSUME NEW b \in blocks, Free(b) PROVE HeapInv'
    BY <2>4, FreeInv
  <2>5. ASSUME NEW b \in blocks, NEW s \in Sizes, Realloc(b, s) PROVE HeapInv'
    BY <2>5, ReallocInv
  <2>6. CASE UNCHANGED vars
    BY <2>6 DEF vars, HeapInv, TypeOK, BytesAccountedFor, NoByteTwice, FreeListCoalesced, ObjectsFit
  <2> QED BY <2>1, <2>2, <2>3, <2>4, <2>5, <2>6 DEF Next
<1> QED BY <1>1, InitInv, PTL DEF Spec

(* What the runs check of HeapInv, each for every value of the constants.  *)
(* Types, and nodes and regions within memory.                             *)
THEOREM HeapTyped == Spec => []TypeOK
BY HeapCorrect, PTL DEF HeapInv

(* No byte is lost: what is not free is in a region.                       *)
THEOREM NothingLeaks == Spec => []BytesAccountedFor
BY HeapCorrect, PTL DEF HeapInv

(* No byte is handed out twice or both free and handed out.                *)
THEOREM NothingSharedTwice == Spec => []NoByteTwice
BY HeapCorrect, PTL DEF HeapInv

(* The list is in address order and its neighbours are merged.             *)
THEOREM AlwaysCoalesced == Spec => []FreeListCoalesced
BY HeapCorrect, PTL DEF HeapInv

(* Every object lies behind its header and inside its region.              *)
THEOREM ObjectsInside == Spec => []ObjectsFit
BY HeapCorrect, PTL DEF HeapInv

(***************************************************************************)
(* Freeing everything, in any order, brings the initial list back: it is   *)
(* the only list in order and merged over the bytes there are.             *)
(***************************************************************************)
THEOREM NothingFragments == Spec => []NoFragmentation
<1>1. HeapInv => NoFragmentation
  <2> SUFFICES ASSUME HeapInv, blocks = {} PROVE freeList = InitialList
    BY DEF NoFragmentation
  <2>1. Shape(freeList, blocks)
    BY HeapInvIsShape DEF HeapShape
  <2>2. \A x \in Nat : Covers(freeList, x) <=> Covers(InitialList, x)
    BY <2>1 DEF Shape
  <2> QED BY <2>1, <2>2, HeapAssumption, SameBytesSameList DEF Shape
<1> QED BY <1>1, HeapCorrect, PTL

(* A granted region is new, and made of memory nobody owned. *)
LEMMA GrantIsUnowned ==
  ASSUME HeapInv, NEW alignment \in Nat \ {0}, NEW s \in Nat, NoWrap(alignment, s),
         CanAllocate(freeList, alignment, s)
  PROVE  LET b == AllocatedBlock(freeList, alignment, s)
         IN b \notin blocks /\ Pool!IsGrant(b, s)
<1>1. Shape(freeList, blocks)
  BY HeapInvIsShape DEF HeapShape
<1>2. PICK b : b = AllocatedBlock(freeList, alignment, s)
  OBVIOUS
<1>3. /\ b \in Block
      /\ HeaderSize <= b.offset /\ b.offset + s <= b.total /\ b.requested = s
      /\ NodeSize <= b.total
      /\ \A x \in Nat : InBlock(b, x) => Covers(freeList, x)
  <2>1. freeList \in Seq(Node) /\ Separated(freeList) /\ HoldsNodes(freeList)
    BY <1>1 DEF Shape
  <2> QED BY <1>2, <2>1, RequestAssumption, AllocationEffect
<1>4. b.base \in Nat /\ b.total \in Nat /\ 8 <= b.total
  BY <1>3 DEF Block, NodeSize
<1>5. b \notin blocks
  <2>1. InBlock(b, b.base)
    BY <1>4 DEF InBlock, BlockEnd
  <2> QED BY <1>1, <1>3, <1>4, <2>1 DEF Shape
<1>6. ASSUME NEW x \in b.base..(b.base + b.total) - 1
      PROVE  x \in Usable /\ ~ Pool!Owned(x)
  <2>1. x \in Nat /\ InBlock(b, x)
    BY <1>4 DEF InBlock, BlockEnd
  <2>2. Covers(InitialList, x) /\ x \in Bytes /\ \A c \in blocks : ~ InBlock(c, x)
    BY <1>1, <1>3, <2>1, InitialBytes DEF Shape
  <2> QED BY <2>2 DEF Usable, Pool!Owned, Pool!InBlock, InBlock, BlockEnd
<1>7. Pool!Unowned(b.base, b.base + b.total)
  BY <1>6 DEF Pool!Unowned
<1>8. Pool!IsGrant(b, s)
  BY ONLY <1>3, <1>7 DEF Pool!IsGrant
<1> QED BY <1>2, <1>5, <1>8

(* A run of unowned bytes lies in one node, so malloc fails only if none is long enough. *)
LEMMA FailureMeansNoRoom ==
  ASSUME HeapInv, NEW alignment \in Nat \ {0}, NEW s \in Nat, s # 0,
         NoWrap(alignment, s),
         ~ CanAllocate(freeList, alignment, s)
  PROVE  Pool!NoRoom(alignment, s)
<1> SUFFICES ASSUME NEW lo \in Usable, Pool!Unowned(lo, lo + HeaderSize + s + alignment - 1)
             PROVE  FALSE
  BY DEF Pool!NoRoom
<1>1. Shape(freeList, blocks)
  BY HeapInvIsShape DEF HeapShape
<1>2. PICK hi : hi = lo + 12 + s + alignment - 1
  OBVIOUS
<1>3. lo \in Nat /\ hi \in Nat /\ lo < hi /\ hi - lo = 12 + s + alignment - 1
  BY <1>2, HeapAssumption DEF Usable, Bytes
<1>4. ASSUME NEW x \in lo..hi - 1 PROVE Covers(freeList, x)
  <2>1. x \in Usable /\ ~ Pool!Owned(x)
    BY <1>2 DEF Pool!Unowned, HeaderSize
  <2>2. x \in Nat /\ Covers(InitialList, x)
    BY <2>1, HeapAssumption DEF Usable, Bytes
  <2>3. \A c \in blocks : ~ InBlock(c, x)
    BY <2>1 DEF Pool!Owned, Pool!InBlock, InBlock, BlockEnd
  <2> QED BY <1>1, <2>2, <2>3 DEF Shape
<1>5. Len(freeList) \in Nat /\ \A i \in 1..Len(freeList) :
        freeList[i].base \in Nat /\ freeList[i].size \in Nat
  <2>1. freeList \in Seq(Node)
    BY <1>1 DEF Shape
  <2>2. ASSUME NEW i \in 1..Len(freeList)
        PROVE  freeList[i].base \in Nat /\ freeList[i].size \in Nat
    <3>1. freeList[i] \in Node
      BY <2>1, ElementOfSeq
    <3> QED BY <3>1 DEF Node
  <2> QED BY <2>1, <2>2, LenProperties
<1>6. PICK i \in 1..Len(freeList) : freeList[i].base <= lo /\ lo < NodeEnd(freeList[i])
  <2>1. Covers(freeList, lo)
    BY <1>3, <1>4
  <2> QED BY <2>1 DEF Covers, InNode
<1>7. PICK end \in Nat : end = NodeEnd(freeList[i]) /\ end = freeList[i].base + freeList[i].size
  BY <1>5 DEF NodeEnd
<1>8. hi <= end
  <2> SUFFICES ASSUME end < hi PROVE FALSE
    BY <1>3
  <2>1. end \in lo..hi - 1
    BY <1>3, <1>6, <1>7
  <2>2. PICK j \in 1..Len(freeList) : freeList[j].base <= end /\ end < NodeEnd(freeList[j])
    BY <1>4, <2>1 DEF Covers, InNode
  <2>3. i # j
    <3> SUFFICES ASSUME i = j PROVE FALSE
      OBVIOUS
    <3>1. end < NodeEnd(freeList[i]) /\ end = NodeEnd(freeList[i]) /\ end \in Nat
      BY <1>7, <2>2
    <3> QED BY ONLY <3>1
  <2>4. CASE i < j
    <3>1. NodeEnd(freeList[i]) < freeList[j].base
      BY <1>1, <2>4 DEF Shape, Separated
    <3>2. end < freeList[j].base /\ freeList[j].base <= end
      BY <1>7, <2>2, <3>1
    <3>3. end \in Nat /\ freeList[j].base \in Nat
      BY <1>5, <1>7
    <3> QED BY ONLY <3>2, <3>3
  <2>5. CASE j < i
    <3>1. NodeEnd(freeList[j]) < freeList[i].base
      BY <1>1, <2>5 DEF Shape, Separated
    <3>2. freeList[i].base <= NodeEnd(freeList[i])
      BY <1>5 DEF NodeEnd
    <3>3. NodeEnd(freeList[j]) \in Nat /\ freeList[i].base \in Nat /\ end \in Nat
      BY <1>5, <1>7, SMTT(30) DEF NodeEnd
    <3> QED BY <1>7, <2>2, <3>1, <3>2, <3>3
  <2> QED BY <1>5, <2>3, <2>4, <2>5
<1>9. OffsetIn(freeList[i].base, alignment) \in 12..12 + alignment - 1
  BY <1>5, OffsetBounds DEF HeaderSize
<1>10. Fits(freeList[i], alignment, s)
  <2>1. freeList[i] \in Node
    BY <1>1, ElementOfSeq DEF Shape
  <2>2. WithHeader(freeList[i], alignment, s) = s + OffsetIn(freeList[i].base, alignment)
    BY <2>1, RequestAssumption, SumsOfRequest
  <2> QED BY <1>3, <1>5, <1>6, <1>7, <1>8, <1>9, <2>2 DEF Fits
<1> QED BY <1>10 DEF CanAllocate

(***************************************************************************)
(* The heap implements the pool: every grant is memory nobody owns with    *)
(* room for the object, every refusal means there was no room.             *)
(***************************************************************************)
THEOREM HeapImplementsPool == Spec => PoolSpec
<1>1. Init => Pool!Init
  BY DEF Init, Pool!Init, NULL, Pool!NULL, AsksNothing, Pool!AsksNothing
<1>2. HeapInv /\ [Next]_vars => [Pool!Next]_(Pool!vars)
  <2> SUFFICES ASSUME HeapInv, [Next]_vars PROVE [Pool!Next]_(Pool!vars)
    OBVIOUS
  <2>1. ASSUME NEW s \in Sizes, NEW a \in Alignments, AlignedAlloc(a, s) PROVE Pool!Next
    <3>1. a \in Nat \ {0} /\ s \in Nat /\ NoWrap(a, s)
      BY RequestAssumption
    <3>2. PICK b : b = AllocatedBlock(freeList, a, s)
      OBVIOUS
    <3>3. /\ CanAllocate(freeList, a, s)
          /\ blocks' = blocks \cup {b}
          /\ request' = <<a, s>>
          /\ result' = Pointer(b)
      BY <2>1, <3>2 DEF AlignedAlloc
    <3>4. b \notin blocks /\ Pool!IsGrant(b, s)
      BY <3>1, <3>2, <3>3, GrantIsUnowned
    <3>5. Pool!Grant(a, s)
      BY <3>3, <3>4 DEF Pool!Grant, Pointer
    <3> QED BY <3>5 DEF Pool!Next
  <2>2. ASSUME NEW s \in Sizes, NEW a \in Alignments, AllocFails(a, s) PROVE Pool!Next
    <3>1. a \in Nat \ {0} /\ s \in Nat /\ NoWrap(a, s)
      BY RequestAssumption
    <3>2. Pool!Refuse(a, s)
      BY <2>2, <3>1, FailureMeansNoRoom DEF AllocFails, Pool!Refuse, NULL, Pool!NULL
    <3> QED BY <3>2 DEF Pool!Next
  <2>3. ASSUME NEW b \in blocks, Write(b) PROVE UNCHANGED Pool!vars
    BY <2>3 DEF Write, Pool!vars
  <2>4. ASSUME NEW b \in blocks, Free(b) PROVE Pool!Next
    BY <2>4 DEF Free, Pool!Next, Pool!Release, NULL, Pool!NULL, AsksNothing, Pool!AsksNothing
  <2>5. ASSUME NEW b \in blocks, NEW s \in Sizes, Realloc(b, s) PROVE Pool!Next
    <3>1. CASE ReallocFails(b, s)
      BY <2>4, <3>1 DEF ReallocFails
    <3>2. CASE ReallocMoves(b, s)
      <4>1. MallocAlignSize \in Nat \ {0} /\ s \in Nat /\ NoWrap(MallocAlignSize, s)
        BY RequestAssumption
      <4>2. PICK new : new = AllocatedBlock(freeList, MallocAlignSize, s)
        OBVIOUS
      <4>3. /\ CanAllocate(freeList, MallocAlignSize, s)
            /\ blocks' = (blocks \cup {new}) \ {b}
            /\ request' = <<1, s>>
            /\ result' = Pointer(new)
        BY <3>2, <4>2 DEF ReallocMoves
      <4>4. new \notin blocks /\ Pool!IsGrant(new, s)
        BY <4>1, <4>2, <4>3, GrantIsUnowned
      <4>5. Pool!Move(b, s)
        BY <4>3, <4>4 DEF Pool!Move, Pointer
      <4> QED BY <4>5 DEF Pool!Next
    <3> QED BY <2>5, <3>1, <3>2 DEF Realloc
  <2>6. CASE UNCHANGED vars
    BY <2>6 DEF vars, Pool!vars
  <2> QED BY <2>1, <2>2, <2>3, <2>4, <2>5, <2>6 DEF Next
<1> QED BY <1>1, <1>2, HeapCorrect, PTL DEF Spec, PoolSpec, Pool!Spec
=============================================================================
