---------------------------- MODULE MemoryMapProofs ----------------------------
(***************************************************************************)
(* Theorems about MemoryMap: from any tidy map the heap gets exactly the   *)
(* memory it may use, every byte of it once.                               *)
(***************************************************************************)
EXTENDS MemoryMap, FreeListProofs, FiniteSetTheorems

-----------------------------------------------------------------------------
(* Addresses are numbers below PointerSpan.                                *)

\* The three cases that occur.
LEMMA AsPointerOf ==
  /\ \A a \in Int : AsPointer(a) \in 0..PointerSpan - 1
  /\ \A a \in 0..PointerSpan - 1 : AsPointer(a) = a
  /\ \A a \in 1 - PointerSpan..-1 : AsPointer(a) = a + PointerSpan
  /\ \A a \in PointerSpan..2 * PointerSpan - 1 : AsPointer(a) = a - PointerSpan
<1>1. PointerSpan \in Nat \ {0}
  BY MemoryMapAssumption
<1>2. ASSUME NEW a \in Int PROVE a % PointerSpan \in 0..PointerSpan - 1
  BY <1>1
<1>3. ASSUME NEW a \in 0..PointerSpan - 1 PROVE a % PointerSpan = a
  <2>1. a \in Int /\ 0 \in Int /\ 0 * PointerSpan = 0
    BY <1>1
  <2> QED BY <1>1, <2>1, RemainderIs
<1>4. ASSUME NEW a \in 1 - PointerSpan..-1 PROVE a % PointerSpan = a + PointerSpan
  <2>1. a \in Int /\ -1 \in Int /\ (-1) * PointerSpan = -PointerSpan
    BY <1>1
  <2>2. a - (-1) * PointerSpan = a + PointerSpan /\ a + PointerSpan \in 0..PointerSpan - 1
    BY <1>1, <2>1
  <2> QED BY <1>1, <2>1, <2>2, RemainderIs
<1>5. ASSUME NEW a \in PointerSpan..2 * PointerSpan - 1 PROVE a % PointerSpan = a - PointerSpan
  <2>1. a \in Int /\ 1 \in Int /\ 1 * PointerSpan = PointerSpan
    BY <1>1
  <2>2. a - 1 * PointerSpan = a - PointerSpan /\ a - PointerSpan \in 0..PointerSpan - 1
    BY <1>1, <2>1
  <2> QED BY <1>1, <2>1, <2>2, RemainderIs
<1> QED BY <1>2, <1>3, <1>4, <1>5 DEF AsPointer

-----------------------------------------------------------------------------
(* The invariant.                                                          *)

InKernel(x) == KernelStart <= x /\ x < KernelEnd
InRegion(r, x) == RegionBase(r) <= x /\ x < RegionEnd(r)
InPiece(p, x) == p.base <= x /\ x < p.end

\* The loops change nothing in a tidy map but its first region.
RegionsInv ==
  /\ map \in Maps
  /\ step \in {"sort", "free", "done"}
  /\ regions = IF step = "sort" THEN map.regions ELSE Clamp(map.regions, map.first)
  /\ index \in 1..Len(regions) + 1 /\ at \in 1..Len(regions) + 1
  /\ step = "done" => index = Len(regions) + 1

\* What is due is memory of the region before index, outside the kernel, in two parts
\* at most.
PiecesInv ==
  /\ pieces \in Seq([base : Addresses, end : Addresses]) /\ Len(pieces) <= 2
  /\ pieces # <<>> => step = "free" /\ index > 1 /\ regions[index - 1].Type = AVAILIABLE
  /\ \A n \in 1..Len(pieces) :
       /\ RegionBase(regions[index - 1]) <= pieces[n].base
       /\ pieces[n].end <= RegionEnd(regions[index - 1])
       /\ pieces[n].end <= KernelStart \/ KernelEnd <= pieces[n].base
  /\ Len(pieces) = 2 => pieces[1].end <= pieces[2].base

\* The list is in order and merged, and what was freed is in it, once.
ListInv ==
  /\ freeList \in Seq(Node) /\ Separated(freeList) /\ AtLeast(freeList, 1)
  /\ freed \in Seq([base : Addresses, length : Addresses])
  /\ \A n \in 1..Len(freed) :
       /\ freed[n].length > 0
       /\ \A x \in freed[n].base..freed[n].base + freed[n].length - 1 : Covers(freeList, x)
  /\ FreedOnce
  /\ bytes \in Nat /\ bytes = Cardinality({a \in Addresses : Covers(freeList, a)})

\* The list has the bytes of the regions before index, but for the kernel's and for
\* those that are due.
Given(x) ==
  /\ \E k \in 1..index - 1 : regions[k].Type = AVAILIABLE /\ InRegion(regions[k], x)
  /\ ~InKernel(x)
Due(x) == \E n \in 1..Len(pieces) : InPiece(pieces[n], x)

BytesInv ==
  \A x \in Nat :
    Covers(freeList, x) <=> step # "sort" /\ Given(x) /\ ~Due(x)

TidyInv == RegionsInv /\ PiecesInv /\ ListInv /\ BytesInv

-----------------------------------------------------------------------------
(* The map.                                                                *)

\* Constants.
LEMMA Spans ==
  /\ PointerSpan \in Nat /\ KernelStart \in Addresses /\ KernelEnd \in Addresses
  /\ KernelStart <= KernelEnd /\ PointerSpan > 0
BY MemoryMapAssumption DEF Addresses

LEMMA MapTyped ==
  ASSUME NEW m \in Maps
  PROVE  /\ m.regions \in Seq(Region) /\ Len(m.regions) \in Nat \ {0}
         /\ m.first \in 1..PointerSpan - 1
         /\ \A i \in 1..Len(m.regions) :
              /\ m.regions[i] \in Region
              /\ m.regions[i].BaseAddress \in Nat /\ m.regions[i].Length \in Nat
              /\ m.regions[i].Type \in {AVAILIABLE, RESERVED}
<1>1. /\ m.regions \in Seq(Region) /\ m.regions # <<>>
      /\ m.first \in 1..PointerSpan - 1
  BY MemoryMapAssumption
<1>2. Len(m.regions) \in Nat \ {0}
  BY <1>1, LenProperties, EmptySeq
<1>3. \A i \in 1..Len(m.regions) : m.regions[i] \in Region
  BY <1>1, ElementOfSeq
<1> QED BY <1>1, <1>2, <1>3 DEF Region

\* The bounds of a region are addresses, and the region's own if it ends below the span.
LEMMA RegionBounds ==
  ASSUME NEW r \in Region
  PROVE  /\ RegionBase(r) \in Addresses /\ RegionEnd(r) \in Addresses
         /\ r.BaseAddress + r.Length < PointerSpan =>
              /\ RegionBase(r) = r.BaseAddress
              /\ RegionEnd(r) = r.BaseAddress + r.Length
<1>1. /\ r.BaseAddress \in Nat /\ r.Length \in Nat /\ PointerSpan \in Nat
      /\ r.BaseAddress \in Int
  BY Spans DEF Region
<1>2. RegionBase(r) \in Addresses
  BY <1>1, AsPointerOf DEF RegionBase, Addresses
<1>3. RegionEnd(r) \in Addresses
  <2>1. RegionBase(r) + r.Length \in Int
    BY <1>1, <1>2 DEF Addresses
  <2> QED BY <2>1, AsPointerOf DEF RegionEnd, Addresses
<1>4. ASSUME r.BaseAddress + r.Length < PointerSpan
      PROVE  RegionBase(r) = r.BaseAddress /\ RegionEnd(r) = r.BaseAddress + r.Length
  <2>1. r.BaseAddress \in 0..PointerSpan - 1 /\ r.BaseAddress + r.Length \in 0..PointerSpan - 1
    BY <1>1, <1>4
  <2>2. RegionBase(r) = r.BaseAddress
    BY <2>1, AsPointerOf DEF RegionBase
  <2> QED BY <2>1, <2>2, AsPointerOf DEF RegionEnd
<1> QED BY <1>2, <1>3, <1>4

\* A map in order is left as it is by sort_regions.
LEMMA SortedAlready ==
  ASSUME NEW m \in Maps, IsTidy(m), NEW i \in 1..Len(m.regions)
  PROVE  MoveBack(m.regions, i) = m.regions
<1>1. PICK rs : rs = m.regions
  OBVIOUS
<1>2. /\ rs \in Seq(Region)
      /\ \A k \in 1..Len(rs) : rs[k].BaseAddress \in Nat /\ rs[k].Length \in Nat
  BY <1>1, MapTyped
<1>3. ASSUME NEW k \in 1..Len(rs), k < i PROVE ~(rs[k].BaseAddress > rs[i].BaseAddress)
  <2>1. Precedes(rs[k], rs[i])
    BY <1>1, <1>3 DEF IsTidy
  <2> QED BY <1>1, <1>2, <2>1 DEF Precedes
<1>4. ASSUME NEW k \in 1..Len(rs)
      PROVE  ~(k < i /\ \A j \in k..i - 1 : rs[j].BaseAddress > rs[i].BaseAddress)
  <2> SUFFICES ASSUME k < i, \A j \in k..i - 1 : rs[j].BaseAddress > rs[i].BaseAddress
               PROVE  FALSE
    OBVIOUS
  <2>1. k \in k..i - 1
    BY <1>1, <1>2, LenProperties
  <2> QED BY <1>3, <2>1
<1>5. MoveBack(rs, i) = [k \in 1..Len(rs) |-> rs[k]]
  BY <1>4 DEF MoveBack
<1>6. rs = [k \in 1..Len(rs) |-> rs[k]]
  BY <1>2
<1> QED BY <1>1, <1>5, <1>6

\* Clamp changes the first region at most.
LEMMA ClampedTyped ==
  ASSUME NEW m \in Maps, NEW rs, rs = Clamp(m.regions, m.first)
  PROVE  /\ rs \in Seq(Region) /\ Len(rs) = Len(m.regions)
         /\ \A i \in 1..Len(rs) : rs[i] \in Region /\ rs[i].Type = m.regions[i].Type
         /\ \A i \in 1..Len(rs) :
              ~(i = 1 /\ m.regions[i].BaseAddress < m.first) => rs[i] = m.regions[i]
         /\ m.regions[1].BaseAddress < m.first =>
              /\ rs[1].BaseAddress = m.first
              /\ rs[1].Length = AsPointer(m.regions[1].BaseAddress + m.regions[1].Length - m.first)
<1>1. PICK was, first : was = m.regions /\ first = m.first
  OBVIOUS
<1>2. /\ was \in Seq(Region) /\ Len(was) \in Nat \ {0} /\ first \in 1..PointerSpan - 1
      /\ \A i \in 1..Len(was) :
           /\ was[i] \in Region
           /\ was[i].BaseAddress \in Nat /\ was[i].Length \in Nat
           /\ was[i].Type \in {AVAILIABLE, RESERVED}
  BY <1>1, MapTyped
<1>3. CASE was[1].BaseAddress >= first
  <2>1. rs = was
    BY <1>1, <1>2, <1>3 DEF Clamp
  <2> QED BY <1>1, <1>2, <1>3, <2>1
<1>4. CASE was[1].BaseAddress < first
  <2>1. PICK length : length = AsPointer(was[1].BaseAddress + was[1].Length - first)
    OBVIOUS
  <2>2. length \in Nat
    <3>1. was[1].BaseAddress + was[1].Length - first \in Int
      BY <1>2
    <3> QED BY <2>1, <3>1, Spans, AsPointerOf
  <2>3. PICK r : r = [was[1] EXCEPT !.BaseAddress = first, !.Length = length]
    OBVIOUS
  <2>4. /\ r \in Region /\ r.BaseAddress = first /\ r.Length = length
        /\ r.Type = was[1].Type
    <3>1. was[1] \in Region /\ first \in Nat
      BY <1>2
    <3>2. r = [BaseAddress |-> first, Length |-> length, Type |-> was[1].Type]
      BY <2>3, <3>1 DEF Region
    <3>3. was[1].Type \in {AVAILIABLE, RESERVED}
      BY <1>2
    <3> QED BY <2>2, <3>1, <3>2, <3>3 DEF Region
  <2>5. rs = [was EXCEPT ![1] = r]
    BY <1>1, <1>4, <2>1, <2>3 DEF Clamp
  <2>6. /\ rs \in Seq(Region) /\ Len(rs) = Len(was) /\ rs[1] = r
        /\ \A i \in 1..Len(was) : i # 1 => rs[i] = was[i]
    BY <1>2, <2>4, <2>5, ExceptSeq
  <2> QED BY <1>1, <1>2, <1>4, <2>1, <2>4, <2>6
<1> QED BY <1>1, <1>2, <1>3, <1>4

\* Where the regions lie after that.  One that ended below the first available byte has
\* its end before its start.
LEMMA ClampedBounds ==
  ASSUME NEW m \in Maps, IsTidy(m), NEW rs, rs = Clamp(m.regions, m.first),
         NEW i \in 1..Len(rs),
         NEW base, base = m.regions[i].BaseAddress,
         NEW end, end = base + m.regions[i].Length
  PROVE  /\ base \in Nat /\ end \in Nat /\ base <= end
         /\ RegionBase(rs[i]) \in Addresses /\ RegionEnd(rs[i]) \in Addresses
         /\ \/ /\ end < PointerSpan /\ RegionEnd(rs[i]) = end
               /\ RegionBase(rs[i]) = IF i = 1 /\ base < m.first THEN m.first ELSE base
            \/ rs[i].Type = RESERVED /\ end >= PointerSpan /\ RegionEnd(rs[i]) = 0
<1>1. /\ m.regions[i] \in Region /\ base \in Nat /\ m.regions[i].Length \in Nat /\ end \in Nat
      /\ base <= end /\ PointerSpan \in Nat /\ m.first \in 1..PointerSpan - 1
  BY MapTyped, ClampedTyped, Spans
<1>2. rs[i] \in Region /\ rs[i].Type = m.regions[i].Type
  BY ClampedTyped
<1>3. RegionBase(rs[i]) \in Addresses /\ RegionEnd(rs[i]) \in Addresses
  BY <1>2, RegionBounds
<1>4. InReach(m.regions[i], m.first)
  BY ClampedTyped DEF IsTidy
<1>5. CASE ~(i = 1 /\ base < m.first)
  <2>1. rs[i] = m.regions[i]
    BY <1>5, ClampedTyped
  <2>2. CASE end < PointerSpan
    BY <1>1, <1>3, <1>5, <2>1, <2>2, RegionBounds
  <2>3. CASE end >= PointerSpan
    BY <1>1, <1>3, <1>4, <2>1, <2>3 DEF InReach
  <2> QED BY <1>1, <2>2, <2>3
<1>6. CASE i = 1 /\ base < m.first
  <2>1. end < PointerSpan
    BY <1>1, <1>4, <1>6 DEF InReach
  <2>2. rs[i].BaseAddress = m.first /\ rs[i].Length = AsPointer(end - m.first)
    <3>1. m.regions[1].BaseAddress = base /\ base + m.regions[1].Length = end
      BY <1>6
    <3>2. /\ rs[1].BaseAddress = m.first
          /\ rs[1].Length = AsPointer(m.regions[1].BaseAddress + m.regions[1].Length - m.first)
      BY <1>6, <3>1, ClampedTyped
    <3>3. m.regions[1].BaseAddress + m.regions[1].Length - m.first = end - m.first
      BY <1>1, <1>6, <3>1
    <3>4. rs[i] = rs[1]
      BY <1>6
    <3> QED BY <3>2, <3>3, <3>4
  <2>3. RegionBase(rs[i]) = m.first
    BY <1>1, <2>2, AsPointerOf DEF RegionBase
  <2>4. RegionEnd(rs[i]) = AsPointer(m.first + AsPointer(end - m.first))
    BY <2>2, <2>3 DEF RegionEnd
  <2>5. AsPointer(m.first + AsPointer(end - m.first)) = end
    <3>1. CASE m.first <= end
      <4>1. end - m.first \in 0..PointerSpan - 1 /\ end \in 0..PointerSpan - 1
        BY <1>1, <2>1, <3>1
      <4>2. AsPointer(end - m.first) = end - m.first
        BY <4>1, AsPointerOf
      <4>3. m.first + (end - m.first) = end
        BY <1>1
      <4> QED BY <4>1, <4>2, <4>3, AsPointerOf
    <3>2. CASE end < m.first
      <4>1. end - m.first \in 1 - PointerSpan..-1
        BY <1>1, <2>1, <3>2
      <4>2. AsPointer(end - m.first) = end - m.first + PointerSpan
        BY <4>1, AsPointerOf
      <4>3. /\ m.first + (end - m.first + PointerSpan) = end + PointerSpan
            /\ (end + PointerSpan) - PointerSpan = end
        BY <1>1
      <4>5. end + PointerSpan \in PointerSpan..2 * PointerSpan - 1
        <5>1. PICK sum : sum = end + PointerSpan
          OBVIOUS
        <5>2. sum \in Int /\ PointerSpan <= sum /\ sum <= 2 * PointerSpan - 1
          BY <1>1, <2>1, <5>1, SMTT(30)
        <5> QED BY <1>1, <5>1, <5>2
      <4>4. AsPointer(end + PointerSpan) = (end + PointerSpan) - PointerSpan
        BY <4>5, AsPointerOf
      <4> QED BY <4>2, <4>3, <4>4
    <3> QED BY <1>1, <3>1, <3>2
  <2> QED BY <1>1, <1>3, <1>6, <2>1, <2>3, <2>4, <2>5
<1> QED BY <1>5, <1>6

\* Another region lies before an available one, behind it, or is empty.
LEMMA RegionsApart ==
  ASSUME NEW m \in Maps, IsTidy(m), NEW rs, rs = Clamp(m.regions, m.first),
         NEW k \in 1..Len(rs), NEW i \in 1..Len(rs), i # k, rs[k].Type = AVAILIABLE
  PROVE  /\ i < k => RegionEnd(rs[i]) <= RegionBase(rs[k])
         /\ \/ RegionEnd(rs[i]) <= RegionBase(rs[k])
            \/ RegionEnd(rs[k]) <= RegionBase(rs[i])
            \/ rs[i].Type = RESERVED /\ RegionBase(rs[i]) = RegionEnd(rs[i])
<1>1. PICK base, end, b, e :
        /\ base = m.regions[k].BaseAddress /\ end = base + m.regions[k].Length
        /\ b = m.regions[i].BaseAddress /\ e = b + m.regions[i].Length
  OBVIOUS
<1>2. /\ base \in Nat /\ end \in Nat /\ base <= end /\ b \in Nat /\ e \in Nat /\ b <= e
      /\ PointerSpan \in Nat /\ m.first \in 1..PointerSpan - 1 /\ Len(rs) = Len(m.regions)
      /\ m.regions[i].Length \in Nat /\ m.regions[k].Type = AVAILIABLE
      /\ rs[i].Type = m.regions[i].Type
  <2>1. Len(rs) = Len(m.regions) /\ rs[i].Type = m.regions[i].Type /\ m.regions[k].Type = AVAILIABLE
    BY ClampedTyped
  <2>2. base \in Nat /\ end \in Nat /\ base <= end
    BY <1>1, ClampedBounds
  <2>3. b \in Nat /\ e \in Nat /\ b <= e
    BY <1>1, ClampedBounds
  <2> QED BY <2>1, <2>2, <2>3, MapTyped, Spans
<1>3. /\ end < PointerSpan /\ RegionEnd(rs[k]) = end
      /\ RegionBase(rs[k]) = IF k = 1 /\ base < m.first THEN m.first ELSE base
  BY <1>1, ClampedBounds DEF AVAILIABLE, RESERVED
<1>4. \/ /\ e < PointerSpan /\ RegionEnd(rs[i]) = e
         /\ RegionBase(rs[i]) = IF i = 1 /\ b < m.first THEN m.first ELSE b
      \/ e >= PointerSpan /\ RegionEnd(rs[i]) = 0
  BY <1>1, ClampedBounds
<1>5. i \in Int /\ k \in Int /\ 1 <= i /\ 1 <= k
  OBVIOUS
<1>6. ASSUME i < k PROVE RegionEnd(rs[i]) <= RegionBase(rs[k])
  <2>1. Precedes(m.regions[i], m.regions[k])
    BY <1>2, <1>6 DEF IsTidy
  <2>2. ~IsEmpty(m.regions[k])
    BY <1>2 DEF IsEmpty, AVAILIABLE, RESERVED
  <2>3. e <= base
    BY <1>1, <2>1, <2>2 DEF Precedes
  <2> QED BY <1>2, <1>3, <1>4, <2>3
<1>7. ASSUME k < i
      PROVE  \/ RegionEnd(rs[i]) <= RegionBase(rs[k])
             \/ RegionEnd(rs[k]) <= RegionBase(rs[i])
             \/ rs[i].Type = RESERVED /\ RegionBase(rs[i]) = RegionEnd(rs[i])
  <2>1. Precedes(m.regions[k], m.regions[i])
    BY <1>2, <1>7 DEF IsTidy
  <2>2. i # 1
    BY <1>5, <1>7
  <2>3. CASE RegionEnd(rs[i]) = 0
    BY <1>2, <1>3, <2>3
  <2>4. CASE RegionEnd(rs[i]) = e /\ RegionBase(rs[i]) = b
    <3>1. CASE IsEmpty(m.regions[i])
      <4>1. m.regions[i].Length = 0 /\ rs[i].Type = RESERVED
        BY <1>2, <3>1 DEF IsEmpty
      <4>2. e = b
        BY <1>1, <1>2, <4>1
      <4> QED BY <2>4, <4>1, <4>2
    <3>2. CASE ~IsEmpty(m.regions[i])
      <4>1. end <= b
        BY <1>1, <2>1, <3>2 DEF Precedes
      <4> QED BY <1>3, <2>4, <4>1
    <3> QED BY <3>1, <3>2
  <2> QED BY <1>4, <2>2, <2>3, <2>4
<1> QED BY <1>5, <1>6, <1>7

\* What should be free is what is left of the available regions.
LEMMA ShouldBeFreeIs ==
  ASSUME map \in Maps, IsTidy(map), NEW rs, rs = Clamp(map.regions, map.first),
         NEW a \in Addresses
  PROVE  ShouldBeFree(a) <=>
           /\ \E k \in 1..Len(rs) : rs[k].Type = AVAILIABLE /\ InRegion(rs[k], a)
           /\ ~InKernel(a)
<1> DEFINE Base(i) == map.regions[i].BaseAddress
           End(i) == map.regions[i].BaseAddress + map.regions[i].Length
<1>1. /\ Len(rs) = Len(map.regions) /\ a \in Nat /\ a < PointerSpan
      /\ PointerSpan \in Nat /\ map.first \in 1..PointerSpan - 1
      /\ \A i \in 1..Len(rs) : rs[i].Type = map.regions[i].Type
  BY ClampedTyped, MapTyped, Spans DEF Addresses
<1>2. ASSUME NEW i \in 1..Len(rs), rs[i].Type = AVAILIABLE
      PROVE  /\ Base(i) \in Nat /\ End(i) \in Nat /\ RegionEnd(rs[i]) = End(i)
             /\ RegionBase(rs[i]) = IF i = 1 /\ Base(i) < map.first THEN map.first ELSE Base(i)
  BY <1>2, ClampedBounds DEF AVAILIABLE, RESERVED
<1>3. ASSUME ShouldBeFree(a)
      PROVE  /\ \E k \in 1..Len(rs) : rs[k].Type = AVAILIABLE /\ InRegion(rs[k], a)
             /\ ~InKernel(a)
  <2>1. PICK i \in 1..Len(rs) : map.regions[i].Type = AVAILIABLE /\ Base(i) <= a /\ a < End(i)
    BY <1>1, <1>3 DEF ShouldBeFree, Within
  <2>2. a >= map.first /\ ~InKernel(a)
    BY <1>3 DEF ShouldBeFree, InKernel
  <2>3. rs[i].Type = AVAILIABLE /\ RegionBase(rs[i]) <= a /\ a < RegionEnd(rs[i])
    BY <1>1, <1>2, <2>1, <2>2
  <2> QED BY <2>2, <2>3 DEF InRegion
<1>4. ASSUME NEW k \in 1..Len(rs), rs[k].Type = AVAILIABLE, InRegion(rs[k], a), ~InKernel(a)
      PROVE  ShouldBeFree(a)
  <2>1. /\ Base(k) \in Nat /\ End(k) \in Nat /\ a < End(k)
        /\ RegionBase(rs[k]) <= a
        /\ RegionBase(rs[k]) = IF k = 1 /\ Base(k) < map.first THEN map.first ELSE Base(k)
    BY <1>2, <1>4 DEF InRegion
  <2>2. Base(k) <= a
    BY <1>1, <2>1
  <2>3. a >= map.first
    <3>1. CASE k = 1
      BY <1>1, <2>1, <3>1
    <3>2. CASE k # 1
      <4>1. k \in 2..Len(map.regions) /\ map.regions[k].Type = AVAILIABLE
        BY <1>1, <1>4, <3>2
      <4>2. Base(k) >= map.first
        BY <4>1 DEF IsTidy
      <4> QED BY <1>1, <2>1, <2>2, <4>2
    <3> QED BY <3>1, <3>2
  <2>4. ASSUME NEW j \in 1..Len(map.regions), Base(j) <= a, a < End(j)
        PROVE  map.regions[j].Type = AVAILIABLE
    <3> SUFFICES ASSUME j # k PROVE FALSE
      BY <1>1, <1>4
    <3>1. Base(j) \in Nat /\ End(j) \in Nat /\ map.regions[j].Length \in Nat
      BY MapTyped
    <3>2. CASE j < k
      <4>1. Precedes(map.regions[j], map.regions[k])
        BY <1>1, <3>2 DEF IsTidy
      <4>2. ~IsEmpty(map.regions[k])
        BY <1>1, <1>4 DEF IsEmpty, AVAILIABLE, RESERVED
      <4>3. End(j) <= Base(k)
        BY <4>1, <4>2 DEF Precedes
      <4> QED BY <1>1, <2>1, <2>2, <2>4, <3>1, <4>3
    <3>3. CASE k < j
      <4>1. Precedes(map.regions[k], map.regions[j])
        BY <1>1, <3>3 DEF IsTidy
      <4>2. ~IsEmpty(map.regions[j])
        BY <1>1, <2>4, <3>1 DEF IsEmpty
      <4>3. End(k) <= Base(j)
        BY <4>1, <4>2 DEF Precedes
      <4> QED BY <1>1, <2>1, <2>4, <3>1, <4>3
    <3>4. j \in Int /\ k \in Int
      OBVIOUS
    <3> QED BY <3>2, <3>3, <3>4
  <2>5. map.regions[k].Type = AVAILIABLE
    BY <1>1, <1>4
  <2> QED BY <1>1, <1>4, <2>1, <2>2, <2>3, <2>4, <2>5 DEF ShouldBeFree, Within, InKernel
<1> QED BY <1>3, <1>4

\* What free_availiable_regions wants freed of a region is the region without the kernel.
LEMMA PiecesOf ==
  ASSUME NEW r \in Region, r.Type = AVAILIABLE, NEW ps, ps = Pieces(r)
  PROVE  /\ ps \in Seq([base : Addresses, end : Addresses]) /\ Len(ps) <= 2
         /\ \A n \in 1..Len(ps) :
              /\ RegionBase(r) <= ps[n].base /\ ps[n].end <= RegionEnd(r)
              /\ ps[n].end <= KernelStart \/ KernelEnd <= ps[n].base
         /\ Len(ps) = 2 => ps[1].end <= ps[2].base
         /\ \A x \in Nat : InRegion(r, x) /\ ~InKernel(x) <=>
                             \E n \in 1..Len(ps) : InPiece(ps[n], x)
<1>1. PICK base, end : base = RegionBase(r) /\ end = RegionEnd(r)
  OBVIOUS
<1>2. /\ base \in Addresses /\ end \in Addresses
      /\ KernelStart \in Addresses /\ KernelEnd \in Addresses /\ KernelStart <= KernelEnd
      /\ Addresses \subseteq Nat
  BY <1>1, RegionBounds, Spans DEF Addresses
<1>3. CASE ~(base < KernelEnd /\ KernelStart < end)
  <2>1. PICK p : p = Piece(base, end)
    OBVIOUS
  <2>2. p \in [base : Addresses, end : Addresses] /\ p.base = base /\ p.end = end
    BY <1>2, <2>1 DEF Piece
  <2>3. ps = <<p>>
    BY <1>1, <1>3, <2>1 DEF Pieces
  <2>4. Len(ps) = 1 /\ ps[1] = p /\ ps \in Seq([base : Addresses, end : Addresses])
    BY <2>2, <2>3
  <2>5. ASSUME NEW x \in Nat
        PROVE  InRegion(r, x) /\ ~InKernel(x) <=> InPiece(p, x)
    BY <1>1, <1>2, <1>3, <2>2 DEF InRegion, InKernel, InPiece
  <2>6. /\ RegionBase(r) <= p.base /\ p.end <= RegionEnd(r)
        /\ p.end <= KernelStart \/ KernelEnd <= p.base
    BY <1>1, <1>2, <1>3, <2>2
  <2> QED BY <2>4, <2>5, <2>6
<1>4. CASE base < KernelEnd /\ KernelStart < end
  <2>1. PICK p, q : p = Piece(base, KernelStart) /\ q = Piece(KernelEnd, end)
    OBVIOUS
  <2>2. /\ p \in [base : Addresses, end : Addresses] /\ p.base = base /\ p.end = KernelStart
        /\ q \in [base : Addresses, end : Addresses] /\ q.base = KernelEnd /\ q.end = end
    BY <1>2, <2>1 DEF Piece
  <2>3. ps = (IF KernelStart # base THEN <<p>> ELSE <<>>)
               \o (IF KernelEnd # end THEN <<q>> ELSE <<>>)
    BY <1>1, <1>4, <2>1 DEF Pieces
  <2>4. ASSUME NEW x \in Nat
        PROVE  InRegion(r, x) /\ ~InKernel(x) <=> InPiece(p, x) \/ InPiece(q, x)
    BY <1>1, <1>2, <1>4, <2>2 DEF InRegion, InKernel, InPiece
  <2>5. /\ RegionBase(r) <= p.base /\ p.end <= RegionEnd(r) /\ p.end <= KernelStart
        /\ RegionBase(r) <= q.base /\ q.end <= RegionEnd(r) /\ KernelEnd <= q.base
        /\ p.end <= q.base
    BY <1>1, <1>2, <1>4, <2>2
  <2>6. KernelStart = base => \A x \in Nat : ~InPiece(p, x)
    BY <1>2, <2>2 DEF InPiece
  <2>7. KernelEnd = end => \A x \in Nat : ~InPiece(q, x)
    BY <1>2, <2>2 DEF InPiece
  <2>8. CASE KernelStart # base /\ KernelEnd # end
    <3>1. PICK left, right : left = <<p>> /\ right = <<q>>
      OBVIOUS
    <3>2. /\ left \in Seq([base : Addresses, end : Addresses]) /\ Len(left) = 1 /\ left[1] = p
          /\ right \in Seq([base : Addresses, end : Addresses]) /\ Len(right) = 1 /\ right[1] = q
      BY <2>2, <3>1
    <3>3. ps = left \o right
      BY <2>3, <2>8, <3>1
    <3>4. /\ Len(ps) = 2 /\ ps[1] = p /\ ps[2] = q
          /\ ps \in Seq([base : Addresses, end : Addresses])
      BY <3>2, <3>3, ConcatProperties
    <3> QED BY <2>4, <2>5, <3>4
  <2>9. CASE KernelStart # base /\ KernelEnd = end
    <3>1. ps = <<p>>
      BY <2>3, <2>9
    <3>2. Len(ps) = 1 /\ ps[1] = p /\ ps \in Seq([base : Addresses, end : Addresses])
      BY <2>2, <3>1
    <3> QED BY <2>4, <2>5, <2>7, <2>9, <3>2
  <2>10. CASE KernelStart = base /\ KernelEnd # end
    <3>1. ps = <<q>>
      BY <2>3, <2>10
    <3>2. Len(ps) = 1 /\ ps[1] = q /\ ps \in Seq([base : Addresses, end : Addresses])
      BY <2>2, <3>1
    <3> QED BY <2>4, <2>5, <2>6, <2>10, <3>2
  <2>11. CASE KernelStart = base /\ KernelEnd = end
    <3>1. ps = <<>>
      BY <2>3, <2>11
    <3>2. Len(ps) = 0 /\ ps \in Seq([base : Addresses, end : Addresses])
      BY <3>1
    <3> QED BY <2>4, <2>6, <2>7, <2>11, <3>2
  <2> QED BY <2>8, <2>9, <2>10, <2>11
<1> QED BY <1>3, <1>4

-----------------------------------------------------------------------------
(* The list.                                                               *)

\* Bytes that are not in the list join it, and are counted.
LEMMA FreeBytesEffect ==
  ASSUME ListInv, NEW base \in Addresses, NEW end \in Addresses, base < end,
         \A x \in base..end - 1 : ~Covers(freeList, x), FreeBytes(base, end)
  PROVE  /\ ListInv'
         /\ \A x \in Nat :
              Covers(freeList', x) <=> Covers(freeList, x) \/ (base <= x /\ x < end)
<1>1. PICK length : length = end - base
  OBVIOUS
<1>2. /\ base \in Nat /\ end \in Nat /\ length \in Nat /\ 1 <= length /\ base + length = end
      /\ length \in Addresses /\ PointerSpan \in Nat /\ end < PointerSpan
  BY <1>1, Spans DEF Addresses
<1>3. /\ freed' = Append(freed, [base |-> base, length |-> length])
      /\ bytes' = bytes + length
      /\ freeList' = FreeMemory(freeList, base, length)
  BY <1>1 DEF FreeBytes
<1>4. /\ freeList' \in Seq(Node) /\ Separated(freeList') /\ AtLeast(freeList', 1)
      /\ \A x \in Nat : Covers(freeList', x) <=>
                          Covers(freeList, x) \/ (base <= x /\ x < base + length)
  <2>1. freeList \in Seq(Node) /\ Separated(freeList) /\ AtLeast(freeList, 1)
    BY DEF ListInv
  <2>2. \A x \in base..base + length - 1 : ~Covers(freeList, x)
    BY <1>2
  <2>3. 1 \in Nat \ {0}
    OBVIOUS
  <2> QED BY <1>2, <1>3, <2>1, <2>2, <2>3, FreeMemoryAtLeast
<1>5. \A x \in Nat : Covers(freeList', x) <=> Covers(freeList, x) \/ (base <= x /\ x < end)
  BY <1>2, <1>4
<1>6. PICK call \in [base : Addresses, length : Addresses] :
        /\ call = [base |-> base, length |-> length]
        /\ call.base = base /\ call.length = length
  <2>1. [base |-> base, length |-> length] \in [base : Addresses, length : Addresses]
    BY <1>2
  <2> QED BY <2>1
<1>7. PICK k \in Nat : k = Len(freed)
  BY LenProperties DEF ListInv
<1>8. /\ freed' \in Seq([base : Addresses, length : Addresses]) /\ Len(freed') = k + 1
      /\ \A n \in 1..k : freed'[n] = freed[n]
      /\ freed'[k + 1] = call
  BY <1>3, <1>6, <1>7, AppendProperties DEF ListInv
<1>9. \A n \in 1..k + 1 : n \in 1..k \/ n = k + 1
  OBVIOUS
<1>10. ASSUME NEW n \in 1..k
       PROVE  /\ freed[n].base \in Nat /\ freed[n].length \in Nat /\ freed[n].length > 0
              /\ \A x \in freed[n].base..freed[n].base + freed[n].length - 1 : Covers(freeList, x)
  <2>1. freed[n] \in [base : Addresses, length : Addresses]
    BY <1>7, ElementOfSeq DEF ListInv
  <2> QED BY <1>7, <2>1 DEF ListInv, Addresses
<1>11. ASSUME NEW n \in 1..k + 1
       PROVE  /\ freed'[n].length > 0
              /\ \A x \in freed'[n].base..freed'[n].base + freed'[n].length - 1 : Covers(freeList', x)
  <2>1. CASE n \in 1..k
    <3>1. ASSUME NEW x \in freed[n].base..freed[n].base + freed[n].length - 1
          PROVE  Covers(freeList', x)
      <4>1. x \in Nat /\ Covers(freeList, x)
        BY <1>10, <2>1
      <4> QED BY <1>5, <4>1
    <3> QED BY <1>8, <1>10, <2>1, <3>1
  <2>2. CASE n = k + 1
    <3>1. freed'[n].base = base /\ freed'[n].length = length
      BY <1>6, <1>8, <2>2
    <3>2. ASSUME NEW x \in base..base + length - 1 PROVE Covers(freeList', x)
      BY <1>2, <1>5
    <3> QED BY <1>2, <3>1, <3>2
  <2> QED BY <1>9, <2>1, <2>2
<1>12. FreedOnce'
  <2> SUFFICES ASSUME NEW i \in 1..k + 1, NEW j \in 1..k + 1, i < j
               PROVE  \/ freed'[i].base + freed'[i].length <= freed'[j].base
                      \/ freed'[j].base + freed'[j].length <= freed'[i].base
    BY <1>8 DEF FreedOnce
  <2>1. i \in 1..k
    OBVIOUS
  <2>2. CASE j \in 1..k
    BY <1>7, <1>8, <2>1, <2>2 DEF ListInv, FreedOnce
  <2>3. CASE j = k + 1
    <3>1. PICK b \in Nat, l \in Nat : b = freed[i].base /\ l = freed[i].length
      BY <1>10, <2>1
    <3>2. l > 0 /\ \A x \in b..b + l - 1 : Covers(freeList, x)
      BY <1>10, <2>1, <3>1
    <3>3. b + l <= base \/ end <= b
      <4> SUFFICES ASSUME base < b + l, b < end PROVE FALSE
        BY <1>2, <3>1
      <4>1. CASE b <= base
        <5>1. base \in b..b + l - 1 /\ base \in base..end - 1
          BY <1>2, <3>1, <4>1
        <5> QED BY <3>2, <5>1
      <4>2. CASE base < b
        <5>1. b \in b..b + l - 1 /\ b \in base..end - 1
          BY <1>2, <3>1, <3>2, <4>2
        <5> QED BY <3>2, <5>1
      <4> QED BY <1>2, <3>1, <4>1, <4>2
    <3>4. freed'[i].base = b /\ freed'[i].length = l /\ freed'[j].base = base /\ freed'[j].length = length
      BY <1>6, <1>8, <2>1, <2>3, <3>1
    <3> QED BY <1>2, <3>3, <3>4
  <2> QED BY <1>9, <2>2, <2>3
<1>13. bytes' \in Nat /\ bytes' = Cardinality({a \in Addresses : Covers(freeList', a)})
  <2> DEFINE Was == {a \in Addresses : Covers(freeList, a)}
             Now == {a \in Addresses : Covers(freeList', a)}
  <2>1. IsFiniteSet(Addresses) /\ IsFiniteSet(Was)
    <3>1. IsFiniteSet(0..PointerSpan - 1)
      BY <1>2, FS_Interval
    <3>2. IsFiniteSet(Addresses)
      BY <3>1 DEF Addresses
    <3>3. Was \subseteq Addresses
      OBVIOUS
    <3> HIDE DEF Was
    <3> QED BY <3>2, <3>3, FS_Subset
  <2>2. IsFiniteSet(base..end - 1) /\ Cardinality(base..end - 1) = length
    <3>1. base \in Int /\ end - 1 \in Int /\ base <= end - 1 /\ (end - 1) - base + 1 = length
      BY <1>1, <1>2
    <3>2. /\ IsFiniteSet(base..end - 1)
          /\ Cardinality(base..end - 1) = IF base > end - 1 THEN 0 ELSE (end - 1) - base + 1
      BY <3>1, FS_Interval
    <3> QED BY <3>1, <3>2
  <2>3. Now = Was \cup (base..end - 1)
    <3>1. ASSUME NEW a \in Addresses
          PROVE  Covers(freeList', a) <=> Covers(freeList, a) \/ a \in base..end - 1
      <4>1. a \in Nat
        BY DEF Addresses
      <4> QED BY <1>2, <1>5, <4>1
    <3>2. base..end - 1 \subseteq Addresses
      BY <1>2 DEF Addresses
    <3> QED BY <3>1, <3>2
  <2>4. Was \cap (base..end - 1) = {}
    OBVIOUS
  <2>5. bytes \in Nat /\ bytes = Cardinality(Was)
    BY DEF ListInv
  <2> HIDE DEF Was, Now
  <2>6. Cardinality(Now) = Cardinality(Was) + Cardinality(base..end - 1) - Cardinality({})
    BY <2>1, <2>2, <2>3, <2>4, FS_Union
  <2>7. Cardinality({}) = 0
    BY FS_EmptySet
  <2>8. bytes' = Cardinality(Now) /\ bytes' \in Nat
    BY <1>2, <1>3, <2>2, <2>5, <2>6, <2>7
  <2> QED BY <2>8 DEF Now
<1> QED BY <1>4, <1>5, <1>8, <1>11, <1>12, <1>13 DEF ListInv

-----------------------------------------------------------------------------
(* The steps.                                                              *)

\* The first of the pieces due.
LEMMA FirstPiece ==
  ASSUME RegionsInv, PiecesInv, pieces # <<>>
  PROVE  /\ Len(pieces) \in 1..2
         /\ pieces[1] \in [base : Addresses, end : Addresses]
         /\ pieces[1].base \in Nat /\ pieces[1].end \in Nat
         /\ pieces[1].base \in Addresses /\ pieces[1].end \in Addresses
         /\ index - 1 \in 1..Len(regions) /\ regions[index - 1].Type = AVAILIABLE
         /\ RegionBase(regions[index - 1]) <= pieces[1].base
         /\ pieces[1].end <= RegionEnd(regions[index - 1])
         /\ pieces[1].end <= KernelStart \/ KernelEnd <= pieces[1].base
         /\ Len(pieces) = 2 => /\ pieces[2] \in [base : Addresses, end : Addresses]
                               /\ pieces[1].end <= pieces[2].base
<1>1. Len(pieces) \in 1..2
  <2>1. pieces \in Seq([base : Addresses, end : Addresses]) /\ Len(pieces) <= 2
    BY DEF PiecesInv
  <2>2. PICK n \in Nat : n = Len(pieces)
    BY <2>1, LenProperties
  <2>3. n # 0 /\ n <= 2
    BY <2>1, <2>2, EmptySeq
  <2> QED BY <2>2, <2>3
<1>2. 1 \in 1..Len(pieces) /\ (Len(pieces) = 2 => 2 \in 1..Len(pieces))
  BY <1>1
<1>3. \A n \in 1..Len(pieces) : pieces[n] \in [base : Addresses, end : Addresses]
  BY ElementOfSeq DEF PiecesInv
<1>4. Addresses \subseteq Nat
  BY Spans DEF Addresses
<1>5. index - 1 \in 1..Len(regions)
  BY DEF RegionsInv, PiecesInv
<1> QED BY <1>1, <1>2, <1>3, <1>4, <1>5 DEF PiecesInv

\* The regions while memory is freed.
LEMMA RegionsTyped ==
  ASSUME RegionsInv
  PROVE  /\ regions \in Seq(Region) /\ Len(regions) \in Nat \ {0}
         /\ Len(regions) = Len(map.regions)
         /\ \A i \in 1..Len(regions) :
              /\ regions[i] \in Region
              /\ RegionBase(regions[i]) \in Nat /\ RegionEnd(regions[i]) \in Nat
<1>1. regions \in Seq(Region) /\ Len(regions) = Len(map.regions)
  BY MapTyped, ClampedTyped DEF RegionsInv
<1>2. Len(regions) \in Nat \ {0}
  BY <1>1, MapTyped DEF RegionsInv
<1>3. ASSUME NEW i \in 1..Len(regions)
      PROVE  /\ regions[i] \in Region
             /\ RegionBase(regions[i]) \in Nat /\ RegionEnd(regions[i]) \in Nat
  <2>1. regions[i] \in Region
    BY <1>1, ElementOfSeq
  <2> QED BY <2>1, RegionBounds, Spans DEF Addresses
<1> QED BY <1>1, <1>2, <1>3

\* A part of the first piece is freed, and is no longer due.
LEMMA PartFreed ==
  ASSUME TidyInv, pieces # <<>>,
         NEW base \in Addresses, NEW end \in Addresses, base < end,
         pieces[1].base <= base, end <= pieces[1].end,
         FreeBytes(base, end), step' = step, index' = index, regions' = regions,
         \A x \in Nat : /\ Due(x) <=> Due(x)' \/ (base <= x /\ x < end)
                        /\ ~(Due(x)' /\ base <= x /\ x < end)
  PROVE  ListInv' /\ BytesInv'
<1>1. /\ index - 1 \in 1..Len(regions) /\ regions[index - 1].Type = AVAILIABLE
      /\ RegionBase(regions[index - 1]) <= pieces[1].base
      /\ pieces[1].end <= RegionEnd(regions[index - 1])
      /\ pieces[1].end <= KernelStart \/ KernelEnd <= pieces[1].base
      /\ pieces[1].base \in Nat /\ pieces[1].end \in Nat
  BY FirstPiece DEF TidyInv
<1>2. base \in Nat /\ end \in Nat /\ KernelStart \in Nat /\ KernelEnd \in Nat
  BY Spans DEF Addresses
<1>3. RegionBase(regions[index - 1]) \in Nat /\ RegionEnd(regions[index - 1]) \in Nat
  BY <1>1, RegionsTyped DEF TidyInv
<1>4. step = "free"
  BY DEF TidyInv, PiecesInv
<1>5. \A x \in base..end - 1 : ~Covers(freeList, x)
  <2> SUFFICES ASSUME NEW x \in base..end - 1 PROVE ~Covers(freeList, x)
    OBVIOUS
  <2>1. x \in Nat /\ base <= x /\ x < end
    BY <1>2
  <2>2. Due(x)
    BY <2>1
  <2> QED BY <2>1, <2>2 DEF TidyInv, BytesInv
<1>6. /\ ListInv'
      /\ \A x \in Nat : Covers(freeList', x) <=> Covers(freeList, x) \/ (base <= x /\ x < end)
  BY <1>5, FreeBytesEffect DEF TidyInv
<1>7. ASSUME NEW x \in Nat, base <= x, x < end PROVE Given(x)
  <2>1. InRegion(regions[index - 1], x) /\ ~InKernel(x)
    BY <1>1, <1>2, <1>3, <1>7 DEF InRegion, InKernel
  <2>2. index - 1 \in 1..index - 1
    BY <1>1
  <2> QED BY <1>1, <2>1, <2>2 DEF Given
<1>8. ASSUME NEW x \in Nat PROVE Covers(freeList', x) <=> step' # "sort" /\ Given(x)' /\ ~Due(x)'
  <2>1. Given(x)' <=> Given(x)
    BY DEF Given
  <2>2. Covers(freeList, x) <=> Given(x) /\ ~Due(x)
    BY <1>4 DEF TidyInv, BytesInv
  <2>3. step' # "sort"
    BY <1>4
  <2>4. Due(x) <=> Due(x)' \/ (base <= x /\ x < end)
    OBVIOUS
  <2>5. ~(Due(x)' /\ base <= x /\ x < end)
    OBVIOUS
  <2> QED BY <1>6, <1>7, <2>1, <2>2, <2>3, <2>4, <2>5
<1> QED BY <1>6, <1>8 DEF BytesInv

\* sort_regions finds the map in order.
LEMMA SortNextKeeps ==
  ASSUME \A m \in Maps : IsTidy(m), TidyInv, SortNext PROVE TidyInv'
<1>1. /\ map \in Maps /\ step = "sort" /\ regions = map.regions
      /\ index \in 1..Len(regions) /\ index' = index + 1
  BY DEF SortNext, TidyInv, RegionsInv
<1>2. regions' = regions
  BY <1>1, SortedAlready DEF SortNext
<1>3. Len(regions) \in Nat
  BY <1>1, MapTyped
<1>4. RegionsInv'
  BY <1>1, <1>2, <1>3 DEF SortNext, TidyInv, RegionsInv
<1>5. pieces = <<>> /\ pieces' = pieces
  BY <1>1 DEF SortNext, TidyInv, PiecesInv
<1>6. PiecesInv'
  BY <1>5, EmptySeq DEF TidyInv, PiecesInv
<1>7. ListInv'
  BY DEF SortNext, TidyInv, ListInv, FreedOnce
<1>8. BytesInv'
  BY <1>1 DEF SortNext, TidyInv, BytesInv
<1> QED BY <1>4, <1>6, <1>7, <1>8 DEF TidyInv

\* The first region is cut.
LEMMA ClampFirstKeeps ==
  ASSUME TidyInv, ClampFirst PROVE TidyInv'
<1>1. /\ map \in Maps /\ step = "sort" /\ regions = map.regions
      /\ map' = map /\ step' = "free" /\ index' = 1 /\ at' = at
      /\ regions' = Clamp(map.regions, map.first)
  BY DEF ClampFirst, TidyInv, RegionsInv
<1>2. Len(regions') = Len(regions) /\ Len(regions) \in Nat
  BY <1>1, ClampedTyped, MapTyped
<1>3. RegionsInv'
  BY <1>1, <1>2 DEF TidyInv, RegionsInv
<1>4. pieces = <<>> /\ pieces' = pieces
  BY <1>1 DEF ClampFirst, TidyInv, PiecesInv
<1>5. PiecesInv'
  BY <1>4, EmptySeq DEF TidyInv, PiecesInv
<1>6. ListInv'
  BY DEF ClampFirst, TidyInv, ListInv, FreedOnce
<1>7. BytesInv'
  <2> SUFFICES ASSUME NEW x \in Nat
               PROVE  ~Covers(freeList', x) /\ ~Given(x)'
    BY DEF BytesInv
  <2>1. ~Covers(freeList, x)
    BY <1>1 DEF TidyInv, BytesInv
  <2>2. ~Given(x)'
    BY <1>1 DEF Given
  <2> QED BY <2>1, <2>2 DEF ClampFirst
<1> QED BY <1>3, <1>5, <1>6, <1>7 DEF TidyInv

\* What a region adds is due, and was not given before.
LEMMA NextRegionKeeps ==
  ASSUME \A m \in Maps : IsTidy(m), TidyInv, NextRegion PROVE TidyInv'
<1>1. /\ map \in Maps /\ step = "free" /\ pieces = <<>>
      /\ index \in 1..Len(regions) /\ index' = index + 1 /\ at' = 1
      /\ map' = map /\ regions' = regions /\ step' = step
      /\ pieces' = Pieces(regions[index])
      /\ freed' = freed /\ bytes' = bytes /\ freeList' = freeList
      /\ regions = Clamp(map.regions, map.first) /\ IsTidy(map)
  BY DEF NextRegion, TidyInv, RegionsInv
<1>2. /\ Len(regions) \in Nat \ {0} /\ regions[index] \in Region
      /\ \A i \in 1..Len(regions) : RegionBase(regions[i]) \in Nat /\ RegionEnd(regions[i]) \in Nat
  BY <1>1, RegionsTyped DEF TidyInv
<1>3. RegionsInv'
  BY <1>1, <1>2 DEF TidyInv, RegionsInv
<1>4. ListInv'
  BY <1>1 DEF TidyInv, ListInv, FreedOnce
<1>5. ASSUME NEW x \in Nat PROVE Covers(freeList', x) <=> Given(x)
  <2>1. Len(pieces) = 0
    BY <1>1
  <2>2. ~Due(x)
    BY <2>1 DEF Due
  <2> QED BY <1>1, <2>2 DEF TidyInv, BytesInv
<1>6. ASSUME NEW k PROVE k \in 1..index' - 1 <=> k \in 1..index - 1 \/ k = index
  BY <1>1
<1>7. CASE regions[index].Type # AVAILIABLE
  <2>1. pieces' = <<>>
    BY <1>1, <1>7 DEF Pieces
  <2>2. PiecesInv'
    BY <2>1, EmptySeq DEF PiecesInv
  <2>3. ASSUME NEW x \in Nat PROVE Given(x)' <=> Given(x)
    BY <1>1, <1>6, <1>7 DEF Given
  <2>4. ASSUME NEW x \in Nat PROVE ~Due(x)'
    BY <2>1 DEF Due
  <2>5. BytesInv'
    BY <1>1, <1>5, <2>3, <2>4 DEF BytesInv
  <2> QED BY <1>3, <1>4, <2>2, <2>5 DEF TidyInv
<1>8. CASE regions[index].Type = AVAILIABLE
  <2>1. PICK ps : ps = Pieces(regions[index])
    OBVIOUS
  <2>2. /\ ps \in Seq([base : Addresses, end : Addresses]) /\ Len(ps) <= 2
        /\ \A n \in 1..Len(ps) :
             /\ RegionBase(regions[index]) <= ps[n].base /\ ps[n].end <= RegionEnd(regions[index])
             /\ ps[n].end <= KernelStart \/ KernelEnd <= ps[n].base
        /\ Len(ps) = 2 => ps[1].end <= ps[2].base
        /\ \A x \in Nat : InRegion(regions[index], x) /\ ~InKernel(x) <=>
                            \E n \in 1..Len(ps) : InPiece(ps[n], x)
    BY <1>2, <1>8, <2>1, PiecesOf
  <2>3. PiecesInv'
    <3>1. pieces' = ps /\ index' - 1 = index /\ index' > 1
      BY <1>1, <2>1
    <3> QED BY <1>1, <1>8, <2>2, <3>1 DEF PiecesInv, Addresses
  <2>4. ASSUME NEW x \in Nat
        PROVE  Due(x)' <=> InRegion(regions[index], x) /\ ~InKernel(x)
    BY <1>1, <2>1, <2>2 DEF Due, InPiece
  <2>5. ASSUME NEW x \in Nat
        PROVE  Given(x)' <=> Given(x) \/ (InRegion(regions[index], x) /\ ~InKernel(x))
    BY <1>1, <1>6, <1>8 DEF Given, InRegion, RegionBase, RegionEnd, AsPointer, InKernel
  <2>6. ASSUME NEW x \in Nat, Given(x) PROVE ~InRegion(regions[index], x)
    <3>1. PICK k \in 1..index - 1 : regions[k].Type = AVAILIABLE /\ InRegion(regions[k], x)
      BY <2>6 DEF Given
    <3>2. k \in 1..Len(regions) /\ k < index
      BY <1>1, <1>2, <3>1
    <3>3. RegionEnd(regions[k]) <= RegionBase(regions[index])
      BY <1>1, <1>8, <3>2, RegionsApart
    <3> QED BY <1>1, <1>2, <3>1, <3>2, <3>3 DEF InRegion
  <2>7. BytesInv'
    BY <1>1, <1>5, <2>4, <2>5, <2>6 DEF BytesInv
  <2> QED BY <1>3, <1>4, <2>3, <2>7 DEF TidyInv
<1> QED BY <1>7, <1>8

\* The loop goes on to the next region.
LEMMA LoopKeeps ==
  ASSUME TidyInv, GoPast \/ StopBehind PROVE TidyInv'
<1>1. /\ map' = map /\ regions' = regions /\ step' = step /\ index' = index /\ pieces' = pieces
      /\ freed' = freed /\ bytes' = bytes /\ freeList' = freeList
      /\ at \in 1..Len(regions) /\ at' \in {at + 1, Len(regions) + 1}
  BY DEF GoPast, StopBehind, FreeNothing, InLoop, TidyInv, RegionsInv
<1>2. Len(regions) \in Nat
  BY RegionsTyped DEF TidyInv
<1>3. RegionsInv'
  BY <1>1, <1>2 DEF TidyInv, RegionsInv
<1>4. PiecesInv'
  BY <1>1 DEF TidyInv, PiecesInv, Addresses
<1>5. ListInv'
  BY <1>1 DEF TidyInv, ListInv, FreedOnce
<1>6. BytesInv'
  <2>1. ASSUME NEW x \in Nat PROVE (Given(x)' <=> Given(x)) /\ (Due(x)' <=> Due(x))
    BY <1>1 DEF Given, Due
  <2> QED BY <1>1, <2>1 DEF TidyInv, BytesInv
<1> QED BY <1>3, <1>4, <1>5, <1>6 DEF TidyInv

\* A region that overlaps the piece is empty and lies in it; the piece is freed up to it.
LEMMA FreeBeforeKeeps ==
  ASSUME \A m \in Maps : IsTidy(m), TidyInv, FreeBefore PROVE TidyInv'
<1>1. PICK base, piece : base = RegionBase(regions[at]) /\ piece = pieces[1]
  OBVIOUS
<1>2. /\ map \in Maps /\ step = "free" /\ pieces # <<>> /\ at \in 1..Len(regions)
      /\ map' = map /\ regions' = regions /\ step' = step /\ index' = index /\ at' = at + 1
      /\ regions = Clamp(map.regions, map.first) /\ IsTidy(map)
      /\ pieces' = [pieces EXCEPT ![1].base = base]
      /\ at # index - 1
  BY <1>1 DEF FreeBefore, InLoop, Ignored, TidyInv, RegionsInv, PiecesInv
<1>3. /\ Len(pieces) \in 1..2
      /\ piece \in [base : Addresses, end : Addresses]
      /\ piece.base \in Nat /\ piece.end \in Nat
      /\ piece.base \in Addresses /\ piece.end \in Addresses
      /\ index - 1 \in 1..Len(regions) /\ regions[index - 1].Type = AVAILIABLE
      /\ RegionBase(regions[index - 1]) <= piece.base
      /\ piece.end <= RegionEnd(regions[index - 1])
      /\ piece.end <= KernelStart \/ KernelEnd <= piece.base
      /\ Len(pieces) = 2 => /\ pieces[2] \in [base : Addresses, end : Addresses]
                            /\ piece.end <= pieces[2].base
  BY <1>1, <1>2, FirstPiece DEF TidyInv
<1>4. /\ Len(regions) \in Nat /\ regions[at] \in Region
      /\ \A i \in 1..Len(regions) : RegionBase(regions[i]) \in Nat /\ RegionEnd(regions[i]) \in Nat
  BY <1>2, RegionsTyped DEF TidyInv
<1>5. base \in Addresses /\ base \in Nat /\ KernelStart \in Nat /\ KernelEnd \in Nat
  BY <1>1, <1>4, RegionBounds, Spans DEF Addresses
<1>6. piece.base < base /\ base < piece.end
  <2>1. piece.base < RegionEnd(regions[at])
    BY <1>1, <1>2, <1>3, <1>4 DEF FreeBefore, GoesPast
  <2>2. base < piece.end
    BY <1>1, <1>2, <1>3, <1>4, <2>1 DEF FreeBefore, IsBehind
  <2>3. \/ RegionEnd(regions[at]) <= RegionBase(regions[index - 1])
        \/ RegionEnd(regions[index - 1]) <= RegionBase(regions[at])
        \/ RegionBase(regions[at]) = RegionEnd(regions[at])
    BY <1>2, <1>3, RegionsApart
  <2> QED BY <1>1, <1>2, <1>3, <1>4, <2>1, <2>2, <2>3
<1>7. FreeBytes(piece.base, base)
  BY <1>1, <1>3, <1>5, <1>6 DEF FreeBefore
<1>8. PICK rest : rest = [piece EXCEPT !.base = base]
  OBVIOUS
<1>9. /\ rest \in [base : Addresses, end : Addresses] /\ rest.base = base /\ rest.end = piece.end
  BY <1>3, <1>5, <1>8
<1>10. /\ pieces' \in Seq([base : Addresses, end : Addresses]) /\ Len(pieces') = Len(pieces)
       /\ pieces'[1] = rest
       /\ Len(pieces) = 2 => pieces'[2] = pieces[2]
  <2>1. pieces' = [pieces EXCEPT ![1] = rest]
    BY <1>1, <1>2, <1>8
  <2>2. 1 \in 1..Len(pieces) /\ pieces \in Seq([base : Addresses, end : Addresses])
    BY <1>3 DEF TidyInv, PiecesInv
  <2>3. /\ pieces' \in Seq([base : Addresses, end : Addresses]) /\ Len(pieces') = Len(pieces)
        /\ \A j \in 1..Len(pieces) : pieces'[j] = IF j = 1 THEN rest ELSE pieces[j]
    BY <1>9, <2>1, <2>2, ExceptSeq
  <2> QED BY <2>2, <2>3
<1>11. \A n : n \in 1..Len(pieces) <=> n = 1 \/ (n = 2 /\ Len(pieces) = 2)
  <2>1. CASE Len(pieces) = 1
    BY <2>1
  <2>2. CASE Len(pieces) = 2
    BY <2>2
  <2> QED BY <1>3, <2>1, <2>2
<1>12. RegionsInv'
  BY <1>2, <1>4 DEF TidyInv, RegionsInv
<1>13. PiecesInv'
  <2>1. /\ pieces' \in Seq([base : Addresses, end : Addresses]) /\ Len(pieces') <= 2
        /\ step' = "free" /\ index' > 1 /\ regions'[index' - 1].Type = AVAILIABLE
    <3>1. Len(pieces') <= 2
      BY <1>10 DEF TidyInv, PiecesInv
    <3>2. index > 1
      BY <1>2 DEF TidyInv, PiecesInv
    <3> QED BY <1>2, <1>3, <1>10, <3>1, <3>2
  <2>2. ASSUME NEW n \in 1..Len(pieces)
        PROVE  /\ RegionBase(regions[index - 1]) <= pieces'[n].base
               /\ pieces'[n].end <= RegionEnd(regions[index - 1])
               /\ pieces'[n].end <= KernelStart \/ KernelEnd <= pieces'[n].base
    <3>1. CASE n = 1
      BY <1>3, <1>4, <1>5, <1>6, <1>9, <1>10, <3>1
    <3>2. CASE n = 2 /\ Len(pieces) = 2
      BY <1>10, <3>2 DEF TidyInv, PiecesInv
    <3> QED BY <1>11, <3>1, <3>2
  <2>3. Len(pieces') = 2 => pieces'[1].end <= pieces'[2].base
    BY <1>3, <1>9, <1>10
  <2>4. RegionBase(regions[index - 1])' = RegionBase(regions[index - 1]) /\ RegionEnd(regions[index - 1])' = RegionEnd(regions[index - 1])
    BY <1>2
  <2> QED BY <1>2, <1>10, <2>1, <2>2, <2>3, <2>4 DEF PiecesInv, Addresses
<1>14. ASSUME NEW x \in Nat
       PROVE  /\ Due(x) <=> Due(x)' \/ (piece.base <= x /\ x < base)
              /\ ~(Due(x)' /\ piece.base <= x /\ x < base)
  <2>1. Due(x) <=> InPiece(piece, x) \/ (Len(pieces) = 2 /\ InPiece(pieces[2], x))
    BY <1>1, <1>11 DEF Due
  <2>2. Due(x)' <=> InPiece(rest, x) \/ (Len(pieces) = 2 /\ InPiece(pieces[2], x))
    BY <1>10, <1>11 DEF Due, InPiece
  <2>3. InPiece(piece, x) <=> InPiece(rest, x) \/ (piece.base <= x /\ x < base)
    BY <1>3, <1>5, <1>6, <1>9 DEF InPiece
  <2>4. x < base => ~InPiece(rest, x) /\ ~(Len(pieces) = 2 /\ InPiece(pieces[2], x))
    <3>1. x < base => ~InPiece(rest, x)
      BY <1>5, <1>9 DEF InPiece
    <3>2. ASSUME Len(pieces) = 2, x < base PROVE ~InPiece(pieces[2], x)
      <4>1. pieces[2].base \in Nat
        BY <1>3, <3>2, Spans DEF Addresses
      <4> QED BY <1>3, <1>5, <1>6, <3>2, <4>1 DEF InPiece
    <3> QED BY <3>1, <3>2
  <2> QED BY <2>1, <2>2, <2>3, <2>4
<1>15. ListInv' /\ BytesInv'
  <2>1. pieces[1].base <= piece.base /\ base <= pieces[1].end /\ piece.base \in Addresses
    BY <1>1, <1>3, <1>5, <1>6
  <2> QED BY <1>2, <1>5, <1>6, <1>7, <1>14, <2>1, PartFreed
<1> QED BY <1>12, <1>13, <1>15 DEF TidyInv

\* What remains of the piece is freed.
LEMMA FreeRestKeeps ==
  ASSUME TidyInv, FreeRest PROVE TidyInv'
<1>1. PICK piece : piece = pieces[1]
  OBVIOUS
<1>2. /\ pieces # <<>> /\ pieces' = Tail(pieces) /\ at' = 1
      /\ map' = map /\ regions' = regions /\ step' = step /\ index' = index
  BY DEF FreeRest
<1>3. /\ Len(pieces) \in 1..2
      /\ piece.base \in Nat /\ piece.end \in Nat
      /\ piece.base \in Addresses /\ piece.end \in Addresses
      /\ Len(pieces) = 2 => /\ pieces[2] \in [base : Addresses, end : Addresses]
                            /\ piece.end <= pieces[2].base
  BY <1>1, <1>2, FirstPiece DEF TidyInv
<1>4. /\ pieces' \in Seq([base : Addresses, end : Addresses])
      /\ Len(pieces') = Len(pieces) - 1
      /\ Len(pieces) = 2 => pieces'[1] = pieces[2]
  <2>1. pieces \in Seq([base : Addresses, end : Addresses])
    BY DEF TidyInv, PiecesInv
  <2>2. /\ pieces' \in Seq([base : Addresses, end : Addresses])
        /\ Len(pieces') = Len(pieces) - 1
        /\ \A i \in 1..Len(pieces) - 1 : pieces'[i] = pieces[i + 1]
    BY <1>2, <2>1, HeadTailProperties
  <2>3. Len(pieces) = 2 => 1 \in 1..Len(pieces) - 1 /\ 1 + 1 = 2
    OBVIOUS
  <2> QED BY <2>2, <2>3
<1>5. /\ \A n : n \in 1..Len(pieces) <=> n = 1 \/ (n = 2 /\ Len(pieces) = 2)
      /\ \A n : n \in 1..Len(pieces') <=> n = 1 /\ Len(pieces) = 2
  <2>1. CASE Len(pieces) = 1
    BY <1>4, <2>1
  <2>2. CASE Len(pieces) = 2
    BY <1>4, <2>2
  <2> QED BY <1>3, <2>1, <2>2
<1>6. RegionsInv'
  <2>1. Len(regions) \in Nat \ {0}
    BY RegionsTyped DEF TidyInv
  <2> QED BY <1>2, <2>1 DEF TidyInv, RegionsInv
<1>7. PiecesInv'
  <2>1. /\ step = "free" /\ index > 1 /\ regions[index - 1].Type = AVAILIABLE
        /\ \A n \in 1..Len(pieces) :
             /\ RegionBase(regions[index - 1]) <= pieces[n].base
             /\ pieces[n].end <= RegionEnd(regions[index - 1])
             /\ pieces[n].end <= KernelStart \/ KernelEnd <= pieces[n].base
    BY <1>2 DEF TidyInv, PiecesInv
  <2>2. Len(pieces') <= 2 /\ Len(pieces') # 2
    <3>1. CASE Len(pieces) = 1
      <4>1. Len(pieces') = 0
        BY <1>4, <3>1
      <4> QED BY <4>1
    <3>2. CASE Len(pieces) = 2
      <4>1. Len(pieces') = 1
        BY <1>4, <3>2
      <4> QED BY <4>1
    <3> QED BY <1>3, <3>1, <3>2
  <2>3. ASSUME NEW n \in 1..Len(pieces')
        PROVE  /\ RegionBase(regions[index - 1]) <= pieces'[n].base
               /\ pieces'[n].end <= RegionEnd(regions[index - 1])
               /\ pieces'[n].end <= KernelStart \/ KernelEnd <= pieces'[n].base
    <3>1. n = 1 /\ Len(pieces) = 2 /\ 2 \in 1..Len(pieces)
      BY <1>5
    <3>2. pieces'[n] = pieces[2]
      BY <1>4, <3>1
    <3> QED BY <2>1, <3>1, <3>2
  <2>4. /\ RegionBase(regions[index - 1])' = RegionBase(regions[index - 1])
        /\ RegionEnd(regions[index - 1])' = RegionEnd(regions[index - 1])
    BY <1>2
  <2> QED BY <1>2, <1>4, <2>1, <2>2, <2>3, <2>4 DEF PiecesInv, Addresses
<1>8. ASSUME NEW x \in Nat
      PROVE  /\ Due(x) <=> Due(x)' \/ InPiece(piece, x)
             /\ ~(Due(x)' /\ InPiece(piece, x))
  <2>1. Due(x) <=> InPiece(piece, x) \/ (Len(pieces) = 2 /\ InPiece(pieces[2], x))
    BY <1>1, <1>5 DEF Due
  <2>2. Due(x)' <=> Len(pieces) = 2 /\ InPiece(pieces[2], x)
    BY <1>4, <1>5 DEF Due, InPiece
  <2>3. ASSUME Len(pieces) = 2, InPiece(piece, x) PROVE ~InPiece(pieces[2], x)
    <3>1. pieces[2].base \in Nat
      BY <1>3, <2>3, Spans DEF Addresses
    <3> QED BY <1>3, <2>3, <3>1 DEF InPiece
  <2> QED BY <2>1, <2>2, <2>3
<1>9. ListInv' /\ BytesInv'
  <2>1. CASE piece.base < piece.end
    <3>1. FreeBytes(piece.base, piece.end)
      BY <1>1, <2>1 DEF FreeRest
    <3>2. pieces[1].base <= piece.base /\ piece.end <= pieces[1].end
      BY <1>1, <1>3
    <3>3. \A x \in Nat : /\ Due(x) <=> Due(x)' \/ (piece.base <= x /\ x < piece.end)
                         /\ ~(Due(x)' /\ piece.base <= x /\ x < piece.end)
      BY <1>8 DEF InPiece
    <3> QED BY <1>2, <1>3, <2>1, <3>1, <3>2, <3>3, PartFreed
  <2>2. CASE ~(piece.base < piece.end)
    <3>1. freed' = freed /\ bytes' = bytes /\ freeList' = freeList
      BY <1>1, <2>2 DEF FreeRest, FreeNothing
    <3>2. ListInv'
      BY <3>1 DEF TidyInv, ListInv, FreedOnce
    <3>3. ASSUME NEW x \in Nat PROVE (Given(x)' <=> Given(x)) /\ (Due(x)' <=> Due(x))
      <4>1. ~InPiece(piece, x)
        BY <1>3, <2>2 DEF InPiece
      <4> QED BY <1>2, <1>8, <4>1 DEF Given
    <3>4. BytesInv'
      BY <1>2, <3>1, <3>3 DEF TidyInv, BytesInv
    <3> QED BY <3>2, <3>4
  <2> QED BY <2>1, <2>2
<1> QED BY <1>6, <1>7, <1>9 DEF TidyInv

\* The last region is done.
LEMMA FinishKeeps ==
  ASSUME TidyInv, Finish PROVE TidyInv'
<1>1. /\ step = "free" /\ step' = "done" /\ pieces = <<>> /\ index > Len(regions)
      /\ map' = map /\ regions' = regions /\ index' = index /\ at' = at /\ pieces' = pieces
      /\ freed' = freed /\ bytes' = bytes /\ freeList' = freeList
  BY DEF Finish
<1>2. Len(regions) \in Nat
  BY RegionsTyped DEF TidyInv
<1>3. RegionsInv'
  BY <1>1, <1>2 DEF TidyInv, RegionsInv
<1>4. PiecesInv'
  BY <1>1, EmptySeq DEF TidyInv, PiecesInv
<1>5. ListInv'
  BY <1>1 DEF TidyInv, ListInv, FreedOnce
<1>6. BytesInv'
  <2>1. ASSUME NEW x \in Nat PROVE (Given(x)' <=> Given(x)) /\ (Due(x)' <=> Due(x))
    BY <1>1 DEF Given, Due
  <2> QED BY <1>1, <2>1 DEF TidyInv, BytesInv
<1> QED BY <1>3, <1>4, <1>5, <1>6 DEF TidyInv

-----------------------------------------------------------------------------

LEMMA TidyAtFirst == Init => TidyInv
<1> SUFFICES ASSUME Init PROVE TidyInv
  OBVIOUS
<1>1. /\ map \in Maps /\ regions = map.regions /\ step = "sort" /\ index = 2 /\ at = 1
      /\ Len(pieces) = 0 /\ Len(freed) = 0 /\ bytes = 0 /\ Len(freeList) = 0
      /\ pieces = <<>> /\ freed = <<>> /\ freeList = <<>>
  BY DEF Init
<1>2. RegionsInv
  <2>1. Len(regions) \in Nat \ {0}
    BY <1>1, MapTyped
  <2> QED BY <1>1, <2>1 DEF RegionsInv
<1>3. PiecesInv
  BY <1>1 DEF PiecesInv
<1>4. \A x : ~Covers(freeList, x)
  BY <1>1 DEF Covers
<1>5. ListInv
  <2>1. {a \in Addresses : Covers(freeList, a)} = {}
    BY <1>4
  <2>2. Cardinality({a \in Addresses : Covers(freeList, a)}) = 0
    BY <2>1, FS_EmptySet
  <2>3. Separated(freeList) /\ AtLeast(freeList, 1) /\ freeList \in Seq(Node)
    BY <1>1 DEF Separated, AtLeast
  <2>4. FreedOnce
    BY <1>1 DEF FreedOnce
  <2>5. freed \in Seq([base : Addresses, length : Addresses])
    BY <1>1
  <2> QED BY <1>1, <2>2, <2>3, <2>4, <2>5 DEF ListInv
<1>6. BytesInv
  BY <1>1, <1>4 DEF BytesInv
<1> QED BY <1>2, <1>3, <1>5, <1>6 DEF TidyInv

LEMMA TidyAlways ==
  ASSUME \A m \in Maps : IsTidy(m)
  PROVE  Spec => []TidyInv
<1>1. TidyInv /\ [Next]_vars => TidyInv'
  <2>1. TidyInv /\ UNCHANGED vars => TidyInv'
    <3> SUFFICES ASSUME TidyInv, UNCHANGED vars PROVE TidyInv'
      OBVIOUS
    <3>1. RegionsInv'
      BY DEF vars, TidyInv, RegionsInv
    <3>2. PiecesInv'
      BY DEF vars, TidyInv, PiecesInv, Addresses
    <3>3. ListInv'
      BY DEF vars, TidyInv, ListInv, FreedOnce
    <3>4. BytesInv'
      <4>1. ASSUME NEW x \in Nat PROVE (Given(x)' <=> Given(x)) /\ (Due(x)' <=> Due(x))
        BY DEF vars, Given, Due
      <4> QED BY <4>1 DEF vars, TidyInv, BytesInv
    <3> QED BY <3>1, <3>2, <3>3, <3>4 DEF TidyInv
  <2> QED BY <2>1, SortNextKeeps, ClampFirstKeeps, NextRegionKeeps, LoopKeeps, FreeBeforeKeeps,
             FreeRestKeeps, FinishKeeps DEF Next
<1> QED BY <1>1, TidyAtFirst, PTL DEF Spec

\* Types.
THEOREM MapStaysTyped ==
  ASSUME \A m \in Maps : IsTidy(m)
  PROVE  Spec => []TypeOK
<1>1. TidyInv => TypeOK
  <2> SUFFICES ASSUME TidyInv PROVE TypeOK
    OBVIOUS
  <2>1. regions \in Seq(Region) /\ Len(regions) = Len(map.regions)
    BY RegionsTyped DEF TidyInv
  <2> QED BY <2>1 DEF TidyInv, RegionsInv, PiecesInv, ListInv, TypeOK
<1> QED BY <1>1, TidyAlways, PTL

\* memory_initialize calls free_memory as its precondition asks: no byte of a tidy map is
\* freed twice, whatever the number of regions and wherever the kernel lies in them.
THEOREM MapFreedOnce ==
  ASSUME \A m \in Maps : IsTidy(m)
  PROVE  Spec => []FreedOnce
<1>1. TidyInv => FreedOnce
  BY DEF TidyInv, ListInv
<1> QED BY <1>1, TidyAlways, PTL

\* The list is in order and merged at every step, and what memory_initialize returns is
\* the number of bytes in it.
THEOREM MapListIsTight ==
  ASSUME \A m \in Maps : IsTidy(m)
  PROVE  Spec => []ListIsTight
<1>1. TidyInv => ListIsTight
  BY DEF TidyInv, ListInv, ListIsTight
<1> QED BY <1>1, TidyAlways, PTL

\* The heap starts with the available memory of the map from the first available byte, but
\* for the kernel: all of it, and no byte that the map reserves.
THEOREM HeapGetsItsMemory ==
  ASSUME \A m \in Maps : IsTidy(m)
  PROVE  Spec => []ExactlyTheAvailable
<1>1. TidyInv => ExactlyTheAvailable
  <2> SUFFICES ASSUME TidyInv, step = "done", NEW a \in Addresses
               PROVE  Covers(freeList, a) <=> ShouldBeFree(a)
    BY DEF ExactlyTheAvailable
  <2>1. /\ map \in Maps /\ IsTidy(map) /\ regions = Clamp(map.regions, map.first)
        /\ index - 1 = Len(regions)
    <3>1. Len(regions) \in Nat
      BY RegionsTyped DEF TidyInv
    <3> QED BY <3>1 DEF TidyInv, RegionsInv
  <2>2. a \in Nat
    BY Spans DEF Addresses
  <2>3. pieces = <<>>
    BY DEF TidyInv, PiecesInv
  <2>4. ~Due(a)
    BY <2>3 DEF Due
  <2>5. Covers(freeList, a) <=> Given(a)
    BY <2>2, <2>4 DEF TidyInv, BytesInv
  <2> QED BY <2>1, <2>5, ShouldBeFreeIs DEF Given
<1> QED BY <1>1, TidyAlways, PTL
=============================================================================
