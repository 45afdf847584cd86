---------------------------- MODULE FreeListProofs ----------------------------
(***************************************************************************)
(* What the operators of FreeList return, for every list, address, size    *)
(* and alignment.                                                          *)
(***************************************************************************)
EXTENDS FreeList, SequenceTheorems, NaturalsInduction, WellFoundedInduction, TLAPS

(* Every nonempty set of naturals has a least element. *)
LEMMA LeastElement ==
  ASSUME NEW T, T \subseteq Nat, T # {}
  PROVE  \E m \in T : \A n \in T : m <= n
<1>1. PICK m \in T : \A n \in T : ~ (<<n, m>> \in OpToRel(<, Nat))
  BY NatLessThanWellFounded, WFMin
<1>2. ASSUME NEW n \in T PROVE m <= n
  <2>1. ~ (n < m)
    BY <1>1 DEF OpToRel
  <2> QED BY <2>1
<1> QED BY <1>2

(* A part of a list is a list of the nodes from m to n. *)
LEMMA SubSeqNodes ==
  ASSUME NEW list \in Seq(Node), NEW m \in 1..Len(list) + 1, NEW n \in m - 1..Len(list)
  PROVE  /\ SubSeq(list, m, n) \in Seq(Node)
         /\ Len(SubSeq(list, m, n)) = n - m + 1
         /\ \A k \in 1..n - m + 1 : SubSeq(list, m, n)[k] = list[m + k - 1]
<1>1. m \in Int /\ n \in Int /\ m - 1 <= n /\ n <= Len(list) /\ 1 <= m
  BY LenProperties
<1>2. \A i \in m..n : list[i] \in Node
  BY <1>1, ElementOfSeq
<1>3. /\ SubSeq(list, m, n) \in Seq(Node)
      /\ Len(SubSeq(list, m, n)) = IF m <= n THEN n - m + 1 ELSE 0
      /\ \A i \in 1..n - m + 1 : SubSeq(list, m, n)[i] = list[m + i - 1]
  BY <1>1, <1>2, SubSeqProperties
<1> QED BY <1>1, <1>3

(* The nodes of a spliced list: those before the gap, the new ones, those after it. *)
LEMMA SpliceElements ==
  ASSUME NEW list \in Seq(Node), NEW mid \in Seq(Node),
         NEW lo \in 1..Len(list) + 1, NEW hi \in lo - 1..Len(list)
  PROVE  LET new == Splice(list, lo, hi, mid)
         IN /\ new \in Seq(Node)
            /\ Len(new) = (lo - 1) + Len(mid) + (Len(list) - hi)
            /\ \A k \in 1..lo - 1 : new[k] = list[k]
            /\ \A k \in 1..Len(mid) : new[lo - 1 + k] = mid[k]
            /\ \A k \in hi + 1..Len(list) : new[(lo - 1) + Len(mid) + (k - hi)] = list[k]
<1>1. Len(list) \in Nat /\ Len(mid) \in Nat
  BY LenProperties
<1>2. PICK before : before = SubSeq(list, 1, lo - 1)
  OBVIOUS
<1>3. /\ before \in Seq(Node)
      /\ Len(before) = lo - 1
      /\ \A k \in 1..lo - 1 : before[k] = list[k]
  BY <1>1, <1>2, SubSeqNodes
<1>4. PICK after : after = SubSeq(list, hi + 1, Len(list))
  OBVIOUS
<1>5. /\ after \in Seq(Node)
      /\ Len(after) = Len(list) - hi
      /\ \A k \in 1..Len(list) - hi : after[k] = list[hi + k]
  BY <1>1, <1>4, SubSeqNodes
<1>6. PICK front : front = before \o mid
  OBVIOUS
<1>7. /\ front \in Seq(Node)
      /\ Len(front) = Len(before) + Len(mid)
      /\ \A i \in 1 .. Len(before) + Len(mid) : front[i] =
           IF i <= Len(before) THEN before[i] ELSE mid[i - Len(before)]
  BY <1>3, <1>6, ConcatProperties
<1>70. Len(before) \in Nat /\ Len(front) \in Nat /\ Len(after) \in Nat
  BY <1>1, <1>3, <1>5, <1>7
<1>8. PICK new : new = front \o after
  OBVIOUS
<1>9. /\ new \in Seq(Node)
      /\ Len(new) = Len(front) + Len(after)
      /\ \A i \in 1 .. Len(front) + Len(after) : new[i] =
           IF i <= Len(front) THEN front[i] ELSE after[i - Len(front)]
  <2>1. front \in Seq(Node) /\ after \in Seq(Node)
    BY <1>5, <1>7
  <2> QED BY <2>1, <1>8, ConcatProperties
<1>10. new = Splice(list, lo, hi, mid)
  BY <1>2, <1>4, <1>6, <1>8 DEF Splice
<1>11. ASSUME NEW k \in 1..lo - 1 PROVE new[k] = list[k]
  <2>1. k \in 1..Len(before) + Len(mid) /\ k <= Len(before)
    BY <1>1, <1>3
  <2>2. k \in 1..Len(front) + Len(after) /\ k <= Len(front)
    BY <1>1, <1>7, <1>70, <2>1
  <2>3. new[k] = front[k]
    BY <1>9, <2>2, Zenon
  <2>4. front[k] = before[k]
    BY <1>7, <2>1, Zenon
  <2> QED BY <1>3, <2>3, <2>4
<1>12. ASSUME NEW k \in 1..Len(mid) PROVE new[lo - 1 + k] = mid[k]
  <2>1. PICK i : i = lo - 1 + k
    OBVIOUS
  <2>2. i \in 1..Len(front) /\ i > Len(before) /\ i - Len(before) = k
    BY <1>1, <1>3, <1>7, <2>1
  <2>3. new[i] = front[i]
    <3>1. i \in 1..Len(front) + Len(after) /\ i <= Len(front)
      BY <1>70, <2>2
    <3> QED BY <1>9, <3>1, Zenon
  <2>4. i \in 1..Len(before) + Len(mid) /\ ~ (i <= Len(before))
    BY <1>1, <1>3, <1>7, <2>2
  <2>5. front[i] = mid[i - Len(before)]
    BY <1>7, <2>4, Zenon
  <2> QED BY <2>1, <2>2, <2>3, <2>5
<1>13. ASSUME NEW k \in hi + 1..Len(list)
       PROVE  new[(lo - 1) + Len(mid) + (k - hi)] = list[k]
  <2>1. PICK i : i = (lo - 1) + Len(mid) + (k - hi)
    OBVIOUS
  <2>2. i > Len(front) /\ i - Len(front) = k - hi /\ k - hi \in 1..Len(after)
    BY <1>1, <1>3, <1>5, <1>7, <2>1
  <2>3. i \in 1..Len(front) + Len(after)
    BY <1>1, <1>3, <1>5, <1>7, <2>1, <2>2
  <2>4. new[i] = after[k - hi]
    <3>1. ~ (i <= Len(front))
      BY <1>1, <1>3, <1>7, <2>1, <2>2
    <3>2. new[i] = after[i - Len(front)]
      BY <1>9, <2>3, <3>1, Zenon
    <3> QED BY <2>2, <3>2
  <2>5. after[k - hi] = list[hi + (k - hi)]
    BY <1>5, <2>2
  <2> QED BY <1>1, <2>1, <2>4, <2>5
<1>14. Len(new) = (lo - 1) + Len(mid) + (Len(list) - hi)
  BY <1>1, <1>3, <1>5, <1>7, <1>9
<1> QED BY <1>9, <1>10, <1>11, <1>12, <1>13, <1>14

(* Where a node of a spliced list comes from. *)
LEMMA SpliceOrigin ==
  ASSUME NEW list \in Seq(Node), NEW mid \in Seq(Node), Len(mid) <= 1,
         NEW lo \in 1..Len(list) + 1, NEW hi \in lo - 1..Len(list),
         NEW k \in 1..Len(Splice(list, lo, hi, mid))
  PROVE  LET new == Splice(list, lo, hi, mid)
         IN \/ k \in 1..lo - 1 /\ new[k] = list[k]
            \/ Len(mid) = 1 /\ k = lo /\ new[k] = mid[1]
            \/ \E m \in hi + 1..Len(list) :
                 k = (lo - 1) + Len(mid) + (m - hi) /\ new[k] = list[m]
<1>1. PICK new : new = Splice(list, lo, hi, mid)
  OBVIOUS
<1>2. /\ Len(new) = (lo - 1) + Len(mid) + (Len(list) - hi)
      /\ \A i \in 1..lo - 1 : new[i] = list[i]
      /\ \A i \in 1..Len(mid) : new[lo - 1 + i] = mid[i]
      /\ \A i \in hi + 1..Len(list) : new[(lo - 1) + Len(mid) + (i - hi)] = list[i]
  BY <1>1, SpliceElements
<1>3. Len(list) \in Nat /\ Len(mid) \in Nat /\ k \in 1..Len(new)
  BY <1>1, LenProperties
<1>4. CASE k <= lo - 1
  BY <1>1, <1>2, <1>3, <1>4
<1>5. CASE k = lo /\ Len(mid) = 1
  BY <1>1, <1>2, <1>3, <1>5
<1>6. CASE k > lo - 1 + Len(mid)
  <2>1. PICK m : m = k - ((lo - 1) + Len(mid)) + hi
    OBVIOUS
  <2>2. m \in hi + 1..Len(list) /\ k = (lo - 1) + Len(mid) + (m - hi)
    BY <1>2, <1>3, <1>6, <2>1, SMTT(30)
  <2> QED BY <1>1, <1>2, <2>2
<1>7. k <= lo - 1 \/ (k = lo /\ Len(mid) = 1) \/ k > lo - 1 + Len(mid)
  <2>1. PICK n \in Nat : n = Len(mid) /\ n <= 1
    BY <1>3
  <2>2. n = 0 \/ n = 1
    BY <2>1
  <2>3. k \in Int /\ lo \in Int
    BY <1>3
  <2>4. k <= lo - 1 \/ (k = lo /\ n = 1) \/ k > lo - 1 + n
    BY <2>2, <2>3
  <2> QED BY <2>1, <2>4
<1> QED BY <1>4, <1>5, <1>6, <1>7

\* Every node has that many bytes.
AtLeast(list, least) == \A i \in 1..Len(list) : least <= list[i].size

(* Splicing at most one node into a gap that keeps clear of both sides. *)
LEMMA SpliceAtLeast ==
  ASSUME NEW list \in Seq(Node), NEW mid \in Seq(Node), Len(mid) <= 1, NEW least \in Nat,
         NEW lo \in 1..Len(list) + 1, NEW hi \in lo - 1..Len(list),
         Separated(list), AtLeast(list, least), AtLeast(mid, least),
         \A k \in 1..Len(mid) :
           /\ \A i \in 1..lo - 1 : NodeEnd(list[i]) < mid[k].base
           /\ \A i \in hi + 1..Len(list) : NodeEnd(mid[k]) < list[i].base
  PROVE  LET new == Splice(list, lo, hi, mid)
         IN /\ new \in Seq(Node)
            /\ Separated(new)
            /\ AtLeast(new, least)
            /\ \A x : Covers(new, x) <=>
                 \/ \E i \in 1..lo - 1 : InNode(list[i], x)
                 \/ Covers(mid, x)
                 \/ \E i \in hi + 1..Len(list) : InNode(list[i], x)
<1>1. PICK new : new = Splice(list, lo, hi, mid)
  OBVIOUS
<1>2. /\ new \in Seq(Node)
      /\ Len(new) = (lo - 1) + Len(mid) + (Len(list) - hi)
      /\ \A i \in 1..lo - 1 : new[i] = list[i]
      /\ \A i \in 1..Len(mid) : new[lo - 1 + i] = mid[i]
      /\ \A i \in hi + 1..Len(list) : new[(lo - 1) + Len(mid) + (i - hi)] = list[i]
  BY <1>1, SpliceElements
<1>3. Len(list) \in Nat /\ Len(mid) \in Nat
  BY LenProperties
<1>4. ASSUME NEW k \in 1..Len(new)
      PROVE  \/ k \in 1..lo - 1 /\ new[k] = list[k]
             \/ Len(mid) = 1 /\ k = lo /\ new[k] = mid[1]
             \/ \E m \in hi + 1..Len(list) :
                  k = (lo - 1) + Len(mid) + (m - hi) /\ new[k] = list[m]
  BY <1>1, SpliceOrigin, SMTT(30)
<1>5. Separated(new)
  <2> SUFFICES ASSUME NEW i \in 1..Len(new), NEW j \in 1..Len(new), i < j
               PROVE  NodeEnd(new[i]) < new[j].base
    BY DEF Separated
  <2>1. CASE i \in 1..lo - 1 /\ new[i] = list[i]
    <3>1. CASE j \in 1..lo - 1 /\ new[j] = list[j]
      BY <1>3, <2>1, <3>1, SMTT(30) DEF Separated
    <3>2. CASE Len(mid) = 1 /\ j = lo /\ new[j] = mid[1]
      BY <2>1, <3>2
    <3>3. ASSUME NEW m \in hi + 1..Len(list), new[j] = list[m]
          PROVE  NodeEnd(new[i]) < new[j].base
      BY <1>3, <2>1, <3>3 DEF Separated
    <3> QED BY <1>4, <3>1, <3>2, <3>3
  <2>2. CASE Len(mid) = 1 /\ i = lo /\ new[i] = mid[1]
    <3>1. ASSUME NEW m \in hi + 1..Len(list), new[j] = list[m]
          PROVE  NodeEnd(new[i]) < new[j].base
      BY <2>2, <3>1
    <3> QED BY <1>4, <2>2, <3>1
  <2>3. ASSUME NEW n \in hi + 1..Len(list),
               i = (lo - 1) + Len(mid) + (n - hi), new[i] = list[n]
        PROVE  NodeEnd(new[i]) < new[j].base
    <3>1. ASSUME NEW m \in hi + 1..Len(list),
                 j = (lo - 1) + Len(mid) + (m - hi), new[j] = list[m]
          PROVE  NodeEnd(new[i]) < new[j].base
      BY <1>3, <2>3, <3>1, SMTT(30) DEF Separated
    <3>2. j > lo - 1 /\ ~ (Len(mid) = 1 /\ j = lo)
      BY <1>3, <2>3
    <3> QED BY <1>4, <3>1, <3>2
  <2> QED BY <1>4, <2>1, <2>2, <2>3
<1>6. AtLeast(new, least)
  <2> SUFFICES ASSUME NEW k \in 1..Len(new) PROVE least <= new[k].size
    BY DEF AtLeast
  <2>1. ASSUME k \in 1..lo - 1, new[k] = list[k] PROVE least <= new[k].size
    BY <1>3, <2>1 DEF AtLeast
  <2>2. ASSUME Len(mid) = 1, new[k] = mid[1] PROVE least <= new[k].size
    BY <2>2 DEF AtLeast
  <2>3. ASSUME NEW m \in hi + 1..Len(list), new[k] = list[m]
        PROVE  least <= new[k].size
    BY <1>3, <2>3 DEF AtLeast
  <2> QED BY <1>4, <2>1, <2>2, <2>3
<1>7. ASSUME NEW x
      PROVE  Covers(new, x) <=>
               \/ \E i \in 1..lo - 1 : InNode(list[i], x)
               \/ Covers(mid, x)
               \/ \E i \in hi + 1..Len(list) : InNode(list[i], x)
  <2>1. ASSUME NEW k \in 1..Len(new), InNode(new[k], x)
        PROVE  \/ \E i \in 1..lo - 1 : InNode(list[i], x)
               \/ \E i \in 1..Len(mid) : InNode(mid[i], x)
               \/ \E i \in hi + 1..Len(list) : InNode(list[i], x)
    BY <1>3, <1>4, <2>1, SMTT(30)
  <2>2. ASSUME NEW i \in 1..lo - 1, InNode(list[i], x)
        PROVE  \E k \in 1..Len(new) : InNode(new[k], x)
    <3>1. i \in 1..Len(new)
      BY <1>2, <1>3
    <3> QED BY <1>2, <2>2, <3>1
  <2>3. ASSUME NEW i \in 1..Len(mid), InNode(mid[i], x)
        PROVE  \E k \in 1..Len(new) : InNode(new[k], x)
    <3>1. lo - 1 + i \in 1..Len(new)
      BY <1>2, <1>3
    <3> QED BY <1>2, <2>3, <3>1
  <2>4. ASSUME NEW i \in hi + 1..Len(list), InNode(list[i], x)
        PROVE  \E k \in 1..Len(new) : InNode(new[k], x)
    <3>1. (lo - 1) + Len(mid) + (i - hi) \in 1..Len(new)
      BY <1>2, <1>3
    <3> QED BY <1>2, <2>4, <3>1
  <2> QED BY <2>1, <2>2, <2>3, <2>4 DEF Covers
<1> QED BY <1>1, <1>2, <1>5, <1>6, <1>7

(* The same with room for a node in each. *)
LEMMA SpliceSeparated ==
  ASSUME NEW list \in Seq(Node), NEW mid \in Seq(Node), Len(mid) <= 1,
         NEW lo \in 1..Len(list) + 1, NEW hi \in lo - 1..Len(list),
         Separated(list), HoldsNodes(list), HoldsNodes(mid),
         \A k \in 1..Len(mid) :
           /\ \A i \in 1..lo - 1 : NodeEnd(list[i]) < mid[k].base
           /\ \A i \in hi + 1..Len(list) : NodeEnd(mid[k]) < list[i].base
  PROVE  LET new == Splice(list, lo, hi, mid)
         IN /\ new \in Seq(Node)
            /\ Separated(new)
            /\ HoldsNodes(new)
            /\ \A x : Covers(new, x) <=>
                 \/ \E i \in 1..lo - 1 : InNode(list[i], x)
                 \/ Covers(mid, x)
                 \/ \E i \in hi + 1..Len(list) : InNode(list[i], x)
<1>1. \A l : HoldsNodes(l) <=> AtLeast(l, NodeSize)
  BY DEF HoldsNodes, AtLeast
<1>2. NodeSize \in Nat
  BY DEF NodeSize
<1> QED BY <1>1, <1>2, SpliceAtLeast

(* The walk of free_memory stops somewhere. *)
LEMMA NodesBeforeExists ==
  ASSUME NEW list \in Seq(Node), NEW base \in Nat
  PROVE  IsNodesBefore(list, base, NodesBefore(list, base))
<1>1. Len(list) \in Nat
  BY LenProperties
<1>2. PICK T : T = {i \in 1..Len(list) : ~ (list[i].base < base)}
  OBVIOUS
<1>3. CASE T = {}
  <2>1. IsNodesBefore(list, base, Len(list))
    BY <1>1, <1>2, <1>3 DEF IsNodesBefore
  <2> QED BY <1>1, <2>1 DEF NodesBefore
<1>4. CASE T # {}
  <2>0. T \subseteq Nat
    BY <1>1, <1>2
  <2>1. PICK m \in T : \A n \in T : m <= n
    <3>1. \E m \in T : \A n \in T : m <= n
      BY ONLY <1>4, <2>0, LeastElement
    <3> QED BY <3>1
  <2>2. m \in 1..Len(list) /\ ~ (list[m].base < base)
    BY <1>2, <2>1
  <2>3. list[m] \in Node
    BY <2>2, ElementOfSeq
  <2>4. \A i \in 1..m - 1 : list[i].base < base
    BY <1>1, <1>2, <2>1, <2>2
  <2>5. IsNodesBefore(list, base, m - 1)
    BY <1>1, <2>2, <2>3, <2>4 DEF IsNodesBefore, Node
  <2>6. m - 1 \in 0..Len(list)
    BY <1>1, <2>2
  <2> QED BY <2>5, <2>6 DEF NodesBefore
<1> QED BY <1>3, <1>4

(***************************************************************************)
(* free_memory of bytes that are not free: the list stays in order and     *)
(* coalesced, and its bytes are the old ones and the freed ones.           *)
(***************************************************************************)
LEMMA FreeMemoryAtLeast ==
  ASSUME NEW least \in Nat \ {0},
         NEW list \in Seq(Node), Separated(list), AtLeast(list, least),
         NEW base \in Nat, NEW length \in Nat, least <= length,
         \A x \in base..base + length - 1 : ~ Covers(list, x)
  PROVE  LET new == FreeMemory(list, base, length)
         IN /\ new \in Seq(Node)
            /\ Separated(new)
            /\ AtLeast(new, least)
            /\ \A x \in Nat :
                 Covers(new, x) <=> Covers(list, x) \/ (base <= x /\ x < base + length)
<1>1. PICK end : end = base + length
  OBVIOUS
<1>2. PICK p : p = NodesBefore(list, base)
  OBVIOUS
<1>3. /\ p \in 0..Len(list)
      /\ \A i \in 1..p : list[i].base < base
      /\ p < Len(list) => base <= list[p + 1].base
  BY <1>2, NodesBeforeExists DEF IsNodesBefore
<1>4. Len(list) \in Nat /\ \A i \in 1..Len(list) :
        list[i].base \in Nat /\ list[i].size \in Nat /\ least <= list[i].size
  <2>1. Len(list) \in Nat
    BY LenProperties
  <2>2. ASSUME NEW i \in 1..Len(list)
        PROVE  list[i].base \in Nat /\ list[i].size \in Nat /\ least <= list[i].size
    <3>1. list[i] \in Node
      BY ElementOfSeq
    <3> QED BY <3>1 DEF Node, AtLeast
  <2> QED BY <2>1, <2>2
<1>5. \A i \in 1..p : NodeEnd(list[i]) <= base
  <2> SUFFICES ASSUME NEW i \in 1..p, NodeEnd(list[i]) > base PROVE FALSE
    BY <1>3, <1>4 DEF NodeEnd
  <2>1. i \in 1..Len(list)
    BY <1>3, <1>4
  <2>2. InNode(list[i], base)
    BY <1>3, <2>1, <1>4 DEF InNode, NodeEnd
  <2>3. base \in base..base + length - 1
    OBVIOUS
  <2> QED BY <2>1, <2>2, <2>3 DEF Covers
<1>6. \A i \in p + 1..Len(list) : end <= list[i].base
  <2> SUFFICES ASSUME NEW i \in p + 1..Len(list), list[i].base < end PROVE FALSE
    BY <1>1, <1>3, <1>4
  <2>1. i \in 1..Len(list) /\ p + 1 \in 1..Len(list) /\ p < Len(list)
    BY <1>3, <1>4
  <2>2. base <= list[i].base
    BY <1>3, <1>4, <2>1, SMTT(30) DEF Separated, NodeEnd
  <2>3. InNode(list[i], list[i].base)
    BY <1>4, <2>1 DEF InNode, NodeEnd
  <2>4. list[i].base \in base..base + length - 1
    BY <1>1, <1>4, <2>1, <2>2
  <2> QED BY <2>1, <2>3, <2>4 DEF Covers
<1>7. PICK first : first = IF p > 0 /\ NodeEnd(list[p]) >= base THEN list[p].base ELSE base
  OBVIOUS
<1>8. PICK last : last = IF p < Len(list) /\ list[p + 1].base <= end
                           THEN NodeEnd(list[p + 1]) ELSE end
  OBVIOUS
<1>9. PICK lo : lo = IF p > 0 /\ NodeEnd(list[p]) >= base THEN p ELSE p + 1
  OBVIOUS
<1>10. PICK hi : hi = IF p < Len(list) /\ list[p + 1].base <= end THEN p + 1 ELSE p
  OBVIOUS
<1>11. PICK mid : mid = <<[base |-> first, size |-> last - first]>>
  OBVIOUS
<1>12. FreeMemory(list, base, length) = Splice(list, lo, hi, mid)
  BY <1>1, <1>2, <1>7, <1>8, <1>9, <1>10, <1>11 DEF FreeMemory
<1>13. /\ p \in Nat /\ p <= Len(list)
       /\ p > 0 => /\ list[p].base \in Nat /\ list[p].base < base
                   /\ NodeEnd(list[p]) \in Nat /\ NodeEnd(list[p]) <= base
                   /\ list[p].base < NodeEnd(list[p])
       /\ p < Len(list) => /\ list[p + 1].base \in Nat /\ end <= list[p + 1].base
                           /\ NodeEnd(list[p + 1]) \in Nat
                           /\ list[p + 1].base < NodeEnd(list[p + 1])
  <2>1. p \in Nat /\ p <= Len(list)
    BY <1>3, <1>4
  <2>2. ASSUME p > 0
        PROVE  /\ list[p].base \in Nat /\ list[p].base < base
               /\ NodeEnd(list[p]) \in Nat /\ NodeEnd(list[p]) <= base
               /\ list[p].base < NodeEnd(list[p])
    <3>1. p \in 1..p /\ p \in 1..Len(list)
      BY <1>4, <2>1, <2>2
    <3> QED BY <1>3, <1>4, <1>5, <3>1 DEF NodeEnd
  <2>3. ASSUME p < Len(list)
        PROVE  /\ list[p + 1].base \in Nat /\ end <= list[p + 1].base
               /\ NodeEnd(list[p + 1]) \in Nat
               /\ list[p + 1].base < NodeEnd(list[p + 1])
    <3>1. p + 1 \in p + 1..Len(list) /\ p + 1 \in 1..Len(list)
      BY <1>4, <2>1, <2>3
    <3> QED BY <1>4, <1>6, <3>1 DEF NodeEnd
  <2> QED BY <2>1, <2>2, <2>3
<1>14. end \in Nat /\ end - base = length /\ least <= length
  BY <1>1
<1>15. /\ first \in Nat /\ first <= base /\ last \in Nat /\ end <= last
       /\ last - first >= least
  <2>1. first \in Nat /\ first <= base
    BY <1>7, <1>13
  <2>2. last \in Nat /\ end <= last
    BY <1>8, <1>13, <1>14
  <2> QED BY <1>14, <2>1, <2>2
<1>16. /\ lo \in 1..Len(list) + 1 /\ hi \in lo - 1..Len(list)
       /\ lo \in Int /\ hi \in Int
  BY <1>4, <1>9, <1>10, <1>13
<1>17. /\ mid \in Seq(Node) /\ Len(mid) = 1
       /\ mid[1].base = first /\ NodeEnd(mid[1]) = last /\ AtLeast(mid, least)
  <2>1. PICK n \in Node : n = [base |-> first, size |-> last - first]
    <3>1. first \in Nat /\ last - first \in Nat
      BY <1>15
    <3>2. [base |-> first, size |-> last - first] \in Node
      BY <3>1 DEF Node
    <3> QED BY <3>2
  <2>2. n.base = first /\ NodeEnd(n) = last /\ n.size >= least
    BY <1>15, <2>1 DEF NodeEnd
  <2>3. mid = <<n>>
    BY <1>11, <2>1
  <2>4. mid \in Seq(Node) /\ Len(mid) = 1 /\ mid[1] = n
    BY <2>3
  <2> QED BY <2>2, <2>4 DEF AtLeast, Node
<1>18. \A i \in 1..lo - 1 : NodeEnd(list[i]) < first
  <2> SUFFICES ASSUME NEW i \in 1..lo - 1 PROVE NodeEnd(list[i]) < first
    OBVIOUS
  <2>1. i \in 1..p /\ i \in 1..Len(list) /\ NodeEnd(list[i]) \in Nat
    <3>1. i \in Int /\ 1 <= i /\ i <= p
      BY <1>9, <1>13, <1>16
    <3>2. i \in 1..p /\ i \in 1..Len(list)
      BY <1>4, <1>13, <3>1
    <3> QED BY <1>4, <3>2 DEF NodeEnd
  <2>2. ASSUME i < p PROVE NodeEnd(list[i]) < list[p].base
    BY <1>4, <1>13, <2>1, <2>2 DEF Separated
  <2> QED BY <1>7, <1>9, <1>13, <2>1, <2>2
<1>19. \A i \in hi + 1..Len(list) : last < list[i].base
  <2> SUFFICES ASSUME NEW i \in hi + 1..Len(list) PROVE last < list[i].base
    OBVIOUS
  <2>1. /\ i \in p + 1..Len(list) /\ i \in 1..Len(list) /\ p + 1 \in 1..Len(list)
        /\ list[i].base \in Nat /\ i \in Int
    BY <1>4, <1>10, <1>13, <1>16, SMTT(30)
  <2>2. ASSUME p + 1 < i PROVE NodeEnd(list[p + 1]) < list[i].base
    BY <1>4, <1>13, <2>1, <2>2 DEF Separated
  <2> QED BY <1>8, <1>10, <1>13, <1>14, <2>1, <2>2
<1>20. \A k \in 1..Len(mid) :
         /\ \A i \in 1..lo - 1 : NodeEnd(list[i]) < mid[k].base
         /\ \A i \in hi + 1..Len(list) : NodeEnd(mid[k]) < list[i].base
  BY <1>17, <1>18, <1>19
<1>21. PICK new : new = Splice(list, lo, hi, mid)
  OBVIOUS
<1>22. /\ new \in Seq(Node)
       /\ Separated(new)
       /\ AtLeast(new, least)
       /\ \A x : Covers(new, x) <=>
            \/ \E i \in 1..lo - 1 : InNode(list[i], x)
            \/ Covers(mid, x)
            \/ \E i \in hi + 1..Len(list) : InNode(list[i], x)
  <2>1. mid \in Seq(Node) /\ Len(mid) <= 1 /\ AtLeast(mid, least)
    BY <1>17
  <2>2. lo \in 1..Len(list) + 1 /\ hi \in lo - 1..Len(list)
    BY <1>16
  <2> QED BY <2>1, <2>2, <1>20, <1>21, SpliceAtLeast
<1>23. ASSUME NEW x \in Nat
       PROVE  Covers(mid, x) <=>
                \/ base <= x /\ x < end
                \/ \E i \in lo..hi : InNode(list[i], x)
  <2>1. Covers(mid, x) <=> first <= x /\ x < last
    BY <1>17 DEF Covers, InNode
  <2>2. first <= x /\ x < base <=> lo = p /\ InNode(list[p], x)
    BY <1>7, <1>9, <1>13 DEF InNode
  <2>3. end <= x /\ x < last <=> hi = p + 1 /\ InNode(list[p + 1], x)
    BY <1>8, <1>10, <1>13, <1>14 DEF InNode
  <2>4. (\E i \in lo..hi : InNode(list[i], x)) <=>
          \/ lo = p /\ InNode(list[p], x)
          \/ hi = p + 1 /\ InNode(list[p + 1], x)
    <3>1. \A i : i \in lo..hi <=> (i = p /\ lo = p) \/ (i = p + 1 /\ hi = p + 1)
      BY <1>9, <1>10, <1>13
    <3> QED BY <3>1
  <2> QED BY <1>14, <1>15, <2>1, <2>2, <2>3, <2>4
<1>24. ASSUME NEW x
       PROVE  Covers(list, x) <=>
                \/ \E i \in 1..lo - 1 : InNode(list[i], x)
                \/ \E i \in lo..hi : InNode(list[i], x)
                \/ \E i \in hi + 1..Len(list) : InNode(list[i], x)
  <2>1. \A i : i \in 1..Len(list) <=> i \in 1..lo - 1 \/ i \in lo..hi \/ i \in hi + 1..Len(list)
    BY <1>4, <1>16
  <2> QED BY <2>1 DEF Covers
<1>25. \A x \in Nat :
         Covers(new, x) <=> Covers(list, x) \/ (base <= x /\ x < base + length)
  BY <1>1, <1>22, <1>23, <1>24
<1> QED BY <1>12, <1>21, <1>22, <1>25

(* The same with room for a node in each, as Heap needs it. *)
THEOREM FreeMemoryEffect ==
  ASSUME NEW list \in Seq(Node), Separated(list), HoldsNodes(list),
         NEW base \in Nat, NEW length \in Nat, NodeSize <= length,
         \A x \in base..base + length - 1 : ~ Covers(list, x)
  PROVE  LET new == FreeMemory(list, base, length)
         IN /\ new \in Seq(Node)
            /\ Separated(new)
            /\ HoldsNodes(new)
            /\ \A x \in Nat :
                 Covers(new, x) <=> Covers(list, x) \/ (base <= x /\ x < base + length)
<1>1. \A l : HoldsNodes(l) <=> AtLeast(l, NodeSize)
  BY DEF HoldsNodes, AtLeast
<1>2. NodeSize \in Nat \ {0}
  BY DEF NodeSize
<1> QED BY <1>1, <1>2, FreeMemoryAtLeast

(* The header and at most alignment - 1 bytes more. *)
LEMMA OffsetBounds ==
  ASSUME NEW base \in Nat, NEW alignment \in Nat \ {0}
  PROVE  OffsetIn(base, alignment) \in HeaderSize..HeaderSize + alignment - 1
<1>1. PICK r \in 0..alignment - 1 : r = (base + HeaderSize) % alignment
  BY DEF HeaderSize
<1>2. alignment - (alignment - r) = r
  BY <1>1
<1>3. r % alignment \in 0..alignment - 1
  BY <1>1
<1>4. OffsetIn(base, alignment) = HeaderSize + (r % alignment)
  BY <1>1, <1>2 DEF OffsetIn
<1> QED BY <1>3, <1>4 DEF HeaderSize

LEMMA Division ==
  ASSUME NEW span \in Nat \ {0}, NEW a \in Int
  PROVE  \E q \in Int : \E r \in 0..span - 1 : a = q * span + r /\ r = a % span
<1>1. PICK q \in Int, r \in 0..span - 1 : a = q * span + r /\ r = a % span
  BY SMTT(30)
<1> QED BY <1>1

\* A remainder is told by its range.
LEMMA RemainderIs ==
  ASSUME NEW span \in Nat \ {0}, NEW a \in Int, NEW p \in Int,
         a - p * span \in 0..span - 1
  PROVE  a % span = a - p * span
<1>1. PICK q \in Int : \E r \in 0..span - 1 : a = q * span + r /\ r = a % span
  BY Division
<1>2. PICK r \in 0..span - 1 : a = q * span + r /\ r = a % span
  BY <1>1
<1>3. ~(q > p)
  <2> SUFFICES ASSUME q >= p + 1 PROVE FALSE
    OBVIOUS
  <2>1. PICK d \in Nat : q = p + 1 + d
    BY q - (p + 1) \in Nat
  <2>2. q * span = p * span + span + d * span /\ d * span >= 0
    BY <2>1, SMTT(30)
  <2> QED BY <1>2, <2>2
<1>4. ~(p > q)
  <2> SUFFICES ASSUME p >= q + 1 PROVE FALSE
    OBVIOUS
  <2>1. PICK d \in Nat : p = q + 1 + d
    BY p - (q + 1) \in Nat
  <2>2. p * span = q * span + span + d * span /\ d * span >= 0
    BY <2>1, SMTT(30)
  <2> QED BY <1>2, <2>2
<1>5. p = q
  BY <1>3, <1>4
<1> QED BY <1>2, <1>5

(* Where nothing wraps, the sums of aligned_alloc are those of the numbers. *)
LEMMA SumsOfRequest ==
  ASSUME NEW n \in Node, NEW alignment \in Nat \ {0}, NEW size \in Nat,
         PointerSpan \in Nat, NoWrap(alignment, size)
  PROVE  /\ WithHeader(n, alignment, size) = size + OffsetIn(n.base, alignment)
         /\ AsSize(WithHeader(n, alignment, size) + NodeSize)
              = size + OffsetIn(n.base, alignment) + NodeSize
<1>1. n.base \in Nat
  BY DEF Node
<1>2. PICK o : o = OffsetIn(n.base, alignment)
  OBVIOUS
<1>3. o \in 12..12 + alignment - 1
  BY <1>1, <1>2, OffsetBounds DEF HeaderSize
<1>4. size + 12 + alignment + 8 <= PointerSpan
  BY DEF NoWrap, HeaderSize, NodeSize
<1>5. ASSUME NEW a \in 0..PointerSpan - 1 PROVE AsSize(a) = a
  <2>1. a \in Int /\ 0 \in Int /\ 0 * PointerSpan = 0 /\ PointerSpan \in Nat \ {0}
    BY <1>3, <1>4
  <2>2. a - 0 * PointerSpan = a
    BY <2>1
  <2> QED BY <2>1, <2>2, RemainderIs DEF AsSize
<1>6. size + o \in 0..PointerSpan - 1 /\ size + o + 8 \in 0..PointerSpan - 1
  BY <1>3, <1>4
<1>7. WithHeader(n, alignment, size) = size + o
  BY <1>2, <1>5, <1>6 DEF WithHeader
<1> QED BY <1>2, <1>5, <1>6, <1>7 DEF NodeSize

(* If some node fits, the scan of aligned_alloc ends with a best one. *)
LEMMA BestFitExists ==
  ASSUME NEW list \in Seq(Node), NEW alignment, NEW size,
         CanAllocate(list, alignment, size)
  PROVE  IsBestFit(list, alignment, size, BestFit(list, alignment, size))
<1>1. Len(list) \in Nat /\ \A i \in 1..Len(list) : list[i].size \in Nat
  <2>1. ASSUME NEW i \in 1..Len(list) PROVE list[i].size \in Nat
    <3>1. list[i] \in Node
      BY ElementOfSeq
    <3> QED BY <3>1 DEF Node
  <2> QED BY <2>1, LenProperties
<1>2. PICK F : F = {i \in 1..Len(list) : Fits(list[i], alignment, size)}
  OBVIOUS
<1>3. PICK S : S = {list[i].size : i \in F}
  OBVIOUS
<1>4. F # {} /\ F \subseteq Nat
  BY <1>1, <1>2 DEF CanAllocate
<1>5. S # {} /\ S \subseteq Nat
  BY <1>1, <1>2, <1>3, <1>4
<1>6. PICK least \in S : \A n \in S : least <= n
  BY <1>5, LeastElement
<1>7. PICK T : T = {i \in F : list[i].size = least}
  OBVIOUS
<1>8. T # {} /\ T \subseteq Nat
  BY <1>3, <1>4, <1>6, <1>7
<1>9. PICK i \in T : \A j \in T : i <= j
  BY <1>8, LeastElement
<1>10. i \in 1..Len(list) /\ Fits(list[i], alignment, size) /\ list[i].size = least
  BY <1>2, <1>7, <1>9
<1>11. ASSUME NEW j \in 1..Len(list), Fits(list[j], alignment, size)
       PROVE  list[i].size < list[j].size \/ (list[i].size = list[j].size /\ i <= j)
  <2>1. j \in F /\ list[j].size \in S
    BY <1>2, <1>3, <1>11
  <2>2. list[i].size <= list[j].size
    BY <1>6, <1>10, <2>1
  <2>3. ASSUME list[i].size = list[j].size PROVE i <= j
    BY <1>7, <1>9, <1>10, <2>1, <2>3
  <2> QED BY <1>1, <1>10, <2>2, <2>3
<1>12. IsBestFit(list, alignment, size, i)
  BY <1>10, <1>11 DEF IsBestFit
<1> QED BY <1>10, <1>12 DEF BestFit

(***************************************************************************)
(* aligned_alloc that finds room: the block it hands out was free, it has  *)
(* room for the header and the object, and the list keeps the rest.        *)
(***************************************************************************)
THEOREM AllocationEffect ==
  ASSUME NEW list \in Seq(Node), Separated(list), HoldsNodes(list),
         NEW alignment \in Nat \ {0}, NEW size \in Nat,
         PointerSpan \in Nat, NoWrap(alignment, size),
         CanAllocate(list, alignment, size)
  PROVE  LET b == AllocatedBlock(list, alignment, size)
             new == AllocatedList(list, alignment, size)
         IN /\ b \in Block
            /\ HeaderSize <= b.offset /\ b.offset + size <= b.total /\ b.requested = size
            /\ NodeSize <= b.total
            /\ \A x \in Nat : InBlock(b, x) => Covers(list, x)
            /\ new \in Seq(Node)
            /\ Separated(new)
            /\ HoldsNodes(new)
            /\ \A x \in Nat : Covers(new, x) <=> Covers(list, x) /\ ~ InBlock(b, x)
<1>1. PICK k \in 1..Len(list) : k = BestFit(list, alignment, size) /\ Fits(list[k], alignment, size)
  BY BestFitExists DEF IsBestFit
<1>2. Len(list) \in Nat /\ \A i \in 1..Len(list) :
        list[i].base \in Nat /\ list[i].size \in Nat /\ 8 <= list[i].size
  <2>1. Len(list) \in Nat
    BY LenProperties
  <2>2. ASSUME NEW i \in 1..Len(list)
        PROVE  list[i].base \in Nat /\ list[i].size \in Nat /\ 8 <= list[i].size
    <3>1. list[i] \in Node
      BY ElementOfSeq
    <3> QED BY <3>1 DEF Node, HoldsNodes, NodeSize
  <2> QED BY <2>1, <2>2
<1>3. PICK n : n = list[k]
  OBVIOUS
<1>4. n.base \in Nat /\ n.size \in Nat
  BY <1>2, <1>3
<1>5. PICK o \in Nat : o = OffsetIn(n.base, alignment) /\ 12 <= o
  <2>1. OffsetIn(n.base, alignment) \in HeaderSize..HeaderSize + alignment - 1
    BY <1>4, OffsetBounds
  <2> QED BY <2>1 DEF HeaderSize
<1>6. /\ size + o <= n.size /\ size > 0
      /\ WithHeader(n, alignment, size) = size + o
      /\ AsSize(size + o + 8) = size + o + 8
  <2>1. n \in Node
    BY <1>3, ElementOfSeq
  <2>2. /\ WithHeader(n, alignment, size) = size + o
        /\ AsSize(size + o + 8) = size + o + 8
    BY <1>5, <2>1, SumsOfRequest DEF NodeSize
  <2> QED BY <1>1, <1>3, <2>2 DEF Fits, CanAllocate
<1>7. PICK total : total = TotalSize(n, alignment, size)
  OBVIOUS
<1>8. /\ total \in Nat /\ size + o <= total
      /\ total = n.size \/ total + 8 < n.size
  BY <1>4, <1>5, <1>6, <1>7 DEF TotalSize, NodeSize
<1>9. PICK b : b = AllocatedBlock(list, alignment, size)
  OBVIOUS
<1>10. b = [base |-> n.base, total |-> total, requested |-> size, offset |-> o]
  BY <1>1, <1>3, <1>5, <1>7, <1>9 DEF AllocatedBlock
<1>11. /\ b \in Block /\ b.base = n.base /\ BlockEnd(b) = n.base + total
       /\ b.offset = o /\ b.total = total /\ b.requested = size
  BY <1>4, <1>5, <1>8, <1>10 DEF Block, BlockEnd
<1>12. ASSUME NEW x \in Nat
       PROVE  InBlock(b, x) <=> n.base <= x /\ x < n.base + total
  BY <1>11 DEF InBlock
<1>13. ASSUME NEW x \in Nat
       PROVE  InNode(n, x) <=> n.base <= x /\ x < n.base + n.size
  BY DEF InNode, NodeEnd
<1>14. PICK mid : mid = Remainder(n, total)
  OBVIOUS
<1>15. AllocatedList(list, alignment, size) = Splice(list, k, k, mid)
  BY <1>1, <1>3, <1>7, <1>14 DEF AllocatedList
<1>16. /\ mid \in Seq(Node) /\ Len(mid) <= 1
       /\ \A i \in 1..Len(mid) : /\ mid[i].base \in Nat /\ n.base <= mid[i].base
                                /\ NodeEnd(mid[i]) = NodeEnd(n) /\ 8 <= mid[i].size
       /\ \A x \in Nat : Covers(mid, x) <=> n.base + total <= x /\ x < n.base + n.size
  <2>1. CASE total = n.size
    <3>1. mid = <<>>
      BY <1>4, <1>14, <2>1 DEF Remainder
    <3>2. mid \in Seq(Node) /\ Len(mid) = 0
      BY <3>1
    <3>3. \A x \in Nat : ~ Covers(mid, x)
      BY <3>2 DEF Covers
    <3> QED BY <1>4, <2>1, <3>2, <3>3
  <2>2. CASE total + 8 < n.size
    <3>1. n.base + total \in Nat /\ n.size - total \in Nat /\ 8 <= n.size - total
      BY <1>4, <1>8, <2>2
    <3>2. PICK r \in Node : r = [base |-> n.base + total, size |-> n.size - total]
      BY <3>1 DEF Node
    <3>3. mid = <<r>>
      BY <1>4, <1>8, <1>14, <2>2, <3>2 DEF Remainder
    <3>4. /\ r.base \in Nat /\ n.base <= r.base /\ r.base = n.base + total
          /\ NodeEnd(r) = NodeEnd(n) /\ NodeEnd(n) = n.base + n.size /\ 8 <= r.size
      <4>1. r.base = n.base + total /\ r.size = n.size - total
        BY <3>2
      <4>2. NodeEnd(n) = n.base + n.size /\ NodeEnd(r) = r.base + r.size
        BY DEF NodeEnd
      <4> QED BY <1>4, <1>8, <3>1, <4>1, <4>2, SMTT(30)
    <3>5. mid \in Seq(Node) /\ Len(mid) = 1 /\ mid[1] = r
      BY <3>3
    <3>6. \A x : Covers(mid, x) <=> InNode(r, x)
      BY <3>5 DEF Covers
    <3>7. \A x \in Nat : Covers(mid, x) <=> n.base + total <= x /\ x < n.base + n.size
      BY <3>4, <3>6 DEF InNode
    <3> QED BY <3>4, <3>5, <3>7
  <2> QED BY <1>8, <2>1, <2>2
<1>17. \A i \in 1..Len(mid) :
         /\ \A j \in 1..k - 1 : NodeEnd(list[j]) < mid[i].base
         /\ \A j \in k + 1..Len(list) : NodeEnd(mid[i]) < list[j].base
  <2> SUFFICES ASSUME NEW i \in 1..Len(mid)
               PROVE  /\ \A j \in 1..k - 1 : NodeEnd(list[j]) < mid[i].base
                      /\ \A j \in k + 1..Len(list) : NodeEnd(mid[i]) < list[j].base
    OBVIOUS
  <2>1. ASSUME NEW j \in 1..k - 1 PROVE NodeEnd(list[j]) < mid[i].base
    <3>1. j \in 1..Len(list) /\ j < k
      BY <1>2
    <3>2. NodeEnd(list[j]) < list[k].base
      BY <3>1 DEF Separated
    <3>3. NodeEnd(list[j]) \in Nat
      BY <1>2, <3>1 DEF NodeEnd
    <3> QED BY <1>3, <1>4, <1>16, <3>2, <3>3
  <2>2. ASSUME NEW j \in k + 1..Len(list) PROVE NodeEnd(mid[i]) < list[j].base
    <3>1. j \in 1..Len(list) /\ k < j
      BY <1>2
    <3> QED BY <1>3, <1>16, <3>1 DEF Separated
  <2> QED BY <2>1, <2>2
<1>18. PICK new : new = Splice(list, k, k, mid)
  OBVIOUS
<1>19. /\ new \in Seq(Node)
       /\ Separated(new)
       /\ HoldsNodes(new)
       /\ \A x : Covers(new, x) <=>
            \/ \E i \in 1..k - 1 : InNode(list[i], x)
            \/ Covers(mid, x)
            \/ \E i \in k + 1..Len(list) : InNode(list[i], x)
  <2>1. HoldsNodes(mid)
    BY <1>16 DEF HoldsNodes, NodeSize
  <2>2. k \in 1..Len(list) + 1 /\ k \in k - 1..Len(list)
    BY <1>2
  <2> QED BY <1>16, <1>17, <1>18, <2>1, <2>2, SpliceSeparated
<1>20. ASSUME NEW x \in Nat
       PROVE  Covers(list, x) <=>
                \/ \E i \in 1..k - 1 : InNode(list[i], x)
                \/ InNode(n, x)
                \/ \E i \in k + 1..Len(list) : InNode(list[i], x)
  <2>1. \A i : i \in 1..Len(list) <=> i \in 1..k - 1 \/ i = k \/ i \in k + 1..Len(list)
    BY <1>2
  <2> QED BY <1>3, <2>1 DEF Covers
<1>21. ASSUME NEW x \in Nat, NEW i \in 1..Len(list), i # k, InNode(list[i], x)
       PROVE  ~ InNode(n, x)
  <2>1. i < k \/ k < i
    BY <1>2, <1>21
  <2>2. ASSUME i < k PROVE NodeEnd(list[i]) < n.base
    BY <1>3, <2>2 DEF Separated
  <2>3. ASSUME k < i PROVE NodeEnd(n) < list[i].base
    BY <1>3, <2>3 DEF Separated
  <2> QED BY <1>2, <1>4, <1>21, <2>1, <2>2, <2>3, SMTT(30) DEF InNode, NodeEnd
<1>22. ASSUME NEW x \in Nat
       PROVE  Covers(new, x) <=> Covers(list, x) /\ ~ InBlock(b, x)
  <2>1. InNode(n, x) <=> Covers(mid, x) \/ InBlock(b, x)
    BY <1>4, <1>8, <1>12, <1>13, <1>16, SMTT(30)
  <2>2. ~ (Covers(mid, x) /\ InBlock(b, x))
    BY <1>4, <1>8, <1>12, <1>16
  <2>3. \A i : i \in 1..k - 1 \/ i \in k + 1..Len(list) => i \in 1..Len(list) /\ i # k
    BY <1>2
  <2> QED BY <1>19, <1>20, <1>21, <2>1, <2>2, <2>3
<1>23. ASSUME NEW x \in Nat, InBlock(b, x) PROVE Covers(list, x)
  BY <1>4, <1>8, <1>12, <1>13, <1>20, <1>23
<1>24. HeaderSize <= b.offset /\ NodeSize <= b.total
  BY <1>5, <1>6, <1>8, <1>11 DEF HeaderSize, NodeSize
<1> QED BY <1>8, <1>9, <1>11, <1>15, <1>18, <1>19, <1>22, <1>23, <1>24

(* An element of a list of nodes is a node, its fields natural numbers. *)
LEMMA NodeOfList ==
  ASSUME NEW list \in Seq(Node), NEW i \in 1..Len(list)
  PROVE  list[i] \in Node /\ list[i].base \in Nat /\ list[i].size \in Nat
<1>1. list[i] \in Node
  BY ElementOfSeq
<1> QED BY <1>1 DEF Node

(***************************************************************************)
(* A list in order and merged is determined by its bytes.  Two such lists  *)
(* over the same bytes agree up to any node, so they agree in it: its      *)
(* first byte is in the other list, but in no node of another place.       *)
(***************************************************************************)
LEMMA NextNodeBegins ==
  ASSUME NEW list \in Seq(Node), NEW other \in Seq(Node),
         Separated(list), HoldsNodes(list), Separated(other),
         \A x \in Nat : Covers(list, x) => Covers(other, x),
         NEW k \in 1..Len(list),
         \A i \in 1..k - 1 : i <= Len(other) /\ list[i] = other[i]
  PROVE  k <= Len(other) /\ other[k].base <= list[k].base
<1>1. Len(list) \in Nat /\ Len(other) \in Nat
  BY LenProperties
<1>2. /\ list[k].base \in Nat /\ list[k].size \in Nat
      /\ NodeSize <= list[k].size
  BY NodeOfList DEF HoldsNodes
<1>3. Covers(list, list[k].base)
  BY <1>2 DEF Covers, InNode, NodeEnd, NodeSize
<1>4. PICK j \in 1..Len(other) : InNode(other[j], list[k].base)
  BY <1>2, <1>3 DEF Covers
<1>5. ~ (j < k)
  <2> SUFFICES ASSUME j < k PROVE FALSE
    OBVIOUS
  <2>1. j \in 1..k - 1 /\ j \in 1..Len(list)
    BY <1>1
  <2>2. NodeEnd(list[j]) < list[k].base
    BY <2>1 DEF Separated
  <2>3. list[j] = other[j] /\ list[j].base \in Nat /\ list[j].size \in Nat
    BY <2>1, NodeOfList
  <2> QED BY <1>2, <1>4, <2>2, <2>3 DEF InNode, NodeEnd
<1>6. k <= Len(other)
  BY <1>1, <1>4, <1>5
<1>7. other[k].base \in Nat /\ other[k].size \in Nat /\ other[j].base \in Nat
  BY <1>1, <1>6, NodeOfList
<1>8. other[k].base <= other[j].base
  <2>1. CASE j = k
    BY <1>7, <2>1
  <2>2. CASE k < j
    <3>1. NodeEnd(other[k]) < other[j].base
      BY <1>1, <1>6, <2>2 DEF Separated
    <3> QED BY <1>7, <3>1 DEF NodeEnd
  <2> QED BY <1>1, <1>5, <2>1, <2>2
<1> QED BY <1>2, <1>4, <1>6, <1>7, <1>8 DEF InNode

(* The node is no longer than the other list's: the byte behind a shorter  *)
(* one is in no node.                                                      *)
LEMMA NextNodeEnds ==
  ASSUME NEW list \in Seq(Node), NEW other \in Seq(Node),
         Separated(list), Separated(other), HoldsNodes(other),
         \A x \in Nat : Covers(list, x) => Covers(other, x),
         NEW k \in 1..Len(list), k \in 1..Len(other),
         list[k].base = other[k].base
  PROVE  list[k].size <= other[k].size
<1> SUFFICES ASSUME ~ (list[k].size <= other[k].size) PROVE FALSE
  OBVIOUS
<1>1. Len(list) \in Nat /\ Len(other) \in Nat
  BY LenProperties
<1>2. /\ list[k].base \in Nat /\ list[k].size \in Nat
      /\ other[k].base \in Nat /\ other[k].size \in Nat
  BY NodeOfList
<1>3. PICK x : x = NodeEnd(other[k])
  OBVIOUS
<1>4. x \in Nat /\ InNode(list[k], x)
  BY <1>2, <1>3 DEF InNode, NodeEnd
<1>5. PICK j \in 1..Len(other) : InNode(other[j], x)
  BY <1>4 DEF Covers
<1>6. other[j].base \in Nat /\ other[j].size \in Nat
  BY NodeOfList
<1>7. CASE j = k
  <2>1. x < NodeEnd(other[k]) /\ x = NodeEnd(other[k]) /\ x \in Nat
    BY <1>3, <1>4, <1>5, <1>7 DEF InNode
  <2> QED BY ONLY <2>1
<1>8. CASE k < j
  <2>1. NodeEnd(other[k]) < other[j].base
    BY <1>8 DEF Separated
  <2> QED BY <1>3, <1>4, <1>5, <1>6, <2>1 DEF InNode
<1>9. CASE j < k
  <2>1. NodeEnd(other[j]) < other[k].base
    BY <1>9 DEF Separated
  <2> QED BY <1>2, <1>3, <1>4, <1>5, <1>6, <2>1 DEF InNode, NodeEnd
<1> QED BY <1>1, <1>7, <1>8, <1>9

THEOREM SameBytesSameList ==
  ASSUME NEW list \in Seq(Node), NEW other \in Seq(Node),
         Separated(list), HoldsNodes(list), Separated(other), HoldsNodes(other),
         \A x \in Nat : Covers(list, x) <=> Covers(other, x)
  PROVE  list = other
<1> DEFINE Agree(k) == k <= Len(list) /\ k <= Len(other) /\ list[k] = other[k]
           Differ == {k \in Nat : 1 <= k /\ (k <= Len(list) \/ k <= Len(other)) /\ ~ Agree(k)}
<1>1. Len(list) \in Nat /\ Len(other) \in Nat
  BY LenProperties
<1>2. CASE Differ = {}
  <2>1. \A k \in Nat : 1 <= k /\ (k <= Len(list) \/ k <= Len(other)) => Agree(k)
    BY <1>2
  <2>2. Len(list) = Len(other)
    <3>1. Len(list) <= Len(other)
      BY <1>1, <2>1
    <3>2. Len(other) <= Len(list)
      BY <1>1, <2>1
    <3> QED BY <1>1, <3>1, <3>2
  <2>3. \A k \in 1..Len(list) : list[k] = other[k]
    BY <1>1, <2>1
  <2> HIDE DEF Agree, Differ
  <2> QED BY <2>2, <2>3, SeqEqual
<1>3. CASE Differ # {}
  <2>1. PICK k \in Differ : \A n \in Differ : k <= n
    <3>1. Differ \subseteq Nat
      OBVIOUS
    <3> HIDE DEF Differ
    <3> QED BY <1>3, <3>1, LeastElement
  <2>2. \A i \in 1..k - 1 : Agree(i)
    BY <1>1, <2>1
  <2>3. k \in Nat /\ 1 <= k /\ (k <= Len(list) \/ k <= Len(other)) /\ ~ Agree(k)
    BY <2>1
  <2>4. k <= Len(list) => k <= Len(other) /\ other[k].base <= list[k].base
    <3> SUFFICES ASSUME k <= Len(list) PROVE k <= Len(other) /\ other[k].base <= list[k].base
      OBVIOUS
    <3>1. k \in 1..Len(list)
      BY <1>1, <2>3
    <3>2. \A i \in 1..k - 1 : i <= Len(other) /\ list[i] = other[i]
      BY <2>2
    <3> QED BY <3>1, <3>2, NextNodeBegins
  <2>5. k <= Len(other) => k <= Len(list) /\ list[k].base <= other[k].base
    <3> SUFFICES ASSUME k <= Len(other) PROVE k <= Len(list) /\ list[k].base <= other[k].base
      OBVIOUS
    <3>1. k \in 1..Len(other)
      BY <1>1, <2>3
    <3>2. \A i \in 1..k - 1 : i <= Len(list) /\ other[i] = list[i]
      BY <2>2
    <3> QED BY <3>1, <3>2, NextNodeBegins
  <2>6. k \in 1..Len(list) /\ k \in 1..Len(other)
    BY <1>1, <2>3, <2>4, <2>5
  <2>7. list[k] \in Node /\ other[k] \in Node
    BY <2>6, ElementOfSeq
  <2>8. list[k].base = other[k].base
    BY <2>4, <2>5, <2>6, <2>7, SMTT(30) DEF Node
  <2>9. list[k].size <= other[k].size /\ other[k].size <= list[k].size
    BY <2>6, <2>8, NextNodeEnds
  <2>10. list[k].size = other[k].size
    BY <2>7, <2>9 DEF Node
  <2>11. ASSUME NEW n \in Node PROVE n = [base |-> n.base, size |-> n.size]
    BY ONLY <2>11 DEF Node
  <2>12. list[k] = other[k]
    BY <2>7, <2>8, <2>10, <2>11, Zenon
  <2> QED BY <2>3, <2>6, <2>12
<1> QED BY <1>2, <1>3
=============================================================================
