------------------------------ MODULE MemoryPool ------------------------------
(***************************************************************************)
(* What a caller may rely on from malloc, free and realloc                 *)
(* (kernel/libc/memory.h), with no free list: a call either hands out      *)
(* memory nobody owns, with room for the object, or returns NULL, and it   *)
(* may return NULL only when no run of unowned bytes is large enough.      *)
(***************************************************************************)
EXTENDS Integers

CONSTANTS
  Usable,      \* the addresses of the memory the pool manages
  HeaderSize,  \* bytes kept in front of an object
  Sizes, Alignments

VARIABLES
  blocks,   \* the regions in use, each with the object inside it
  request,  \* what the last call asked for
  result    \* what the last call returned

vars == <<blocks, request, result>>

NULL == 0
AsksNothing == <<1, 0>>

InBlock(b, x) == b.base <= x /\ x < b.base + b.total
Owned(x) == \E b \in blocks : InBlock(b, x)

\* Bytes lo .. hi - 1 are the pool's and nobody owns them.
Unowned(lo, hi) == \A x \in lo..hi - 1 : x \in Usable /\ ~ Owned(x)

\* A region for an object of the given size, out of unowned memory.
IsGrant(b, size) ==
  /\ Unowned(b.base, b.base + b.total)
  /\ b.requested = size
  /\ HeaderSize <= b.offset
  /\ b.offset + size <= b.total

\* Not even the worst alignment padding leaves room anywhere.
NoRoom(alignment, size) ==
  \A lo \in Usable : ~ Unowned(lo, lo + HeaderSize + size + alignment - 1)

Init ==
  /\ blocks = {}
  /\ request = AsksNothing
  /\ result = NULL

\* The new region is the one the step adds to blocks.
Grant(alignment, size) ==
  /\ request' = <<alignment, size>>
  /\ \E b \in blocks' \ blocks :
       /\ IsGrant(b, size)
       /\ blocks' = blocks \cup {b}
       /\ result' = b.base + b.offset

Refuse(alignment, size) ==
  /\ size = 0 \/ NoRoom(alignment, size)
  /\ request' = <<alignment, size>>
  /\ result' = NULL
  /\ UNCHANGED blocks

Release(b) ==
  /\ blocks' = blocks \ {b}
  /\ request' = AsksNothing
  /\ result' = NULL

\* realloc that finds room: the new region is taken while the old one is in use.
Move(b, size) ==
  /\ request' = <<1, size>>
  /\ \E new \in blocks' \ blocks :
       /\ IsGrant(new, size)
       /\ blocks' = (blocks \cup {new}) \ {b}
       /\ result' = new.base + new.offset

Next ==
  \/ \E s \in Sizes, a \in Alignments : Grant(a, s)
  \/ \E s \in Sizes, a \in Alignments : Refuse(a, s)
  \/ \E b \in blocks : Release(b)
  \/ \E b \in blocks, s \in Sizes : Move(b, s)

Spec == Init /\ [][Next]_vars
=============================================================================
