------------------------------- MODULE EventLoop -------------------------------
(***************************************************************************)
(* The kernel's event loop (kernel/main.c), its queue (kernel/events.c),   *)
(* the key presses the keyboard interrupt adds (kernel/keyboard.c) and the *)
(* handler that takes them (kernel/bash.c), over the heap of FreeList: an  *)
(* event is the memory malloc gave for it, and is gone when that memory is *)
(* used again.                                                             *)
(*                                                                         *)
(* Handlers of interrupts run to the end.  The main program is cut at      *)
(* every point where one may come between two of its accesses to the       *)
(* queue; Interruptible says at which of those points one does come.       *)
(***************************************************************************)
EXTENDS FreeList, FiniteSets

CONSTANTS
  InitialLists,         \* the free lists the kernel may reach its loop with
  ArenaEnd,             \* an address above them all
  MaxKeys,              \* bound: keys the user hits
  Interruptible         \* the points of the main program an interrupt may come before

Point == {"check", "test", "fetch", "load", "store", "countLoad", "countStore",
          "release", "handle", "free", "idle", "halted"}

\* sizeof(Event), sizeof(KeypressEvent)
EventSize == 12
KeypressEventSize == 20

ASSUME EventLoopAssumption ==
  /\ ArenaEnd \in Nat
  /\ \A list \in InitialLists :
       /\ list \in Seq(Node) /\ Separated(list) /\ HoldsNodes(list)
       /\ \A i \in 1..Len(list) :
            /\ list[i].base >= KeypressEventSize /\ NodeEnd(list[i]) <= ArenaEnd
            /\ list[i].base % 4 = 0 /\ list[i].size % 4 = 0
  /\ PointerSpan \in Nat
  /\ NoWrap(MallocAlignSize, EventSize) /\ NoWrap(MallocAlignSize, KeypressEventSize)
  /\ MaxKeys \in Nat
  /\ Interruptible \subseteq Point

VARIABLES
  initialList, \* the heap's list when the loop starts
  freeList,    \* the heap's list now
  live,        \* the heap's allocated regions
  mem,         \* what each word of memory holds
  head, tail,  \* the statics of events.c, as words
  eventCount,
  pc,          \* where the main program is
  next, tmp,   \* call_next_event's `next', and a value loaded but not yet stored
  call,        \* the handler and the argument call_next_event has read
  typed,       \* keys hit so far
  handled      \* the keys the handler was called with, in order

heapVars == <<initialList, freeList, live, mem>>
queueVars == <<head, tail, eventCount>>
callVars == <<next, tmp, call>>
vars == <<heapVars, queueVars, pc, callVars, typed, handled>>

\* The contents of a word.
Ptr(p) == <<"ptr", p>>
NULL == Ptr(0)
Key(k) == <<"key", k>>          \* part of the KeypressEvent of the k-th key
Handler == <<"code", 0>>        \* bash's keypress_handler
Junk == <<"junk", 0>>           \* a header, a free node, memory never written
Count(n) == <<"count", n>>      \* event_count, in a register only
IsPtr(w) == w[1] = "ptr"

Words == {4 * i : i \in 0..ArenaEnd \div 4}

-----------------------------------------------------------------------------
(* Fields.  A pointer that is none reads junk.                             *)

Field(m, w, offset) == IF IsPtr(w) THEN m[w[2] + offset] ELSE Junk
HandlerOf(m, event) == Field(m, event, 0)
ArgsOf(m, event) == Field(m, event, 4)
NextOf(m, event) == Field(m, event, 8)

Store(m, at, words) ==
  [a \in DOMAIN m |->
     IF a >= at /\ a < at + 4 * Len(words) THEN words[(a - at) \div 4 + 1] ELSE m[a]]

(* malloc and free on a heap h = [list, live, mem].  malloc returns NULL   *)
(* when there is no room; nobody looks.                                    *)

Malloc(h, size) ==
  IF ~CanAllocate(h.list, MallocAlignSize, size)
    THEN [heap |-> h, ptr |-> 0]
    ELSE LET b == AllocatedBlock(h.list, MallocAlignSize, size)
             withHeader == Store(h.mem, b.base, [i \in 1..b.offset \div 4 |-> Junk])
             node == IF \E n \in {h.list[i] : i \in 1..Len(h.list)} :
                          n.base = b.base /\ n.size > b.total
                       THEN <<Junk, Junk>>
                       ELSE <<>>
         IN [heap |-> [list |-> AllocatedList(h.list, MallocAlignSize, size),
                       live |-> h.live \cup {b},
                       mem |-> Store(withHeader, BlockEnd(b), node)],
             ptr |-> Pointer(b)]

\* The regions a pointer can be freed as: none if it was freed before.
RegionsAt(w) == {b \in live : IsPtr(w) /\ Pointer(b) = w[2]}

Free(w) ==
  \E b \in RegionsAt(w) :
    /\ freeList' = FreeMemory(freeList, b.base, b.total)
    /\ live' = live \ {b}
    /\ UNCHANGED <<initialList, mem>>

-----------------------------------------------------------------------------

Init ==
  /\ initialList \in InitialLists
  /\ freeList = initialList
  /\ live = {}
  /\ mem = [a \in Words |-> Junk]
  /\ head = NULL /\ tail = NULL
  /\ eventCount = 0
  /\ pc = "check"
  /\ next = NULL /\ tmp = NULL /\ call = [handler |-> Junk, args |-> Junk]
  /\ typed = 0
  /\ handled = <<>>

\* Fault: the event before is not linked to the new one.
AddEventUnlinked(m, e, args) ==
  /\ head' = IF head = NULL THEN Ptr(e) ELSE head
  /\ mem' = Store(m, e, <<Handler, args, NULL>>)
  /\ tail' = Ptr(e)
  /\ eventCount' = eventCount + 1

\* add_event: the new event, at address e in memory m, becomes the tail, and the
\* head if there is none.
AddEvent(m, e, args) ==
  LET written == Store(m, e, <<Handler, args, NULL>>)
  IN /\ head' = IF head = NULL THEN Ptr(e) ELSE head
     /\ mem' = IF tail # NULL THEN Store(written, tail[2] + 8, <<Ptr(e)>>) ELSE written
     /\ tail' = Ptr(e)
     /\ eventCount' = eventCount + 1

\* on_key_pressed, on the last byte of a key's scancode.
KeyInterrupt ==
  /\ pc \in Interruptible
  /\ typed < MaxKeys
  /\ typed' = typed + 1
  /\ LET heap == [list |-> freeList, live |-> live, mem |-> mem]
         keypress == Malloc(heap, KeypressEventSize)
         filled == Store(keypress.heap.mem, keypress.ptr,
                         [i \in 1..KeypressEventSize \div 4 |-> Key(typed + 1)])
         event == Malloc([keypress.heap EXCEPT !.mem = filled], EventSize)
     IN /\ AddEvent(event.heap.mem, event.ptr, Ptr(keypress.ptr))
        /\ freeList' = event.heap.list
        /\ live' = event.heap.live
  /\ pc' = IF pc = "halted" THEN "check" ELSE pc
  /\ UNCHANGED <<initialList, callVars, handled>>

\* IRQ 0: its handler does nothing, but it ends hlt.
TimerInterrupt ==
  /\ pc = "halted"
  /\ pc' = "check"
  /\ UNCHANGED <<heapVars, queueVars, callVars, typed, handled>>

-----------------------------------------------------------------------------
(* The main program: loop.                                                 *)

At(p, q) == pc = p /\ pc' = q

\* Fault: the loop also runs when there is no event.
CheckAnyway ==
  /\ At("check", "test")
  /\ UNCHANGED <<heapVars, queueVars, callVars, typed, handled>>

\* while (get_event_count() > 0)
Check ==
  /\ pc = "check"
  /\ pc' = IF eventCount > 0 THEN "test" ELSE "idle"
  /\ UNCHANGED <<heapVars, queueVars, callVars, typed, handled>>

Halt ==
  /\ At("idle", "halted")
  /\ UNCHANGED <<heapVars, queueVars, callVars, typed, handled>>

(* call_next_event.                                                        *)

Test ==
  /\ pc = "test"
  /\ pc' = IF head = NULL THEN "check" ELSE "fetch"
  /\ UNCHANGED <<heapVars, queueVars, callVars, typed, handled>>

\* handler, args and next.
Fetch ==
  /\ At("fetch", "load")
  /\ call' = [handler |-> HandlerOf(mem, head), args |-> ArgsOf(mem, head)]
  /\ next' = head
  /\ UNCHANGED <<heapVars, queueVars, tmp, typed, handled>>

\* head = head->next
LoadNext ==
  /\ At("load", "store")
  /\ tmp' = NextOf(mem, head)
  /\ UNCHANGED <<heapVars, queueVars, next, call, typed, handled>>

StoreHead ==
  /\ At("store", "countLoad")
  /\ head' = tmp
  /\ tmp' = NULL
  /\ UNCHANGED <<heapVars, tail, eventCount, next, call, typed, handled>>

\* event_count--
LoadCount ==
  /\ At("countLoad", "countStore")
  /\ tmp' = Count(eventCount)
  /\ UNCHANGED <<heapVars, queueVars, next, call, typed, handled>>

StoreCount ==
  /\ At("countStore", "release")
  /\ eventCount' = tmp[2] - 1
  /\ tmp' = NULL
  /\ UNCHANGED <<heapVars, head, tail, next, call, typed, handled>>

Release ==
  /\ At("release", "handle")
  /\ Free(next)
  /\ next' = NULL
  /\ UNCHANGED <<queueVars, tmp, call, typed, handled>>

(* keypress_handler of bash.c.                                             *)

\* The key a KeypressEvent is about; 0 if something overwrote it.
KeyOf(m, w) ==
  LET fields == {Field(m, w, 4 * i) : i \in 0..KeypressEventSize \div 4 - 1}
  IN IF Cardinality(fields) = 1 /\ \A f \in fields : f[1] = "key"
       THEN (CHOOSE f \in fields : TRUE)[2]
       ELSE 0

Handle ==
  /\ At("handle", "free")
  /\ call.handler = Handler
  /\ handled' = Append(handled, KeyOf(mem, call.args))
  /\ UNCHANGED <<heapVars, queueVars, callVars, typed>>

\* Fault: the handler keeps its argument.
KeepKeypress ==
  /\ At("free", "check")
  /\ call' = [handler |-> Junk, args |-> Junk]
  /\ UNCHANGED <<heapVars, queueVars, next, tmp, typed, handled>>

FreeKeypress ==
  /\ At("free", "check")
  /\ Free(call.args)
  /\ call' = [handler |-> Junk, args |-> Junk]
  /\ UNCHANGED <<queueVars, next, tmp, typed, handled>>

Main ==
  \/ Check \/ Halt
  \/ Test \/ Fetch \/ LoadNext \/ StoreHead \/ LoadCount \/ StoreCount \/ Release
  \/ Handle \/ FreeKeypress

Next == Main \/ KeyInterrupt \/ TimerInterrupt

\* The processor runs and the timer ticks; nobody has to hit a key.
Spec == Init /\ [][Next]_vars /\ WF_vars(Main) /\ WF_vars(TimerInterrupt)

-----------------------------------------------------------------------------
(* Properties.                                                             *)

Word == {"ptr"} \X (0..ArenaEnd) \cup {"key"} \X (1..MaxKeys) \cup {Handler, Junk}

\* Types and bounds.
TypeOK ==
  /\ freeList \in Seq(Node)
  /\ live \subseteq Block
  /\ mem \in [Words -> Word]
  /\ head \in Word /\ tail \in Word
  /\ eventCount \in 0..MaxKeys
  /\ pc \in Point
  /\ call \in [handler : Word, args : Word]
  /\ typed \in 0..MaxKeys
  /\ handled \in Seq(0..MaxKeys)

\* The event call_next_event has taken, if any, is no longer the queue's.
Taken == pc \in {"load", "store", "countLoad", "countStore", "release", "handle"}

\* How many events are in the queue, and the first of them.
QueueLength == eventCount - IF pc \in {"load", "store", "countLoad", "countStore"} THEN 1 ELSE 0
First == IF pc \in {"load", "store"} THEN NextOf(mem, head) ELSE head

Queue ==
  LET event[i \in 1..MaxKeys] == IF i = 1 THEN First ELSE NextOf(mem, event[i - 1])
  IN [i \in 1..QueueLength |-> KeyOf(mem, ArgsOf(mem, event[i]))]

Pending == (IF Taken THEN <<KeyOf(mem, call.args)>> ELSE <<>>) \o Queue

\* The loop implements the queue: the handler gets the event of every key, once, in
\* the order hit, whole, and in the end gets it even if the key came between the
\* check of event_count and hlt.
Events == INSTANCE EventQueue WITH queue <- Pending
EventsSpec == Events!Spec

\* Once call_next_event and the handler have emptied the queue, every event and key
\* press has been freed, once: the heap is as it was before the first key.
QuietHeap ==
  pc \in {"idle", "halted"} /\ eventCount = 0 =>
    live = {} /\ freeList = initialList

\* The comment in add_event, "Add to head if there is no element": an event added
\* to an empty queue becomes its head.
AddsToHead == [][eventCount = 0 /\ eventCount' = 1 => head' = tail']_vars
=============================================================================
