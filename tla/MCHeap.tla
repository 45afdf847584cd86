-------------------------------- MODULE MCHeap --------------------------------
EXTENDS Heap

\* Two regions, as a machine with a hole in its memory map has them.
MCInitialList == <<[base |-> 8, size |-> 72], [base |-> 84, size |-> 40]>>
=============================================================================
