------------------------------- MODULE ByteFiles -------------------------------
(***************************************************************************)
(* What a program may rely on from fopen, fread, fgetc, fgets and fclose   *)
(* (kernel/libc/stdio.h), with no clusters, sectors or buffers: a file is  *)
(* a sequence of bytes, a stream a position in it.  A call may fall short  *)
(* only at the end of the file, or when the disk failed during the call.   *)
(***************************************************************************)
EXTENDS Integers, Sequences

CONSTANTS
  Handles,    \* the streams there are
  ReadSizes,  \* the sizes reads ask for
  LineSizes,  \* the sizes of fgets's array
  Paths,      \* the names fopen is called with
  EndsLine(_) \* does a byte end a line?

VARIABLES
  contents,  \* the files: from a path to the bytes
  open,      \* the open streams: from a handle to a stream
  fault,     \* did the disk fail during the last call that reads it?
  result     \* the last call that returned, and what it returned

vars == <<contents, open, fault, result>>

NoResult == [op |-> "none"]

Least(a, b) == IF a < b THEN a ELSE b
IsKept(byte) == byte.char # "0xFF"

Init ==
  /\ open = <<>>
  /\ fault = FALSE
  /\ result = NoResult

\* A call begins; the disk fails.
Begin == fault' = FALSE /\ result' = NoResult /\ UNCHANGED <<contents, open>>
DiskFails == fault' = TRUE /\ UNCHANGED <<contents, open, result>>

\* A call returns; the disk may have failed just now.
Returns(r) == result' = r /\ fault' \in {fault, TRUE} /\ UNCHANGED contents

Open(h, p) ==
  /\ h \notin DOMAIN open /\ p \in DOMAIN contents
  /\ open' = [g \in DOMAIN open \cup {h} |->
                IF g = h THEN [name |-> p, position |-> 0, error |-> FALSE, eof |-> FALSE]
                         ELSE open[g]]
  /\ Returns([op |-> "fopen", name |-> p, stream |-> h])

\* NULL, because there is no such file, no stream is left, or the disk failed.
OpenFails(p) ==
  /\ p \notin DOMAIN contents \/ DOMAIN open = Handles \/ fault'
  /\ open' = open
  /\ Returns([op |-> "fopen", name |-> p, stream |-> -1])

Rest(s) == SubSeq(contents[s.name], s.position + 1, Len(contents[s.name]))

\* The stream consumes k bytes.  An error is never forgotten, and only the disk causes it.
Consumes(h, k, ended) ==
  LET s == open[h] IN
  \E failed \in {s.error, s.error \/ fault'} :
    open' = [open EXCEPT ![h] = [s EXCEPT !.position = @ + k, !.error = failed,
                                          !.eof = @ \/ ended]]

\* vfs_read: as many bytes as asked for, or as there are.
Read(h, n) ==
  LET rest == Rest(open[h]) IN
  \E k \in 0..Least(n, Len(rest)) :
    /\ k = Least(n, Len(rest)) \/ fault' \/ open[h].error
    /\ open[h].error => k = 0
    /\ Consumes(h, k, k = Len(rest) /\ (k < n \/ k = 0))
    /\ Returns([op |-> "read", stream |-> h, size |-> n, bytes |-> SubSeq(rest, 1, k)])

\* fgets: up to n - 1 bytes, through the end of the line.  A byte 0xFF also ends it,
\* and is lost: as a char it is EOF.
Gets(h, n) ==
  LET rest == Rest(open[h])
      Stops(i) == EndsLine(rest[i]) \/ ~ IsKept(rest[i])
  IN \E k \in 0..Least(n - 1, Len(rest)) :
       LET stopped == k = n - 1 \/ (k > 0 /\ Stops(k)) IN
       /\ \A i \in 1..k - 1 : ~ Stops(i)
       /\ stopped \/ k = Len(rest) \/ fault' \/ open[h].error
       /\ open[h].error => k = 0
       /\ Consumes(h, k, k = Len(rest) /\ ~ stopped)
       /\ Returns([op |-> "fgets", stream |-> h, size |-> n,
                   bytes |-> SubSeq(rest, 1, IF k = 0 \/ IsKept(rest[k]) THEN k ELSE k - 1)])

Close(h) ==
  /\ open' = [g \in DOMAIN open \ {h} |-> open[g]]
  /\ Returns([op |-> "fclose", stream |-> h])

Next ==
  \/ Begin \/ DiskFails
  \/ \E p \in Paths : OpenFails(p)
  \/ \E h \in Handles, p \in Paths : Open(h, p)
  \/ \E h \in DOMAIN open, n \in ReadSizes : Read(h, n)
  \/ \E h \in DOMAIN open, n \in LineSizes : Gets(h, n)
  \/ \E h \in DOMAIN open : Close(h)

Spec == Init /\ [][Next]_vars
=============================================================================
