------------------------------ MODULE FileStreams ------------------------------
(***************************************************************************)
(* Files (kernel/libc/stdio.c, kernel/hal/vfs.c, kernel/fat.c): streams    *)
(* over a mounted, read-only FAT 32 partition, call by call and sector by  *)
(* sector.  Only the main program uses files, so calls do not overlap, but *)
(* streams share the copy of one FAT sector, and any sector read may fail. *)
(* malloc succeeds, volumes are consistent, and a name has eleven          *)
(* characters, so two names are either equal or different.                 *)
(***************************************************************************)
EXTENDS Integers, Sequences

CONSTANTS
  SectorSize,          \* bytes in a sector (512)
  EntriesPerFatSector, \* entries of the FAT in a sector (128)
  FOPEN_MAX,           \* streams in files[] (16)
  BadCluster,          \* entries from here on end a chain (0x0FFFFFF7)
  Volumes,             \* volumes the partition may hold
  Characters,          \* the values of a byte
  Paths,               \* names fopen is called with: sequences of components
  ReadSizes,           \* sizes vfs_read is called with
  LineSizes            \* sizes fgets is called with

ASSUME FileAssumption ==
  /\ SectorSize \in Nat \ {0}
  /\ EntriesPerFatSector \in Nat \ {0}
  /\ FOPEN_MAX \in Nat
  /\ BadCluster \in Nat
  /\ Paths \subseteq Seq(STRING)
  /\ ReadSizes \subseteq Nat
  /\ LineSizes \subseteq Nat \ {0, 1}

(***************************************************************************)
(* Volumes: a boot record, the disk image and, for the properties, the     *)
(* objects on it and the bytes fread finds in them, from paths.  The root  *)
(* is the object <<>>; there are no bytes to be read in a directory.       *)
(***************************************************************************)
FirstFatSector(v) == v.reserved
FirstDataSector(v) == FirstFatSector(v) + v.fatCount * v.fatSize
ClusterToLba(v, cluster) == FirstDataSector(v) + (cluster - 2) * v.perCluster
FatSectorOf(v, cluster) == FirstFatSector(v) + cluster \div EntriesPerFatSector
EntryIn(buffer, cluster) == buffer.entries[(cluster % EntriesPerFatSector) + 1]

\* The sector of byte `position' of an object.
SectorLba(v, object, position) ==
  LET sector == position \div SectorSize
  IN ClusterToLba(v, object.chain[(sector \div v.perCluster) + 1]) + (sector % v.perCluster)

\* The FAT leads from every cluster of an object to the next, and at last to none.
IsChained(v, object) ==
  /\ object.chain \in Seq(Nat)
  /\ object.chain # <<>> => object.chain[1] = object.first
  /\ \A i \in 1..Len(object.chain) :
       LET next == EntryIn(v.image[FatSectorOf(v, object.chain[i])], object.chain[i])
       IN /\ object.chain[i] < BadCluster
          /\ IF i < Len(object.chain) THEN next = object.chain[i + 1]
                                      ELSE next \in Nat /\ next >= BadCluster

\* Every byte of the file is in its place in a sector of a cluster of the chain.
HoldsFile(v, object, bytes) ==
  /\ bytes \in Seq(Characters)
  /\ object.size = Len(bytes)
  /\ \A p \in 0..Len(bytes) - 1 :
       LET sector == v.image[SectorLba(v, object, p)] IN
       /\ (p \div SectorSize) \div v.perCluster < Len(object.chain)
       /\ sector.bytes \in Seq(Characters) /\ Len(sector.bytes) = SectorSize
       /\ sector.bytes[(p % SectorSize) + 1] = bytes[p + 1]

\* The first sector of a directory lists its children once each, before its end.
ListsChildren(v, path) ==
  LET entries == v.image[SectorLba(v, v.objects[path], 0)].entries
      Child(i) == Append(path, entries[i].name)
      files == {i \in 1..Len(entries) : entries[i].kind = "file"}
      ends == {i \in 1..Len(entries) : entries[i].kind = "end"}
  IN /\ v.objects[path].chain # <<>>
     /\ \A i \in files : (\A e \in ends : i < e) =>
          /\ Child(i) \in DOMAIN v.objects
          /\ entries[i].name \in STRING
          /\ v.objects[Child(i)].first = entries[i].cluster
          /\ v.objects[Child(i)].size = entries[i].size
          /\ v.objects[Child(i)].directory = entries[i].directory
     /\ \A e \in ends : \A child \in DOMAIN v.objects :
          child # <<>> /\ SubSeq(child, 1, Len(child) - 1) = path =>
            \E i \in files : i < e /\ Child(i) = child

\* What a formatting tool leaves.
IsConsistent(v) ==
  /\ v.reserved \in Nat \ {0} /\ v.perCluster \in Nat \ {0}
  /\ v.fatCount \in Nat /\ v.fatSize \in Nat /\ v.root \in Nat
  /\ 0 \in DOMAIN v.image
  /\ DOMAIN v.objects \subseteq Seq(STRING)
  /\ DOMAIN v.contents = DOMAIN v.objects
  /\ \A path \in DOMAIN v.objects :
       LET object == v.objects[path] IN
       /\ object.first \in Nat /\ object.size \in Nat /\ object.directory \in BOOLEAN
       /\ \A n \in 0..Len(path) - 1 :
            /\ SubSeq(path, 1, n) \in DOMAIN v.objects
            /\ v.objects[SubSeq(path, 1, n)].directory
       /\ IsChained(v, object)
       /\ object.directory => object.size = 0 /\ ListsChildren(v, path)
       /\ HoldsFile(v, object, v.contents[path])
  /\ <<>> \in DOMAIN v.objects
  /\ v.objects[<<>>].first = v.root /\ v.objects[<<>>].directory

ASSUME VolumeAssumption == \A v \in Volumes : IsConsistent(v)

VARIABLES
  volume,     \* the volume mounted
  files,      \* the streams
  fatSector,  \* the sector fat_buffer is labelled with; 0 is none
  fatBuffer,  \* what fat_buffer holds
  pc,         \* where the call under way is; "idle" between calls
  call,       \* its arguments and locals
  fault,      \* did the disk fail during the last call that reads it?
  result      \* what the last call returned, until the next one begins

vars == <<volume, files, fatSector, fatBuffer, pc, call, fault, result>>

Handles == 0..FOPEN_MAX - 1

NoBuffer == [kind |-> "NULL"]
NoData == [first |-> 0, current |-> 0, index |-> 0, position |-> 0, size |-> 0,
           directory |-> FALSE]
NoCall == [op |-> "none"]
NoResult == [op |-> "none"]

\* A stream that is not in use.  `name' is kept for the properties only.
Closed == [opened |-> FALSE, error |-> FALSE, eof |-> FALSE, buffer |-> NoBuffer,
           data |-> NoData, name |-> <<>>]

\* After memory_initialize, disk_initialize and fat_initialize.  The partition's first
\* sector, the boot record, is still in fat_buffer.
Init ==
  /\ volume \in Volumes
  /\ files = [h \in Handles |-> Closed]
  /\ fatSector = 0
  /\ fatBuffer = volume.image[0]
  /\ pc = "idle"
  /\ call = NoCall
  /\ fault = FALSE
  /\ result = NoResult

-----------------------------------------------------------------------------
(* Sectors and clusters.                                                   *)

\* disk_read_sectors refuses a sector behind the partition; an address below 0 has
\* become a large unsigned one.
OnPartition(lba) == lba \in DOMAIN volume.image

TargetSector(d) == d.position \div SectorSize
TargetCluster(d) == TargetSector(d) \div volume.perCluster
TargetLba(d) == ClusterToLba(volume, d.current) + (TargetSector(d) % volume.perCluster)

\* load_file_buffer goes back to the first cluster when the target lies behind it.
Rewound(d) ==
  IF TargetCluster(d) < d.index THEN [d EXCEPT !.index = 0, !.current = d.first] ELSE d

Current == files[call.stream]
Becomes(stream) == files' = [files EXCEPT ![call.stream] = stream]

-----------------------------------------------------------------------------
(* Ends of calls.                                                          *)

Return(r) == pc' = "idle" /\ call' = NoCall /\ result' = r

OpenFails(stream) ==
  /\ Becomes(stream)
  /\ Return([op |-> "fopen", name |-> stream.name, stream |-> -1])

IsEOF(byte) == byte.char = "0xFF"
EndsLine(byte) == byte.char = "newline"

\* fat_read returns `out': to the caller, or to fgetc in the loop of fgets, which ends
\* at an EOF, the end of a line, or a full array.
Line(out) == IF out = <<>> \/ IsEOF(out[1]) THEN call.line ELSE Append(call.line, out[1])

\* Fault: the end of the file is not told from a character.
LineEndsNotAtEOF(out) ==
  IF out = <<>> THEN FALSE
  ELSE EndsLine(out[1]) \/ Len(Line(out)) = call.size - 1

\* Fault: one character too many, and no room for the terminating zero.
LineEndsLate(out) ==
  IF out = <<>> THEN TRUE
  ELSE IsEOF(out[1]) \/ EndsLine(out[1]) \/ Len(Line(out)) = call.size

LineEnds(out) ==
  IF out = <<>> THEN TRUE
  ELSE IsEOF(out[1]) \/ EndsLine(out[1]) \/ Len(Line(out)) = call.size - 1

ReturnBytes(bytes) ==
  Return([op |-> call.op, stream |-> call.stream, size |-> call.size, bytes |-> bytes])

ReadReturns(stream, out) ==
  /\ Becomes(stream)
  /\ \/ call.op = "read" /\ ReturnBytes(out)
     \/ call.op = "fgets" /\ LineEnds(out) = TRUE /\ ReturnBytes(Line(out))
     \/ /\ call.op = "fgets" /\ LineEnds(out) = FALSE
        /\ pc' = "read"
        /\ call' = [call EXCEPT !.line = Line(out), !.remaining = 1, !.out = <<>>]
        /\ UNCHANGED result

\* Fault: fat_read goes on without noting the error.
LoadReturnsUnnoted(stream, ok) ==
  \/ /\ ok /\ call.after # "miss"
     /\ Becomes(stream)
     /\ pc' = call.after
     /\ UNCHANGED <<call, result>>
  \/ call.after = "miss" /\ OpenFails(stream)
  \/ ~ ok /\ call.after = "component" /\ OpenFails(stream)
  \/ ~ ok /\ call.after = "copy" /\ ReadReturns(stream, call.out)

\* load_file_buffer returns: `after' says to whom.  The search that came to the end of
\* the directory ignores what it returns.
LoadReturns(stream, ok) ==
  \/ /\ ok /\ call.after # "miss"
     /\ Becomes(stream)
     /\ pc' = call.after
     /\ UNCHANGED <<call, result>>
  \/ call.after = "miss" /\ OpenFails(stream)
  \/ ~ ok /\ call.after = "component" /\ OpenFails(stream)
  \/ ~ ok /\ call.after = "copy" /\ ReadReturns([stream EXCEPT !.error = TRUE], call.out)

-----------------------------------------------------------------------------
(* load_file_buffer.                                                       *)

\* One turn of the search for the cluster: the next entry of the chain.
Follows(next) ==
  LET d == [Current.data EXCEPT !.index = @ + 1, !.current = next]
      stream == [Current EXCEPT !.data = d]
  IN \/ next < BadCluster /\ Becomes(stream) /\ UNCHANGED <<pc, call, result>>
     \/ next >= BadCluster /\ LoadReturns(stream, FALSE)

Walks == pc = "load" /\ Current.data.index < TargetCluster(Current.data)
Wanted == FatSectorOf(volume, Current.data.current)

WalkCached ==
  /\ Walks /\ fatSector = Wanted
  /\ Follows(EntryIn(fatBuffer, Current.data.current))
  /\ UNCHANGED <<volume, fatSector, fatBuffer, fault>>

WalkReads ==
  /\ Walks /\ fatSector # Wanted /\ OnPartition(Wanted)
  /\ fatSector' = Wanted
  /\ fatBuffer' = volume.image[Wanted]
  /\ Follows(EntryIn(fatBuffer', Current.data.current))
  /\ UNCHANGED <<volume, fault>>

\* Fault: the label is set before the sector is read.
WalkFailsLabelled ==
  /\ Walks /\ fatSector # Wanted
  /\ fault' = TRUE
  /\ fatSector' = Wanted
  /\ Follows(BadCluster)
  /\ UNCHANGED <<volume, fatBuffer>>

WalkFails ==
  /\ Walks /\ fatSector # Wanted
  /\ fault' = TRUE
  /\ fatSector' = 0
  /\ Follows(BadCluster)
  /\ UNCHANGED <<volume, fatBuffer>>

Fills == pc = "load" /\ Current.data.index >= TargetCluster(Current.data)

FillReads ==
  /\ Fills /\ OnPartition(TargetLba(Current.data))
  /\ LoadReturns([Current EXCEPT !.buffer = volume.image[TargetLba(Current.data)]], TRUE)
  /\ UNCHANGED <<volume, fatSector, fatBuffer, fault>>

FillFails ==
  /\ Fills
  /\ fault' = TRUE
  /\ LoadReturns(Current, FALSE)
  /\ UNCHANGED <<volume, fatSector, fatBuffer>>


-----------------------------------------------------------------------------
(* fopen.                                                                  *)

Unopened == {h \in Handles : ~ files[h].opened}

RootDirectory == [NoData EXCEPT !.first = volume.root, !.current = volume.root, !.directory = TRUE]

\* The first stream that is not open.  After an fopen that failed it still has a buffer,
\* which setvbuf leaves, and FatFileData, which are replaced and lost.
FOpen(path) ==
  /\ pc = "idle" /\ Unopened # {}
  /\ LET h == CHOOSE h \in Unopened : \A g \in Unopened : h <= g
         buffer == IF files[h].buffer = NoBuffer THEN [kind |-> "junk"] ELSE files[h].buffer
     IN /\ files' = [files EXCEPT ![h] =
                       [Closed EXCEPT !.buffer = buffer, !.data = RootDirectory, !.name = path]]
        /\ call' = [op |-> "fopen", stream |-> h, path |-> path, after |-> "component"]
  /\ pc' = "load"
  /\ fault' = FALSE
  /\ result' = NoResult
  /\ UNCHANGED <<volume, fatSector, fatBuffer>>

FOpenFull(path) ==
  /\ pc = "idle" /\ Unopened = {}
  /\ result' = [op |-> "fopen", name |-> path, stream |-> -1]
  /\ UNCHANGED <<volume, files, fatSector, fatBuffer, pc, call, fault>>

\* Every component is open.
OpenReturns ==
  /\ pc = "component" /\ call.path = <<>>
  /\ Becomes([Current EXCEPT !.opened = TRUE])
  /\ Return([op |-> "fopen", name |-> Current.name, stream |-> call.stream])
  /\ UNCHANGED <<volume, fatSector, fatBuffer, fault>>

\* find_file_in_dir.  The entries of the sector it stops at: the first of them decides.
Searches == pc = "component" /\ call.path # <<>>
IsDirectory == Current.data.directory /\ Current.data.current < BadCluster
Stops ==
  LET entries == Current.buffer.entries IN
  {i \in 1..Len(entries) :
     \/ entries[i].kind = "end"
     \/ entries[i].kind = "file" /\ entries[i].name = call.path[1]}
Stop == Current.buffer.entries[CHOOSE i \in Stops : \A j \in Stops : i <= j]

SearchRefuses ==
  /\ Searches /\ ~ IsDirectory
  /\ OpenFails(Current)
  /\ UNCHANGED <<volume, fatSector, fatBuffer, fault>>

SearchFinds ==
  /\ Searches /\ IsDirectory /\ Stops # {} /\ Stop.kind = "file"
  /\ LET d == [first |-> Stop.cluster, current |-> Stop.cluster, index |-> 0,
               position |-> 0, size |-> Stop.size, directory |-> Stop.directory]
     IN Becomes([Current EXCEPT !.data = Rewound(d)])
  /\ call' = [call EXCEPT !.path = Tail(@)]
  /\ pc' = "load"
  /\ UNCHANGED <<volume, fatSector, fatBuffer, fault, result>>

\* The directory ends here, and only now the next sector is loaded.
SearchEnds ==
  /\ Searches /\ IsDirectory /\ Stops # {} /\ Stop.kind = "end"
  /\ LET d == [Current.data EXCEPT !.position = @ + SectorSize]
     IN Becomes([Current EXCEPT !.data = Rewound(d)])
  /\ call' = [call EXCEPT !.after = "miss"]
  /\ pc' = "load"
  /\ UNCHANGED <<volume, fatSector, fatBuffer, fault, result>>

\* The sector has neither: the loop looks through the same sector again.
SearchRepeats ==
  /\ Searches /\ IsDirectory /\ Stops = {}
  /\ UNCHANGED vars

-----------------------------------------------------------------------------
(* fread, fgetc, fgets and fclose.                                         *)

\* vfs_read(stream, buff, size), as fread and fgetc call it, or fgets.
\* `before' keeps, for the properties, the stream as the call found it.
Reading(op, h, size, bytes) ==
  /\ pc = "idle" /\ files[h].opened
  /\ call' = [op |-> op, stream |-> h, size |-> size, remaining |-> bytes, out |-> <<>>,
              line |-> <<>>, after |-> "copy", before |-> files[h]]
  /\ pc' = "read"
  /\ fault' = FALSE
  /\ result' = NoResult
  /\ UNCHANGED <<volume, files, fatSector, fatBuffer>>

FRead(h, size) == Reading("read", h, size, size)
FGets(h, size) == Reading("fgets", h, size, 1)

Left(d) == d.size - d.position
Smallest(S) == CHOOSE n \in S : \A m \in S : n <= m

\* Fault: not bounded by what is left in the file.
ToReadPastEnd(d, inSector) == Smallest({call.remaining, inSector})

\* How much one turn of the loop copies.
ToRead(d, inSector) == Smallest({call.remaining, inSector, Left(d)})

\* The head of fat_read.
ReadAtEnd ==
  /\ pc = "read" /\ Left(Current.data) = 0
  /\ ReadReturns([Current EXCEPT !.eof = TRUE], <<>>)
  /\ UNCHANGED <<volume, fatSector, fatBuffer, fault>>

ReadAfterError ==
  /\ pc = "read" /\ Left(Current.data) # 0 /\ Current.error
  /\ ReadReturns(Current, <<>>)
  /\ UNCHANGED <<volume, fatSector, fatBuffer, fault>>

ReadStarts ==
  /\ pc = "read" /\ Left(Current.data) # 0 /\ ~ Current.error
  /\ pc' = "copy"
  /\ UNCHANGED <<volume, files, fatSector, fatBuffer, call, fault, result>>

\* Its loop: what the buffer has is copied, and the next sector loaded when it is used up.
CopyReturns ==
  /\ pc = "copy" /\ call.remaining = 0
  /\ ReadReturns(Current, call.out)
  /\ UNCHANGED <<volume, fatSector, fatBuffer, fault>>

Copy ==
  /\ pc = "copy" /\ call.remaining > 0
  /\ LET d == Current.data
         at == d.position % SectorSize
         inSector == SectorSize - at
         toRead == ToRead(d, inSector)
         out == call.out \o SubSeq(Current.buffer.bytes, at + 1, at + toRead)
         moved == [d EXCEPT !.position = @ + toRead]
         remaining == call.remaining - toRead
     IN \/ /\ Left(moved) = 0
           /\ ReadReturns([Current EXCEPT !.data = moved, !.eof = @ \/ remaining > 0], out)
        \/ /\ Left(moved) # 0
           /\ call' = [call EXCEPT !.remaining = remaining, !.out = out]
           /\ \/ toRead >= inSector /\ Becomes([Current EXCEPT !.data = Rewound(moved)]) /\ pc' = "load"
              \/ toRead < inSector /\ Becomes([Current EXCEPT !.data = moved]) /\ pc' = "copy"
           /\ UNCHANGED result
  /\ UNCHANGED <<volume, fatSector, fatBuffer, fault>>

FClose(h) ==
  /\ pc = "idle" /\ files[h].opened
  /\ files' = [files EXCEPT ![h] = Closed]
  /\ result' = [op |-> "fclose", stream |-> h]
  /\ UNCHANGED <<volume, fatSector, fatBuffer, pc, call, fault>>

-----------------------------------------------------------------------------
(* Who takes steps: the program calls, the call runs.                      *)

Calls ==
  \/ \E p \in Paths : FOpen(p) \/ FOpenFull(p)
  \/ \E h \in Handles, n \in ReadSizes : FRead(h, n)
  \/ \E h \in Handles, n \in LineSizes : FGets(h, n)
  \/ \E h \in Handles : FClose(h)

Runs ==
  \/ WalkCached \/ WalkReads \/ WalkFails \/ FillReads \/ FillFails
  \/ OpenReturns \/ SearchRefuses \/ SearchFinds \/ SearchEnds \/ SearchRepeats
  \/ ReadAtEnd \/ ReadAfterError \/ ReadStarts \/ CopyReturns \/ Copy

Next == Calls \/ Runs

Spec == Init /\ [][Next]_vars

\* A call runs on, and the drive answers each command, with data or an error.
FairSpec == Spec /\ WF_vars(Runs)

-----------------------------------------------------------------------------
(* Properties.                                                             *)

\* What a sector of memory may hold.
Buffers == {NoBuffer, [kind |-> "junk"]} \cup {volume.image[lba] : lba \in DOMAIN volume.image}

TypeOK ==
  /\ volume \in Volumes
  /\ \A h \in Handles :
       /\ {files[h].opened, files[h].error, files[h].eof} \subseteq BOOLEAN
       /\ files[h].buffer \in Buffers
       /\ files[h].data \in [first : Nat, current : Nat, index : Nat, position : Nat,
                             size : Nat, directory : BOOLEAN]
       /\ files[h].data.position <= files[h].data.size \/ files[h].data.directory
       /\ files[h].name \in Paths \cup {<<>>}
  /\ fatSector \in DOMAIN volume.image
  /\ fatBuffer \in Buffers
  /\ pc \in {"idle", "load", "component", "read", "copy"}
  /\ (pc = "idle") <=> (call = NoCall)
  /\ fault \in BOOLEAN

\* Between two calls, the buffer of a stream that can still be read holds the sector of
\* the byte that comes next: whatever other streams did, and wherever sector reads failed.
BufferHoldsPosition ==
  pc = "idle" =>
    \A h \in Handles :
      LET s == files[h]
          bytes == volume.contents[s.name]
      IN s.opened /\ ~ s.error /\ s.data.position < Len(bytes) =>
           s.buffer.bytes[(s.data.position % SectorSize) + 1] = bytes[s.data.position + 1]

\* fat_buffer holds the sector it is labelled with, also after a read that failed: all
\* streams find their way along the chains with it.
FatBufferIsItsSector == fatSector # 0 => fatBuffer = volume.image[fatSector]

\* Every call of fread, fgetc and fgets returns.
ReadsReturn == pc \in {"read", "copy"} ~> pc = "idle"

\* fat.c says of the search for a name: it returns "0 on success, EOF on error".
OpensReturn == pc = "component" ~> pc = "idle"

\* The streams implement files of bytes.  A call that is under way has not yet
\* happened; which stream is open with which name comes from `name'.
OpenStreams ==
  [h \in {h \in Handles : files[h].opened} |->
     LET s == IF pc # "idle" /\ call.op # "fopen" /\ call.stream = h THEN call.before ELSE files[h]
     IN [name |-> s.name, position |-> s.data.position, error |-> s.error, eof |-> s.eof]]

Bytes == INSTANCE ByteFiles WITH contents <- volume.contents, open <- OpenStreams
BytesSpec == Bytes!Spec
=============================================================================
