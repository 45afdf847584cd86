-------------------------- MODULE FileStreamsProofs --------------------------
(***************************************************************************)
(* What FileStreams keeps for every volume, sector size and number of      *)
(* streams; and that its streams are the files of module ByteFiles.        *)
(***************************************************************************)
EXTENDS FileStreams, SequenceTheorems, WellFoundedInduction, TLAPS

\* The volume and the copy of a FAT sector.
Cache == <<volume, fatSector, fatBuffer>>

(* A program that calls does not touch the copy, whatever it calls. *)
LEMMA CallsKeepCache == Calls => UNCHANGED Cache
<1> SUFFICES ASSUME Calls PROVE UNCHANGED Cache
  OBVIOUS
<1>1. ASSUME NEW p \in Paths, FOpen(p) \/ FOpenFull(p) PROVE UNCHANGED Cache
  BY <1>1 DEF FOpen, FOpenFull, Cache
<1>2. ASSUME NEW h \in Handles, NEW n, FRead(h, n) \/ FGets(h, n) PROVE UNCHANGED Cache
  BY <1>2 DEF FRead, FGets, Reading, Cache
<1>3. ASSUME NEW h \in Handles, FClose(h) PROVE UNCHANGED Cache
  BY <1>3 DEF FClose, Cache
<1> QED BY <1>1, <1>2, <1>3 DEF Calls

(* A call that runs changes it in two places only, both in next_cluster. *)
LEMMA RunsKeepCache == Runs /\ ~ WalkReads /\ ~ WalkFails => UNCHANGED Cache
BY DEF Runs, WalkCached, FillReads, FillFails, OpenReturns, SearchRefuses, SearchFinds,
       SearchEnds, SearchRepeats, ReadAtEnd, ReadAfterError, ReadStarts, CopyReturns, Copy,
       Cache, vars

(***************************************************************************)
(* fat_buffer always holds the sector it is labelled with: no stream is    *)
(* led along a chain by entries of another sector, whichever reads fail    *)
(* and however the streams take turns.                                     *)
(***************************************************************************)
THEOREM FatBufferCorrect == Spec => []FatBufferIsItsSector
<1>1. Init => FatBufferIsItsSector
  BY DEF Init, FatBufferIsItsSector
<1>2. FatBufferIsItsSector /\ [Next]_vars => FatBufferIsItsSector'
  <2> SUFFICES ASSUME FatBufferIsItsSector, [Next]_vars PROVE FatBufferIsItsSector'
    OBVIOUS
  <2>1. ASSUME UNCHANGED Cache PROVE FatBufferIsItsSector'
    BY <2>1 DEF Cache, FatBufferIsItsSector
  <2>2. CASE WalkReads
    BY <2>2 DEF WalkReads, FatBufferIsItsSector
  <2>3. CASE WalkFails
    BY <2>3 DEF WalkFails, FatBufferIsItsSector
  <2>4. CASE UNCHANGED vars
    BY <2>1, <2>4 DEF vars, Cache
  <2> QED BY <2>1, <2>2, <2>3, <2>4, CallsKeepCache, RunsKeepCache DEF Next
<1> QED BY <1>1, <1>2, PTL DEF Spec

-----------------------------------------------------------------------------
(* The invariant of the streams.                                           *)

Data == [first : Nat, current : Nat, index : Nat, position : Nat, size : Nat,
         directory : BOOLEAN]

Stream ==
  {s \in [opened : BOOLEAN, error : BOOLEAN, eof : BOOLEAN, buffer : Buffers, data : Data,
          name : Paths \cup {<<>>}] :
     s.data.position <= s.data.size \/ s.data.directory}

Objects == volume.objects
Contents(s) == volume.contents[s.name]

\* The stream knows the cluster it is at.
OnChain(d, object) ==
  /\ d.first = object.first /\ d.size = object.size /\ d.directory = object.directory
  /\ object.chain # <<>> =>
       d.index < Len(object.chain) /\ d.current = object.chain[d.index + 1]

InBuffer(s, object) == s.buffer = volume.image[SectorLba(volume, object, s.data.position)]

\* An open stream stands at a byte or at the end of its file.  It may have lost its way
\* only if it has noted an error.
Ready(s) ==
  /\ s.name \in DOMAIN volume.contents
  /\ s.data.size = Len(Contents(s)) /\ s.data.position <= s.data.size
  /\ ~ s.error => OnChain(s.data, Objects[s.name])

\* The byte that comes next is in its buffer.
Loaded(s) == ~ s.error /\ s.data.position < s.data.size => InBuffer(s, Objects[s.name])

UnderWay == pc # "idle"
OthersReady ==
  \A h \in Handles :
    files[h].opened /\ ~ (UnderWay /\ call.stream = h) => Ready(files[h]) /\ Loaded(files[h])

\* fopen: the components found so far lead to the object the stream is at.
Opening == UnderWay /\ call.op = "fopen"

\* The name without the components still to be found.
Found(s, path) == SubSeq(s.name, 1, Len(s.name) - Len(path))

FindsObject(s, path, at) ==
  /\ Len(path) <= Len(s.name)
  /\ path = SubSeq(s.name, Len(s.name) - Len(path) + 1, Len(s.name))
  /\ Found(s, path) \in DOMAIN Objects
  /\ OnChain(s.data, Objects[Found(s, path)])
  /\ s.data.position = 0 /\ s.data.index = 0
  /\ at = "component" /\ Objects[Found(s, path)].chain # <<>> =>
       InBuffer(s, Objects[Found(s, path)])

\* The name is not there, and a directory's second sector is loaded for nothing.
FindsNothing(s) ==
  /\ s.name \notin DOMAIN volume.contents
  /\ s.data.directory
  /\ \E path \in DOMAIN Objects :
       Objects[path].chain # <<>> /\ OnChain(s.data, Objects[path])

\* The search has come to a stream s, with `path' to find.
Searching(s, path, after, at) ==
  /\ ~ s.opened /\ ~ s.error /\ ~ s.eof
  /\ s.name \in Paths
  /\ after = "component" => FindsObject(s, path, at)
  /\ after = "miss" => at = "load" /\ FindsNothing(s)

OpenInv ==
  Opening =>
    /\ pc \in {"load", "component"}
    /\ call \in [op : {"fopen"}, stream : Handles, path : Seq(STRING),
                 after : {"component", "miss"}]
    /\ Searching(Current, call.path, call.after, pc)

\* fread, fgetc and fgets: the bytes delivered so far are those the position has passed.
ReadingNow == UnderWay /\ call.op # "fopen"
Before(c) == c.before.data.position

ReadBytes(s, c, out, remaining) ==
  /\ c.line = <<>>
  /\ out = SubSeq(Contents(s), Before(c) + 1, s.data.position)
  /\ remaining = c.size - (s.data.position - Before(c))

LineBytes(s, c, out, remaining) ==
  /\ c.line = SubSeq(Contents(s), Before(c) + 1, Before(c) + Len(c.line))
  /\ Len(c.line) < c.size - 1
  /\ \A i \in 1..Len(c.line) : ~ IsEOF(c.line[i]) /\ ~ EndsLine(c.line[i])
  /\ \/ remaining = 1 /\ out = <<>> /\ s.data.position = Before(c) + Len(c.line)
     \/ /\ remaining = 0 /\ out = <<Contents(s)[s.data.position]>>
        /\ s.data.position = Before(c) + Len(c.line) + 1

\* The call c has come to a stream s, with `out' read and `remaining' bytes to read.
Progress(s, c, out, remaining, failed) ==
  /\ s \in Stream /\ s.opened /\ s.name = c.before.name
  /\ Ready(s)
  /\ Before(c) <= s.data.position
  /\ s.error # c.before.error => s.error /\ failed
  /\ c.before.error => s.data.position = Before(c)
  /\ IF c.op = "read" THEN ReadBytes(s, c, out, remaining) ELSE LineBytes(s, c, out, remaining)

CallTyped(c) ==
  /\ c \in [op : {"read", "fgets"}, stream : Handles, size : Nat, remaining : Nat,
            out : Seq(Characters), line : Seq(Characters), after : {"copy"}, before : Stream]
  /\ c.op = "read" => c.size \in ReadSizes
  /\ c.op = "fgets" => c.size \in LineSizes
  /\ c.before.opened

Reads(s, c, at, failed) ==
  /\ at \in {"load", "read", "copy"}
  /\ CallTyped(c)
  /\ Progress(s, c, c.out, c.remaining, failed)
  /\ s.eof = c.before.eof
  /\ at = "read" => c.out = <<>>
  /\ at \in {"load", "copy"} => ~ s.error /\ s.data.position < s.data.size
  /\ IF at = "load" THEN s.data.index <= TargetCluster(s.data) ELSE Loaded(s)

ReadInv == ReadingNow => Reads(Current, call, pc, fault)

CacheInv ==
  /\ volume \in Volumes
  /\ fatSector \in DOMAIN volume.image
  /\ fatBuffer \in Buffers
  /\ fault \in BOOLEAN
  /\ FatBufferIsItsSector

CallsInv ==
  /\ files \in [Handles -> Stream]
  /\ pc = "idle" <=> call = NoCall
  /\ OthersReady
  /\ OpenInv
  /\ ReadInv

StreamsInv == CacheInv /\ CallsInv

-----------------------------------------------------------------------------
(* Facts about numbers and sequences.                                      *)

LEMMA DivMod ==
  ASSUME NEW a \in Nat, NEW d \in Nat \ {0}
  PROVE  a \div d \in Nat /\ a % d \in 0..d - 1 /\ a = d * (a \div d) + (a % d)
OBVIOUS

LEMMA DivUnique ==
  ASSUME NEW a \in Nat, NEW d \in Nat \ {0}, NEW q \in Nat, NEW r \in 0..d - 1, a = d * q + r
  PROVE  a \div d = q /\ a % d = r
OBVIOUS

\* Two bytes of a file are in the same sector.
LEMMA SameSector ==
  ASSUME NEW p \in Nat, NEW j \in Nat, NEW d \in Nat \ {0}, (p % d) + j < d
  PROVE  (p + j) \div d = p \div d /\ (p + j) % d = (p % d) + j
<1>1. PICK q \in Nat : q = p \div d
  BY DivMod
<1>2. PICK r \in 0..d - 1 : r = p % d
  BY DivMod
<1>3. p = d * q + r
  BY <1>1, <1>2, DivMod
<1>4. PICK a \in Nat : a = p + j
  OBVIOUS
<1>5. PICK t \in 0..d - 1 : t = r + j
  BY <1>2
<1>6. a = d * q + t
  <2>1. PICK m \in Int : m = d * q
    OBVIOUS
  <2>2. p = m + r
    BY <1>3, <2>1
  <2>3. a = m + t
    BY <1>4, <1>5, <2>2
  <2> QED BY <2>1, <2>3
<1>7. a \div d = q /\ a % d = t
  BY <1>6, DivUnique
<1> QED BY <1>1, <1>2, <1>4, <1>5, <1>7

LEMMA ZeroDiv ==
  ASSUME NEW d \in Nat \ {0}
  PROVE  0 \div d = 0 /\ 0 % d = 0
<1>1. 0 = d * 0 + 0 /\ 0 \in 0..d - 1
  OBVIOUS
<1> QED BY <1>1, DivUnique

\* The least of a nonempty set of naturals, as fopen and find_file_in_dir come to it.
LEMMA LeastChosen ==
  ASSUME NEW T, T \subseteq Nat, T # {},
         NEW m, m = CHOOSE x \in T : \A y \in T : x <= y
  PROVE  m \in T /\ \A y \in T : m <= y
<1>1. PICK x \in T : \A y \in T : ~ (<<y, x>> \in OpToRel(<, Nat))
  BY NatLessThanWellFounded, WFMin
<1>2. ASSUME NEW y \in T PROVE x <= y
  <2>1. ~ (y < x)
    BY <1>1 DEF OpToRel
  <2> QED BY <2>1
<1> QED BY <1>1, <1>2

LEMMA SmallestOfThree ==
  ASSUME NEW a \in Nat, NEW b \in Nat, NEW c \in Nat, NEW m, m = Smallest({a, b, c})
  PROVE  m \in {a, b, c} /\ m <= a /\ m <= b /\ m <= c
<1>1. \E n \in {a, b, c} : \A k \in {a, b, c} : n <= k
  OBVIOUS
<1> QED BY <1>1 DEF Smallest

\* A part of a sequence.
LEMMA PartOf ==
  ASSUME NEW S, NEW s \in Seq(S), NEW a \in Nat, NEW b \in Nat, a <= b, b <= Len(s)
  PROVE  /\ SubSeq(s, a + 1, b) \in Seq(S)
         /\ Len(SubSeq(s, a + 1, b)) = b - a
         /\ \A i \in 1..b - a : SubSeq(s, a + 1, b)[i] = s[a + i]
<1>1. a + 1 \in Int /\ b \in Int
  OBVIOUS
<1>2. \A i \in a + 1..b : s[i] \in S
  <2>1. ASSUME NEW i \in a + 1..b PROVE s[i] \in S
    <3>1. i \in 1..Len(s)
      BY LenProperties
    <3> QED BY <3>1, ElementOfSeq
  <2> QED BY <2>1
<1>3. /\ SubSeq(s, a + 1, b) \in Seq(S)
      /\ Len(SubSeq(s, a + 1, b)) = IF a + 1 <= b THEN b - (a + 1) + 1 ELSE 0
      /\ \A i \in 1..b - (a + 1) + 1 : SubSeq(s, a + 1, b)[i] = s[(a + 1) + i - 1]
  BY <1>1, <1>2, SubSeqProperties
<1>4. b - (a + 1) + 1 = b - a
  OBVIOUS
<1>5. ASSUME NEW i \in 1..b - a PROVE (a + 1) + i - 1 = a + i
  OBVIOUS
<1> QED BY <1>3, <1>4, <1>5

\* Nothing has been passed yet.
LEMMA PartEmpty ==
  ASSUME NEW s, NEW a \in Nat
  PROVE  SubSeq(s, a + 1, a) = <<>>
<1>1. a + 1 \in Int /\ a \in Int /\ a < a + 1
  OBVIOUS
<1> QED BY <1>1, SubSeqEmpty

\* Two parts, one behind the other.
LEMMA PartsJoin ==
  ASSUME NEW S, NEW s \in Seq(S), NEW a \in Nat, NEW b \in Nat, NEW c \in Nat,
         a <= b, b <= c, c <= Len(s)
  PROVE  SubSeq(s, a + 1, b) \o SubSeq(s, b + 1, c) = SubSeq(s, a + 1, c)
<1>1. /\ a + 1 \in 1..Len(s) + 1 /\ b \in (a + 1) - 1..Len(s) /\ c \in b..Len(s)
  BY LenProperties
<1> QED BY <1>1, ConcatAdjacentSubSeq

\* From behind a and from behind b, the next n elements are the same.
Agree(s, a, t, b, n) == \A j \in Nat : j < n => s[(a + j) + 1] = t[(b + j) + 1]

LEMMA SameParts ==
  ASSUME NEW S, NEW s \in Seq(S), NEW t \in Seq(S), NEW a \in Nat, NEW b \in Nat, NEW n \in Nat,
         a + n <= Len(s), b + n <= Len(t), Agree(s, a, t, b, n)
  PROVE  SubSeq(s, a + 1, a + n) = SubSeq(t, b + 1, b + n)
<1>1. PICK c, d \in Nat : c = a + n /\ d = b + n
  OBVIOUS
<1>2. a <= c /\ c <= Len(s) /\ c - a = n /\ b <= d /\ d <= Len(t) /\ d - b = n
  BY <1>1
<1>3. PICK u, v : u = SubSeq(s, a + 1, c) /\ v = SubSeq(t, b + 1, d)
  OBVIOUS
<1>4. u \in Seq(S) /\ Len(u) = c - a /\ \A i \in 1..c - a : u[i] = s[a + i]
  BY <1>2, <1>3, PartOf
<1>5. v \in Seq(S) /\ Len(v) = d - b /\ \A i \in 1..d - b : v[i] = t[b + i]
  BY <1>2, <1>3, PartOf
<1>6. ASSUME NEW i \in 1..n PROVE u[i] = v[i]
  <2>1. PICK j \in Nat : j < n /\ i = j + 1
    <3>1. i - 1 \in Nat /\ i - 1 < n /\ i = (i - 1) + 1
      OBVIOUS
    <3> QED BY <3>1
  <2>2. (a + j) + 1 = a + i /\ (b + j) + 1 = b + i
    BY <2>1
  <2>3. s[(a + j) + 1] = t[(b + j) + 1]
    BY <2>1 DEF Agree
  <2>4. u[i] = s[a + i] /\ v[i] = t[b + i]
    BY <1>2, <1>4, <1>5
  <2> QED BY <2>2, <2>3, <2>4
<1>7. u = v
  BY <1>2, <1>4, <1>5, <1>6, SeqEqual
<1> QED BY <1>1, <1>3, <1>7

\* A component of a name is found: one fewer is to be found.
LEMMA NextComponent ==
  ASSUME NEW S, NEW name \in Seq(S), NEW path \in Seq(S), path # <<>>,
         NEW d \in Nat, d + Len(path) = Len(name), path = SubSeq(name, d + 1, Len(name))
  PROVE  /\ Tail(path) \in Seq(S) /\ Len(Tail(path)) = Len(path) - 1
         /\ Tail(path) = SubSeq(name, d + 2, Len(name))
         /\ SubSeq(name, 1, d + 1) = Append(SubSeq(name, 1, d), path[1])
         /\ path[1] = name[d + 1] /\ Len(path) \in Nat \ {0}
<1>1. Len(path) \in Nat \ {0} /\ Len(name) \in Nat
  BY EmptySeq, LenProperties
<1>2. d + 1 \in 1..Len(name) /\ Len(name) \in d + 1..Len(name)
  BY <1>1
<1>3. Head(path) = name[d + 1] /\ Tail(path) = SubSeq(name, (d + 1) + 1, Len(name))
  BY <1>2, HeadTailOfSubSeq
<1>4. Tail(path) \in Seq(S) /\ Len(Tail(path)) = Len(path) - 1 /\ Head(path) = path[1]
  BY HeadTailProperties
<1>5. SubSeq(name, 1, d + 1) = SubSeq(name, 1, (d + 1) - 1) \o <<name[d + 1]>>
  BY <1>2, SubSeqRecursiveSecond
<1>6. SubSeq(name, 1, d) \in Seq(S) /\ name[d + 1] \in S
  <2>1. \A i \in 1..d : name[i] \in S
    BY <1>1, ElementOfSeq
  <2> QED BY <1>2, <2>1, SubSeqProperties, ElementOfSeq
<1>7. Append(SubSeq(name, 1, d), name[d + 1]) = SubSeq(name, 1, d) \o <<name[d + 1]>>
  BY <1>6, AppendIsConcat
<1>8. (d + 1) - 1 = d /\ (d + 1) + 1 = d + 2
  OBVIOUS
<1> QED BY <1>1, <1>3, <1>4, <1>5, <1>7, <1>8

\* A name and its parents.
LEMMA PartOfPart ==
  ASSUME NEW S, NEW s \in Seq(S), NEW a \in Nat, NEW b \in Nat, a <= b, b <= Len(s)
  PROVE  SubSeq(SubSeq(s, 1, b), 1, a) = SubSeq(s, 1, a) /\ Len(SubSeq(s, 1, b)) = b
<1>1. PICK t, u, v : t = SubSeq(s, 0 + 1, b) /\ u = SubSeq(t, 0 + 1, a) /\ v = SubSeq(s, 0 + 1, a)
  OBVIOUS
<1>2. t \in Seq(S) /\ Len(t) = b - 0 /\ \A i \in 1..b - 0 : t[i] = s[0 + i]
  BY <1>1, PartOf
<1>3. u \in Seq(S) /\ Len(u) = a - 0 /\ \A i \in 1..a - 0 : u[i] = t[0 + i]
  BY <1>1, <1>2, PartOf
<1>4. v \in Seq(S) /\ Len(v) = a - 0 /\ \A i \in 1..a - 0 : v[i] = s[0 + i]
  <2>1. a <= Len(s)
    BY LenProperties
  <2> QED BY <1>1, <2>1, PartOf
<1>5. u = v
  <2>1. ASSUME NEW i \in 1..Len(u) PROVE u[i] = v[i]
    BY <1>2, <1>3, <1>4
  <2> QED BY <1>3, <1>4, <2>1, SeqEqual
<1> QED BY <1>1, <1>2, <1>5

\* Children of one directory with different names are different.
LEMMA AppendedIsLast ==
  ASSUME NEW S, NEW s \in Seq(S), NEW x \in S, NEW y \in S, Append(s, x) = Append(s, y)
  PROVE  x = y
<1>1. Append(s, x)[Len(s) + 1] = x /\ Append(s, y)[Len(s) + 1] = y
  BY AppendProperties
<1> QED BY <1>1

-----------------------------------------------------------------------------
(* Facts about a volume.                                                   *)

LEMMA VolumeFacts ==
  ASSUME volume \in Volumes
  PROVE  /\ volume.reserved \in Nat \ {0} /\ volume.perCluster \in Nat \ {0}
         /\ 0 \in DOMAIN volume.image
         /\ DOMAIN volume.objects \subseteq Seq(STRING)
         /\ DOMAIN volume.contents = DOMAIN volume.objects
         /\ <<>> \in DOMAIN volume.objects
         /\ volume.objects[<<>>].first = volume.root /\ volume.root \in Nat
         /\ volume.objects[<<>>].directory
BY VolumeAssumption DEF IsConsistent

LEMMA ObjectFacts ==
  ASSUME volume \in Volumes, NEW path \in DOMAIN volume.objects
  PROVE  /\ volume.objects[path].first \in Nat /\ volume.objects[path].size \in Nat
         /\ volume.objects[path].directory \in BOOLEAN
         /\ volume.objects[path].chain \in Seq(Nat)
         /\ volume.objects[path].chain # <<>> =>
              volume.objects[path].chain[1] = volume.objects[path].first
         /\ volume.objects[path].directory =>
              volume.objects[path].size = 0 /\ ListsChildren(volume, path)
         /\ IsChained(volume, volume.objects[path])
         /\ HoldsFile(volume, volume.objects[path], volume.contents[path])
         /\ \A n \in 0..Len(path) - 1 : /\ SubSeq(path, 1, n) \in DOMAIN volume.objects
                                        /\ volume.objects[SubSeq(path, 1, n)].directory
BY VolumeAssumption DEF IsConsistent, IsChained

\* The entry of a cluster leads to the next one, or to none.
LEMMA NextOfChain ==
  ASSUME volume \in Volumes, NEW path \in DOMAIN volume.objects,
         NEW chain, chain = volume.objects[path].chain, NEW i \in 1..Len(chain),
         NEW next, next = EntryIn(volume.image[FatSectorOf(volume, chain[i])], chain[i])
  PROVE  /\ next \in Nat /\ chain[i] < BadCluster
         /\ i < Len(chain) => next = chain[i + 1] /\ next < BadCluster
         /\ i = Len(chain) => next >= BadCluster
<1>1. chain \in Seq(Nat) /\ IsChained(volume, volume.objects[path])
  BY ObjectFacts
<1>2. chain[i] < BadCluster
  BY <1>1 DEF IsChained
<1>3. CASE i < Len(chain)
  <2>1. next = chain[i + 1]
    BY <1>1, <1>3 DEF IsChained
  <2>2. i + 1 \in 1..Len(chain)
    BY <1>1, <1>3, LenProperties
  <2>3. chain[i + 1] < BadCluster
    BY <1>1, <2>2 DEF IsChained
  <2>4. chain[i + 1] \in Nat
    BY <1>1, <2>2, ElementOfSeq
  <2> QED BY <1>2, <1>3, <2>1, <2>3, <2>4
<1>4. CASE ~ (i < Len(chain))
  <2>1. next \in Nat /\ next >= BadCluster
    BY <1>1, <1>4 DEF IsChained
  <2> QED BY <1>2, <1>4, <2>1
<1> QED BY <1>3, <1>4

\* A file has its bytes in its sectors.
LEMMA FileFacts ==
  ASSUME volume \in Volumes, NEW path \in DOMAIN volume.contents
  PROVE  /\ path \in DOMAIN volume.objects
         /\ volume.contents[path] \in Seq(Characters)
         /\ Len(volume.contents[path]) \in Nat
         /\ volume.objects[path].size = Len(volume.contents[path])
<1>1. path \in DOMAIN volume.objects
  BY VolumeFacts
<1>2. HoldsFile(volume, volume.objects[path], volume.contents[path])
  BY <1>1, ObjectFacts
<1>3. volume.contents[path] \in Seq(Characters)
  BY <1>2 DEF HoldsFile
<1> QED BY <1>1, <1>2, <1>3, LenProperties DEF HoldsFile

LEMMA ByteFacts ==
  ASSUME volume \in Volumes, NEW path \in DOMAIN volume.contents,
         NEW p \in Nat, p < Len(volume.contents[path]),
         NEW sector, sector = volume.image[SectorLba(volume, volume.objects[path], p)]
  PROVE  /\ (p \div SectorSize) \div volume.perCluster \in Nat
         /\ (p \div SectorSize) \div volume.perCluster < Len(volume.objects[path].chain)
         /\ sector.bytes \in Seq(Characters) /\ Len(sector.bytes) = SectorSize
         /\ sector.bytes[(p % SectorSize) + 1] = volume.contents[path][p + 1]
<1>1. path \in DOMAIN volume.objects /\ Len(volume.contents[path]) \in Nat
  BY VolumeFacts, FileFacts
<1>2. HoldsFile(volume, volume.objects[path], volume.contents[path])
  BY <1>1, ObjectFacts
<1>3. p \in 0..Len(volume.contents[path]) - 1
  BY <1>1
<1>4. p \div SectorSize \in Nat
  BY FileAssumption, DivMod
<1>5. (p \div SectorSize) \div volume.perCluster \in Nat
  BY <1>4, VolumeFacts, DivMod
<1> QED BY <1>2, <1>3, <1>5 DEF HoldsFile

\* Where a byte is in its sector.
Offset(p) == p % SectorSize

LEMMA OffsetTyped == \A p \in Nat : Offset(p) \in Nat /\ Offset(p) < SectorSize
<1>1. ASSUME NEW p \in Nat PROVE p % SectorSize \in Nat /\ p % SectorSize < SectorSize
  <2>1. SectorSize \in Nat \ {0}
    BY FileAssumption
  <2>2. p % SectorSize \in 0..SectorSize - 1
    BY <2>1, DivMod
  <2> QED BY <2>1, <2>2
<1> QED BY <1>1 DEF Offset

LEMMA OffsetInSector ==
  ASSUME NEW p \in Nat, NEW j \in Nat, Offset(p) + j < SectorSize
  PROVE  Offset(p + j) = Offset(p) + j /\ (p + j) \div SectorSize = p \div SectorSize
BY FileAssumption, SameSector DEF Offset

\* The n bytes from p on, of a file, are those of a sector.
HasBytes(bytes, contents, p, n) ==
  SubSeq(bytes, Offset(p) + 1, Offset(p) + n) = SubSeq(contents, p + 1, p + n)

\* The bytes that follow in the sector of byte p are those that follow in the file.
LEMMA SectorHasBytes ==
  ASSUME volume \in Volumes, NEW path \in DOMAIN volume.contents,
         NEW contents, contents = volume.contents[path],
         NEW p \in Nat, NEW n \in Nat, p < Len(contents), p + n <= Len(contents),
         Offset(p) + n <= SectorSize,
         NEW bytes, bytes = volume.image[SectorLba(volume, volume.objects[path], p)].bytes
  PROVE  HasBytes(bytes, contents, p, n)
<1>1. contents \in Seq(Characters) /\ Len(contents) \in Nat
  BY FileFacts
<1>2. bytes \in Seq(Characters) /\ Len(bytes) = SectorSize
  BY ByteFacts
<1>3. Offset(p) \in Nat /\ Offset(p) < SectorSize
  BY OffsetTyped
<1>4. ASSUME NEW j \in Nat, j < n PROVE bytes[(Offset(p) + j) + 1] = contents[(p + j) + 1]
  <2>1. Offset(p) + j < SectorSize
    BY <1>3, <1>4, FileAssumption
  <2>2. Offset(p + j) = Offset(p) + j /\ (p + j) \div SectorSize = p \div SectorSize
    BY <2>1, OffsetInSector
  <2>3. SectorLba(volume, volume.objects[path], p + j) = SectorLba(volume, volume.objects[path], p)
    BY <2>2 DEF SectorLba
  <2>4. PICK q \in Nat : q = p + j
    OBVIOUS
  <2>5. PICK sector : sector = volume.image[SectorLba(volume, volume.objects[path], q)]
    OBVIOUS
  <2>6. q < Len(volume.contents[path])
    BY <1>1, <1>4, <2>4
  <2>7. sector.bytes[(q % SectorSize) + 1] = volume.contents[path][q + 1]
    BY <2>5, <2>6, ByteFacts
  <2> QED BY <2>2, <2>3, <2>4, <2>5, <2>7 DEF Offset
<1>5. PICK at \in Nat : at = Offset(p)
  BY <1>3
<1>6. PICK b, t \in Seq(Characters) : b = bytes /\ t = contents
  BY <1>1, <1>2
<1>7. at + n <= Len(b) /\ p + n <= Len(t) /\ Agree(b, at, t, p, n)
  <2>1. at + n <= Len(b) /\ p + n <= Len(t)
    BY <1>2, <1>5, <1>6
  <2>2. \A j \in Nat : j < n => b[(at + j) + 1] = t[(p + j) + 1]
    BY <1>4, <1>5, <1>6
  <2> QED BY <2>1, <2>2 DEF Agree
<1>8. SubSeq(b, at + 1, at + n) = SubSeq(t, p + 1, p + n)
  BY <1>7, SameParts
<1> QED BY <1>5, <1>6, <1>8 DEF HasBytes

-----------------------------------------------------------------------------
(* What steps have in common.                                              *)

\* The copy of a FAT sector holds the sector of its label, and the label is one of the
\* partition, or none.
LEMMA CacheKept == CacheInv /\ [Next]_vars => CacheInv'
<1> SUFFICES ASSUME CacheInv, [Next]_vars PROVE CacheInv'
  OBVIOUS
<1>1. fault' = fault \/ fault' = TRUE \/ fault' = FALSE
  BY DEF vars, Next, Calls, Runs, FOpen, FOpenFull, FRead, FGets, Reading, FClose,
         WalkCached, WalkReads, WalkFails, FillReads, FillFails, OpenReturns, SearchRefuses,
         SearchFinds, SearchEnds, SearchRepeats, ReadAtEnd, ReadAfterError, ReadStarts,
         CopyReturns, Copy
<1>2. ASSUME UNCHANGED Cache PROVE CacheInv'
  BY <1>1, <1>2 DEF Cache, CacheInv, FatBufferIsItsSector, Buffers
<1>3. CASE WalkReads
  BY <1>1, <1>3 DEF WalkReads, CacheInv, FatBufferIsItsSector, Buffers, OnPartition
<1>4. CASE WalkFails
  <2>1. 0 \in DOMAIN volume.image
    BY VolumeFacts DEF CacheInv
  <2> QED BY <1>1, <1>4, <2>1 DEF WalkFails, CacheInv, FatBufferIsItsSector, Buffers
<1>5. CASE UNCHANGED vars
  BY <1>2, <1>5 DEF vars, Cache
<1> QED BY <1>2, <1>3, <1>4, <1>5, CallsKeepCache, RunsKeepCache DEF Next

LEMMA StreamSame == volume' = volume => Stream' = Stream
BY DEF Stream, Buffers

\* A stream not in use.
LEMMA ClosedStream == Closed \in Stream /\ ~ Closed.opened
<1>1. PICK d : d = NoData
  OBVIOUS
<1>2. d \in Data /\ d.position = 0 /\ d.size = 0
  BY <1>1 DEF Data, NoData
<1>3. Closed = [opened |-> FALSE, error |-> FALSE, eof |-> FALSE, buffer |-> NoBuffer,
                data |-> d, name |-> <<>>]
  BY <1>1 DEF Closed
<1>4. NoBuffer \in Buffers
  BY DEF Buffers
<1> QED BY <1>2, <1>3, <1>4 DEF Stream

\* What a search or a read has come to is said of a stream and of the volume.
LEMMA SearchingSame ==
  ASSUME volume' = volume, NEW s, NEW path, NEW after, NEW at, Searching(s, path, after, at)
  PROVE  Searching(s, path, after, at)'
BY DEF Searching, FindsObject, FindsNothing, Found, OnChain, InBuffer, Objects

LEMMA ReadsSame ==
  ASSUME volume' = volume, NEW s, NEW c, NEW at, NEW failed, Reads(s, c, at, failed)
  PROVE  Reads(s, c, at, failed)'
<1>1. CallTyped(c)' /\ Stream' = Stream
  BY StreamSame DEF Reads, CallTyped
<1>2. Ready(s)' = Ready(s) /\ Loaded(s)' = Loaded(s) /\ Contents(s)' = Contents(s)
  BY DEF Ready, Loaded, Contents, Objects, InBuffer
<1>3. TargetCluster(s.data)' = TargetCluster(s.data)
  BY DEF TargetCluster, TargetSector
<1>4. Progress(s, c, c.out, c.remaining, failed)'
  BY <1>1, <1>2 DEF Reads, Progress, Before, ReadBytes, LineBytes
<1> QED BY <1>1, <1>2, <1>3, <1>4 DEF Reads

\* The streams and the call stay as they are.
LEMMA CallsStutter == CallsInv /\ UNCHANGED <<volume, files, pc, call, fault>> => CallsInv'
<1> SUFFICES ASSUME CallsInv, UNCHANGED <<volume, files, pc, call, fault>> PROVE CallsInv'
  OBVIOUS
<1>1. (files \in [Handles -> Stream])'
  BY StreamSame DEF CallsInv
<1>2. OthersReady'
  BY DEF CallsInv, OthersReady, Ready, Loaded, Contents, Objects, InBuffer, UnderWay
<1>3. PICK s, c, at, failed : s = Current /\ c = call /\ at = pc /\ failed = fault
  OBVIOUS
<1>4. Current' = s /\ c = call' /\ at = pc' /\ failed = fault'
  BY <1>3 DEF Current
<1>5. OpenInv'
  <2>1. ASSUME Searching(s, c.path, c.after, at) PROVE Searching(s, c.path, c.after, at)'
    BY <2>1, SearchingSame
  <2>2. (Searching(s, c.path, c.after, at))' = Searching(Current, call.path, call.after, pc)'
    BY <1>3, <1>4 DEF Searching, FindsObject, FindsNothing, Found, InBuffer
  <2> QED BY <1>3, <1>4, <2>1, <2>2 DEF CallsInv, OpenInv, Opening, UnderWay
<1>6. ReadInv'
  <2>1. ASSUME Reads(s, c, at, failed) PROVE Reads(s, c, at, failed)'
    BY <2>1, ReadsSame
  <2> QED BY <1>3, <1>4, <2>1 DEF CallsInv, ReadInv, ReadingNow, UnderWay
<1> QED BY <1>1, <1>2, <1>5, <1>6 DEF CallsInv

\* Every open stream is ready, except one a call may be at.
ReadyBut(k) ==
  \A h \in Handles : files[h].opened /\ h # k => Ready(files[h]) /\ Loaded(files[h])

\* A call ends.
LEMMA EndKeeps ==
  ASSUME files \in [Handles -> Stream], NEW k \in Handles, ReadyBut(k), NEW s \in Stream,
         s.opened => Ready(s) /\ Loaded(s),
         files' = [files EXCEPT ![k] = s], pc' = "idle", call' = NoCall, volume' = volume
  PROVE  CallsInv'
<1>1. /\ files' \in [Handles -> Stream] /\ files'[k] = s
      /\ \A h \in Handles : h # k => files'[h] = files[h]
  OBVIOUS
<1>2. (files \in [Handles -> Stream])'
  BY <1>1, StreamSame
<1>3. OthersReady'
  <2> SUFFICES ASSUME NEW h \in Handles, files'[h].opened
               PROVE  Ready(files[h])' /\ Loaded(files[h])'
    BY DEF OthersReady
  <2>1. CASE h = k
    <3>1. files'[h] = s /\ Ready(s) /\ Loaded(s)
      BY <1>1, <2>1
    <3> QED BY <3>1 DEF Ready, Loaded, Contents, Objects, InBuffer
  <2>2. CASE h # k
    <3>1. files'[h] = files[h] /\ Ready(files[h]) /\ Loaded(files[h])
      BY <1>1, <2>2 DEF ReadyBut
    <3> QED BY <3>1 DEF Ready, Loaded, Contents, Objects, InBuffer
  <2> QED BY <2>1, <2>2
<1>4. OpenInv' /\ ReadInv'
  BY DEF OpenInv, ReadInv, Opening, ReadingNow, UnderWay
<1> QED BY <1>2, <1>3, <1>4 DEF CallsInv

\* A call goes on with its stream.
LEMMA GoingOnKeeps ==
  ASSUME files \in [Handles -> Stream], NEW k \in Handles, ReadyBut(k), NEW s \in Stream,
         files' = [files EXCEPT ![k] = s], call'.stream = k, pc' # "idle", volume' = volume
  PROVE  (files \in [Handles -> Stream])' /\ OthersReady' /\ Current' = s
<1>1. /\ files' \in [Handles -> Stream] /\ files'[k] = s
      /\ \A h \in Handles : h # k => files'[h] = files[h]
  OBVIOUS
<1>2. (files \in [Handles -> Stream])'
  BY <1>1, StreamSame
<1>3. ReadyBut(k)'
  <2> SUFFICES ASSUME NEW h \in Handles, files'[h].opened, h # k
               PROVE  Ready(files[h])' /\ Loaded(files[h])'
    BY DEF ReadyBut
  <2>1. files'[h] = files[h] /\ Ready(files[h]) /\ Loaded(files[h])
    BY <1>1 DEF ReadyBut
  <2> QED BY <2>1 DEF Ready, Loaded, Contents, Objects, InBuffer
<1>4. OthersReady'
  BY <1>3 DEF OthersReady, ReadyBut, UnderWay
<1> QED BY <1>1, <1>2, <1>4 DEF Current

-----------------------------------------------------------------------------
(* fopen.                                                                  *)

\* The search goes on.
LEMMA SearchKeeps ==
  ASSUME files \in [Handles -> Stream], NEW k \in Handles, ReadyBut(k), NEW s \in Stream,
         files' = [files EXCEPT ![k] = s], volume' = volume,
         NEW path \in Seq(STRING), NEW after \in {"component", "miss"},
         NEW at \in {"load", "component"}, Searching(s, path, after, at),
         pc' = at, call' = [op |-> "fopen", stream |-> k, path |-> path, after |-> after]
  PROVE  CallsInv'
<1>1. (files \in [Handles -> Stream])' /\ OthersReady' /\ Current' = s
  BY GoingOnKeeps
<1>2. Searching(s, path, after, at)'
  BY SearchingSame
<1>3. OpenInv'
  BY <1>1, <1>2 DEF OpenInv, Searching, FindsObject, FindsNothing, Found, OnChain, InBuffer, Objects
<1>4. ReadInv' /\ call' # NoCall
  BY DEF ReadInv, ReadingNow, NoCall
<1> QED BY <1>1, <1>3, <1>4 DEF CallsInv

\* The search under way.
LEMMA OpeningFacts ==
  ASSUME StreamsInv, Opening
  PROVE  /\ volume \in Volumes /\ files \in [Handles -> Stream] /\ ReadyBut(call.stream)
         /\ Current \in Stream /\ Current.data \in Data
         /\ call.stream \in Handles /\ call.path \in Seq(STRING)
         /\ call.after \in {"component", "miss"}
         /\ call = [op |-> "fopen", stream |-> call.stream, path |-> call.path,
                    after |-> call.after]
         /\ Searching(Current, call.path, call.after, pc)
<1>1. call \in [op : {"fopen"}, stream : Handles, path : Seq(STRING),
                after : {"component", "miss"}]
  BY DEF StreamsInv, CallsInv, OpenInv
<1>2. Current \in Stream
  BY <1>1 DEF StreamsInv, CallsInv, Current
<1>3. ReadyBut(call.stream)
  BY DEF StreamsInv, CallsInv, OthersReady, ReadyBut, Opening
<1>4. volume \in Volumes /\ files \in [Handles -> Stream]
  BY DEF StreamsInv, CallsInv, CacheInv
<1> QED BY <1>1, <1>2, <1>3, <1>4 DEF StreamsInv, CallsInv, OpenInv, Stream

\* The search fails.
LEMMA SearchFailKeeps ==
  ASSUME StreamsInv, Opening, NEW s \in Stream, ~ s.opened, OpenFails(s), volume' = volume
  PROVE  CallsInv'
<1>1. files \in [Handles -> Stream] /\ call.stream \in Handles /\ ReadyBut(call.stream)
  BY OpeningFacts
<1>2. files' = [files EXCEPT ![call.stream] = s] /\ pc' = "idle" /\ call' = NoCall
  BY DEF OpenFails, Becomes, Return
<1> QED BY <1>1, <1>2, EndKeeps

\* load_file_buffer starts at the first cluster, or at one that is not behind the target.
LEMMA RewoundFacts ==
  ASSUME volume \in Volumes, NEW path \in DOMAIN Objects, NEW d \in Data,
         OnChain(d, Objects[path])
  PROVE  /\ Rewound(d) \in Data /\ OnChain(Rewound(d), Objects[path])
         /\ Rewound(d).position = d.position /\ Rewound(d).size = d.size
         /\ Rewound(d).directory = d.directory
         /\ Rewound(d).index <= TargetCluster(Rewound(d))
<1>1. TargetCluster(d) \in Nat
  <2>1. d.position \in Nat /\ SectorSize \in Nat \ {0} /\ volume.perCluster \in Nat \ {0}
    BY FileAssumption, VolumeFacts DEF Data
  <2>2. d.position \div SectorSize \in Nat
    BY <2>1, DivMod
  <2> QED BY <2>1, <2>2, DivMod DEF TargetCluster, TargetSector
<1>2. CASE ~ (TargetCluster(d) < d.index)
  <2>1. Rewound(d) = d /\ d.index \in Nat
    BY <1>2 DEF Rewound, Data
  <2> QED BY <1>1, <1>2, <2>1
<1>3. CASE TargetCluster(d) < d.index
  <2>1. PICK e : e = Rewound(d)
    OBVIOUS
  <2>2. /\ e = [first |-> d.first, current |-> d.first, index |-> 0, position |-> d.position,
                size |-> d.size, directory |-> d.directory]
    BY <1>3, <2>1 DEF Rewound, Data
  <2>3. e \in Data /\ TargetCluster(e) = TargetCluster(d)
    BY <2>2 DEF Data, TargetCluster, TargetSector
  <2>4. OnChain(e, Objects[path])
    <3>1. /\ Objects[path].chain \in Seq(Nat)
          /\ Objects[path].chain # <<>> => Objects[path].chain[1] = Objects[path].first
      BY ObjectFacts DEF Objects
    <3>2. Objects[path].chain # <<>> => 0 < Len(Objects[path].chain)
      BY <3>1, EmptySeq, LenProperties
    <3> QED BY <2>2, <3>1, <3>2 DEF OnChain
  <2> QED BY <1>1, <2>1, <2>2, <2>3, <2>4
<1> QED BY <1>2, <1>3

\* Byte 0 is in the first sector.
LEMMA StartOfFile ==
  ASSUME volume \in Volumes, NEW d, d.position = 0
  PROVE  TargetSector(d) = 0 /\ TargetCluster(d) = 0 /\ TargetSector(d) % volume.perCluster = 0
<1>1. TargetSector(d) = 0
  BY FileAssumption, ZeroDiv DEF TargetSector
<1> QED BY <1>1, VolumeFacts, ZeroDiv DEF TargetCluster

\* The sector load_file_buffer comes to is that of the position.
LEMMA TargetIsInFile ==
  ASSUME volume \in Volumes, NEW path \in DOMAIN Objects, NEW d,
         OnChain(d, Objects[path]), Objects[path].chain # <<>>, d.index = TargetCluster(d)
  PROVE  TargetLba(d) = SectorLba(volume, Objects[path], d.position)
BY DEF TargetLba, SectorLba, OnChain, TargetCluster, TargetSector

\* The entry read for a cluster of a chain leads to the next one, or to none.
LEMMA EntryLeads ==
  ASSUME CacheInv, NEW path \in DOMAIN Objects, Objects[path].chain # <<>>, NEW d \in Data,
         OnChain(d, Objects[path]), NEW lba, lba = FatSectorOf(volume, d.current),
         NEW buffer, buffer = volume.image[lba], NEW next, next = EntryIn(buffer, d.current)
  PROVE  /\ next \in Nat
         /\ next < BadCluster =>
              OnChain([d EXCEPT !.index = @ + 1, !.current = next], Objects[path])
         /\ d.index + 1 < Len(Objects[path].chain) => next < BadCluster
<1>1. volume \in Volumes
  BY DEF CacheInv
<1>2. PICK chain : chain = Objects[path].chain
  OBVIOUS
<1>3. chain \in Seq(Nat) /\ Len(chain) \in Nat
  BY <1>1, <1>2, ObjectFacts, LenProperties DEF Objects
<1>4. d.index \in Nat /\ d.index < Len(chain) /\ d.current = chain[d.index + 1]
  BY <1>2 DEF OnChain, Data
<1>5. PICK i \in 1..Len(chain) : i = d.index + 1
  BY <1>3, <1>4
<1>6. next = EntryIn(volume.image[FatSectorOf(volume, chain[i])], chain[i])
  BY <1>4, <1>5
<1>7. /\ next \in Nat
      /\ i < Len(chain) => next = chain[i + 1] /\ next < BadCluster
      /\ i = Len(chain) => next >= BadCluster
  BY <1>1, <1>2, <1>5, <1>6, NextOfChain DEF Objects
<1>8. ASSUME next < BadCluster
      PROVE  OnChain([d EXCEPT !.index = @ + 1, !.current = next], Objects[path])
  <2>1. i < Len(chain)
    BY <1>3, <1>5, <1>7, <1>8, FileAssumption
  <2>2. PICK e : e = [d EXCEPT !.index = @ + 1, !.current = next]
    OBVIOUS
  <2>3. /\ e.first = d.first /\ e.size = d.size /\ e.directory = d.directory
        /\ e.index = i /\ e.current = chain[i + 1]
    BY <1>5, <1>7, <2>1, <2>2 DEF Data
  <2> QED BY <1>2, <2>1, <2>2, <2>3 DEF OnChain
<1> QED BY <1>2, <1>5, <1>7, <1>8

\* What load_file_buffer fails to load ends the search.
LEMMA LoadFailsOpening ==
  ASSUME StreamsInv, Opening, NEW s \in Stream, ~ s.opened, NEW ok, LoadReturns(s, ok),
         ~ ok \/ call.after = "miss", volume' = volume
  PROVE  CallsInv'
<1>1. OpenFails(s)
  BY OpeningFacts DEF LoadReturns
<1> QED BY <1>1, SearchFailKeeps

\* One more cluster of a directory, or the search ends.
LEMMA FollowsOpening ==
  ASSUME StreamsInv, Opening, Walks, NEW next \in Nat, Follows(next), volume' = volume,
         next < BadCluster => next = EntryIn(volume.image[Wanted], Current.data.current)
  PROVE  CallsInv'
<1>1. PICK s : s = Current
  OBVIOUS
<1>2. PICK d : d = s.data
  OBVIOUS
<1>3. PICK path, after : path = call.path /\ after = call.after
  OBVIOUS
<1>4. /\ s \in Stream /\ d \in Data /\ Searching(s, path, after, pc)
      /\ path \in Seq(STRING) /\ after \in {"component", "miss"}
  BY <1>1, <1>2, <1>3, OpeningFacts
<1>5. volume \in Volumes /\ CacheInv
  BY DEF StreamsInv, CacheInv
<1>6. after = "miss"
  <2>1. CASE after = "component"
    <3>1. d.position = 0 /\ d.index = 0
      BY <1>2, <1>4, <2>1 DEF Searching, FindsObject
    <3>2. TargetCluster(d) = 0
      BY <1>5, <3>1, StartOfFile
    <3> QED BY <1>1, <1>2, <3>1, <3>2 DEF Walks
  <2> QED BY <1>4, <2>1
<1>7. PICK e : e = [d EXCEPT !.index = @ + 1, !.current = next]
  OBVIOUS
<1>8. PICK t : t = [s EXCEPT !.data = e]
  OBVIOUS
<1>9. /\ e \in Data /\ e.position = d.position /\ e.size = d.size /\ e.directory = d.directory
  <2>1. d \in Data
    BY <1>4
  <2>2. e = [first |-> d.first, current |-> next, index |-> d.index + 1,
             position |-> d.position, size |-> d.size, directory |-> d.directory]
    BY <1>7, <2>1 DEF Data
  <2> QED BY <2>1, <2>2 DEF Data
<1>10. /\ t \in Stream /\ t.data = e /\ t.opened = s.opened /\ t.error = s.error
       /\ t.eof = s.eof /\ t.name = s.name /\ t.buffer = s.buffer
  BY <1>2, <1>4, <1>8, <1>9 DEF Stream
<1>11. ~ s.opened /\ ~ s.error /\ ~ s.eof /\ s.name \in Paths /\ FindsNothing(s)
  BY <1>4, <1>6 DEF Searching
<1>12. \/ next < BadCluster /\ Becomes(t) /\ UNCHANGED <<pc, call, result>>
       \/ next >= BadCluster /\ LoadReturns(t, FALSE)
  BY <1>1, <1>2, <1>7, <1>8 DEF Follows
<1>13. CASE next < BadCluster /\ Becomes(t) /\ UNCHANGED <<pc, call, result>>
  <2>1. PICK object \in DOMAIN Objects :
          Objects[object].chain # <<>> /\ OnChain(d, Objects[object])
    BY <1>2, <1>11 DEF FindsNothing
  <2>2. PICK lba, buffer : lba = FatSectorOf(volume, d.current) /\ buffer = volume.image[lba]
    OBVIOUS
  <2>3. next = EntryIn(buffer, d.current)
    BY <1>1, <1>2, <1>13, <2>2 DEF Wanted
  <2>4. OnChain(e, Objects[object])
    BY <1>4, <1>5, <1>7, <1>13, <2>1, <2>2, <2>3, EntryLeads
  <2>5. FindsNothing(t)
    BY <1>2, <1>9, <1>10, <1>11, <2>1, <2>4 DEF FindsNothing
  <2>6. Searching(t, path, after, "load")
    BY <1>6, <1>10, <1>11, <2>5 DEF Searching
  <2>7. /\ files \in [Handles -> Stream] /\ call.stream \in Handles /\ ReadyBut(call.stream)
        /\ call' = [op |-> "fopen", stream |-> call.stream, path |-> path, after |-> after]
        /\ pc' = "load" /\ files' = [files EXCEPT ![call.stream] = t]
    BY <1>3, <1>13, OpeningFacts DEF Walks, Becomes
  <2> QED BY <1>4, <1>10, <2>6, <2>7, SearchKeeps
<1>14. CASE next >= BadCluster /\ LoadReturns(t, FALSE)
  BY <1>10, <1>11, <1>14, LoadFailsOpening
<1> QED BY <1>12, <1>13, <1>14

\* The FAT is read, from the copy, from the disk, or in vain.
LEMMA WalkOpening ==
  ASSUME StreamsInv, Opening, WalkCached \/ WalkReads \/ WalkFails
  PROVE  CallsInv'
<1>1. Walks /\ volume' = volume /\ volume \in Volumes
  BY DEF WalkCached, WalkReads, WalkFails, StreamsInv, CacheInv
<1>2. PICK s, path, after : s = Current /\ path = call.path /\ after = call.after
  OBVIOUS
<1>3. s \in Stream /\ s.data \in Data /\ Searching(s, path, after, pc) /\ after \in {"component", "miss"}
  BY <1>2, OpeningFacts
<1>4. FindsNothing(s)
  <2>1. CASE after = "component"
    <3>1. s.data.position = 0 /\ s.data.index = 0
      BY <1>3, <2>1 DEF Searching, FindsObject
    <3>2. TargetCluster(s.data) = 0
      BY <1>1, <3>1, StartOfFile
    <3> QED BY <1>1, <1>2, <3>1, <3>2 DEF Walks
  <2> QED BY <1>3, <2>1 DEF Searching
<1>5. PICK lba, buffer, entry : /\ lba = Wanted /\ buffer = volume.image[lba]
                                /\ entry = EntryIn(buffer, s.data.current)
  OBVIOUS
<1>6. entry \in Nat
  <2>1. PICK object \in DOMAIN Objects :
          Objects[object].chain # <<>> /\ OnChain(s.data, Objects[object])
    BY <1>4 DEF FindsNothing
  <2>2. lba = FatSectorOf(volume, s.data.current) /\ CacheInv
    BY <1>2, <1>5 DEF Wanted, StreamsInv
  <2> QED BY <1>3, <1>5, <2>1, <2>2, EntryLeads
<1>7. CASE WalkCached
  <2>1. lba # 0
    <3>1. PICK c \in Nat : c = s.data.current
      BY <1>3 DEF Data
    <3>2. c \div EntriesPerFatSector \in Nat /\ volume.reserved \in Nat \ {0}
      BY <1>1, <3>1, FileAssumption, DivMod, VolumeFacts
    <3> QED BY <1>2, <1>5, <3>1, <3>2 DEF Wanted, FatSectorOf, FirstFatSector
  <2>2. fatBuffer = buffer
    BY <1>5, <1>7, <2>1 DEF WalkCached, StreamsInv, CacheInv, FatBufferIsItsSector
  <2>3. Follows(entry)
    BY <1>2, <1>5, <1>7, <2>2 DEF WalkCached
  <2> QED BY <1>1, <1>2, <1>5, <1>6, <2>3, FollowsOpening
<1>8. CASE WalkReads
  <2>1. Follows(entry)
    BY <1>2, <1>5, <1>8 DEF WalkReads
  <2> QED BY <1>1, <1>2, <1>5, <1>6, <2>1, FollowsOpening
<1>9. CASE WalkFails
  <2>1. Follows(BadCluster) /\ BadCluster \in Nat /\ ~ (BadCluster < BadCluster)
    BY <1>9, FileAssumption DEF WalkFails
  <2> QED BY <1>1, <2>1, FollowsOpening
<1> QED BY <1>7, <1>8, <1>9

\* The first sector of the component found is in the buffer, or the search ends.
LEMMA FillOpening ==
  ASSUME StreamsInv, Opening, FillReads \/ FillFails
  PROVE  CallsInv'
<1>1. Fills /\ volume' = volume /\ volume \in Volumes
  BY DEF FillReads, FillFails, StreamsInv, CacheInv
<1>2. PICK s, path, after : s = Current /\ path = call.path /\ after = call.after
  OBVIOUS
<1>3. /\ s \in Stream /\ s.data \in Data /\ Searching(s, path, after, pc)
      /\ path \in Seq(STRING) /\ after \in {"component", "miss"}
  BY <1>2, OpeningFacts
<1>4. ~ s.opened /\ ~ s.error /\ ~ s.eof /\ s.name \in Paths
  BY <1>3 DEF Searching
<1>5. CASE FillFails
  <2>1. LoadReturns(s, FALSE)
    BY <1>2, <1>5 DEF FillFails
  <2> QED BY <1>1, <1>3, <1>4, <2>1, LoadFailsOpening
<1>6. CASE FillReads
  <2>1. PICK sector : sector = volume.image[TargetLba(s.data)]
    OBVIOUS
  <2>2. PICK t : t = [s EXCEPT !.buffer = sector]
    OBVIOUS
  <2>3. sector \in Buffers
    BY <1>2, <1>6, <2>1 DEF FillReads, OnPartition, Buffers
  <2>4. /\ t \in Stream /\ t.data = s.data /\ t.opened = s.opened /\ t.error = s.error
        /\ t.eof = s.eof /\ t.name = s.name /\ t.buffer = sector
    BY <1>3, <2>2, <2>3 DEF Stream
  <2>5. LoadReturns(t, TRUE)
    BY <1>2, <1>6, <2>1, <2>2 DEF FillReads
  <2>6. CASE after = "miss"
    BY <1>1, <1>2, <1>4, <2>4, <2>5, <2>6, LoadFailsOpening
  <2>7. CASE after = "component"
    <3>1. Becomes(t) /\ pc' = "component" /\ call' = call
      BY <1>2, <2>5, <2>7 DEF LoadReturns
    <3>2. FindsObject(s, path, pc)
      BY <1>3, <2>7 DEF Searching
    <3>3. PICK object : object = Found(s, path)
      OBVIOUS
    <3>4. object \in DOMAIN Objects /\ OnChain(s.data, Objects[object]) /\ s.data.position = 0 /\ s.data.index = 0
      BY <3>2, <3>3 DEF FindsObject
    <3>5. ASSUME Objects[object].chain # <<>> PROVE InBuffer(t, Objects[object])
      <4>1. TargetCluster(s.data) = 0
        BY <1>1, <3>4, StartOfFile
      <4>2. TargetLba(s.data) = SectorLba(volume, Objects[object], s.data.position)
        BY <1>1, <3>4, <3>5, <4>1, TargetIsInFile
      <4> QED BY <2>1, <2>4, <4>2 DEF InBuffer
    <3>6. FindsObject(t, path, "component")
      BY <2>4, <3>2, <3>3, <3>5 DEF FindsObject, Found
    <3>7. Searching(t, path, after, "component")
      BY <1>4, <2>4, <2>7, <3>6 DEF Searching
    <3>8. /\ files \in [Handles -> Stream] /\ call.stream \in Handles /\ ReadyBut(call.stream)
          /\ call' = [op |-> "fopen", stream |-> call.stream, path |-> path, after |-> after]
          /\ files' = [files EXCEPT ![call.stream] = t]
      BY <1>2, <3>1, OpeningFacts DEF Becomes
    <3> QED BY <1>1, <1>3, <2>4, <3>1, <3>7, <3>8, SearchKeeps
  <2> QED BY <1>3, <2>6, <2>7
<1> QED BY <1>5, <1>6

\* The search looks through a directory.
LEMMA SearchFacts ==
  ASSUME StreamsInv, Opening, pc = "component",
         NEW s, s = Current, NEW path, path = call.path, NEW object, object = Found(s, path)
  PROVE  /\ s \in Stream /\ s.data \in Data /\ path \in Seq(STRING) /\ call.after = "component"
         /\ volume \in Volumes /\ s.name \in Seq(STRING)
         /\ ~ s.opened /\ ~ s.error /\ ~ s.eof /\ s.name \in Paths
         /\ Len(s.name) - Len(path) \in Nat /\ Len(s.name) \in Nat /\ Len(path) \in Nat
         /\ path = SubSeq(s.name, Len(s.name) - Len(path) + 1, Len(s.name))
         /\ object \in DOMAIN Objects /\ OnChain(s.data, Objects[object])
         /\ s.data.position = 0 /\ s.data.index = 0
         /\ Objects[object].chain # <<>> => InBuffer(s, Objects[object])
         /\ object \in Seq(STRING)
<1>1. /\ s \in Stream /\ s.data \in Data /\ path \in Seq(STRING) /\ volume \in Volumes
      /\ call.after \in {"component", "miss"} /\ Searching(s, path, call.after, pc)
  BY OpeningFacts
<1>2. call.after = "component" /\ FindsObject(s, path, "component")
  BY <1>1 DEF Searching
<1>3. ~ s.opened /\ ~ s.error /\ ~ s.eof /\ s.name \in Paths /\ s.name \in Seq(STRING)
  BY <1>1, FileAssumption DEF Searching
<1>4. Len(s.name) \in Nat /\ Len(path) \in Nat
  BY <1>1, <1>3
<1>5. object \in Seq(STRING)
  BY <1>1, <1>2, VolumeFacts DEF FindsObject, Objects
<1>6. /\ Len(path) <= Len(s.name)
      /\ path = SubSeq(s.name, Len(s.name) - Len(path) + 1, Len(s.name))
      /\ object \in DOMAIN Objects /\ OnChain(s.data, Objects[object])
      /\ s.data.position = 0 /\ s.data.index = 0
      /\ Objects[object].chain # <<>> => InBuffer(s, Objects[object])
  BY <1>2 DEF FindsObject
<1>7. Len(s.name) - Len(path) \in Nat
  BY <1>4, <1>6
<1> QED BY <1>1, <1>2, <1>3, <1>4, <1>5, <1>6, <1>7

\* A directory's first sector.
FirstEntries(v, path) == v.image[SectorLba(v, v.objects[path], 0)].entries

\* The files in it.
LEMMA Listed ==
  ASSUME NEW v, NEW path, ListsChildren(v, path),
         NEW entries, entries = FirstEntries(v, path),
         NEW i \in 1..Len(entries), entries[i].kind = "file",
         \A e \in 1..Len(entries) : entries[e].kind = "end" => i < e
  PROVE  /\ Append(path, entries[i].name) \in DOMAIN v.objects
         /\ entries[i].name \in STRING
         /\ v.objects[Append(path, entries[i].name)].first = entries[i].cluster
         /\ v.objects[Append(path, entries[i].name)].size = entries[i].size
         /\ v.objects[Append(path, entries[i].name)].directory = entries[i].directory
BY Zenon DEF ListsChildren, FirstEntries

\* A directory that ends in its first sector has all its children there.
LEMMA AllListed ==
  ASSUME NEW v, NEW path, ListsChildren(v, path),
         NEW entries, entries = FirstEntries(v, path),
         NEW e \in 1..Len(entries), entries[e].kind = "end", NEW child \in DOMAIN v.objects,
         child # <<>>, SubSeq(child, 1, Len(child) - 1) = path
  PROVE  \E i \in 1..Len(entries) :
           entries[i].kind = "file" /\ i < e /\ Append(path, entries[i].name) = child
BY Zenon DEF ListsChildren, FirstEntries

\* The search has the first sector of a directory in its buffer.
LEMMA DirectoryFacts ==
  ASSUME StreamsInv, Opening, pc = "component", IsDirectory,
         NEW s, s = Current, NEW path, path = call.path, NEW object, object = Found(s, path),
         NEW entries, entries = s.buffer.entries
  PROVE  /\ ListsChildren(volume, object)
         /\ entries = FirstEntries(volume, object)
<1>1. /\ volume \in Volumes /\ object \in DOMAIN Objects /\ OnChain(s.data, Objects[object])
      /\ s.data.position = 0 /\ (Objects[object].chain # <<>> => InBuffer(s, Objects[object]))
  BY SearchFacts
<1>2. Objects[object].directory
  BY <1>1 DEF IsDirectory, OnChain
<1>3. ListsChildren(volume, object)
  BY <1>1, <1>2, ObjectFacts DEF Objects
<1>4. s.buffer = volume.image[SectorLba(volume, volume.objects[object], 0)]
  BY <1>1, <1>3 DEF ListsChildren, InBuffer, Objects
<1> QED BY <1>3, <1>4 DEF FirstEntries

\* find_file_in_dir stops at the first entry that decides.
LEMMA StopFacts ==
  ASSUME Stops # {}, NEW entries, entries = Current.buffer.entries
  PROVE  \E i \in 1..Len(entries) :
           /\ i \in Stops /\ Stop = entries[i]
           /\ \A j \in Stops : i <= j
<1>1. PICK T, m : T = Stops /\ m = CHOOSE i \in T : \A j \in T : i <= j
  OBVIOUS
<1>2. Stop = entries[m]
  BY <1>1 DEF Stop
<1>3. T \subseteq 1..Len(entries)
  BY <1>1 DEF Stops
<1>4. T \subseteq Nat
  BY <1>3
<1>5. m \in T /\ \A j \in T : m <= j
  BY <1>1, <1>4, LeastChosen
<1> QED BY <1>1, <1>2, <1>3, <1>5

\* The component is found: the search goes on in it.
LEMMA FindsKeeps ==
  ASSUME StreamsInv, Opening, SearchFinds
  PROVE  CallsInv'
<1>1. pc = "component" /\ call.path # <<>> /\ IsDirectory /\ Stops # {} /\ Stop.kind = "file"
  BY DEF SearchFinds, Searches
<1>2. PICK s, path, entries : s = Current /\ path = call.path /\ entries = s.buffer.entries
  OBVIOUS
<1>3. PICK object : object = Found(s, path)
  OBVIOUS
<1>4. PICK n : n = Len(s.name) - Len(path)
  OBVIOUS
<1>5. /\ s \in Stream /\ s.data \in Data /\ path \in Seq(STRING) /\ call.after = "component"
      /\ volume \in Volumes /\ s.name \in Seq(STRING)
      /\ ~ s.opened /\ ~ s.error /\ ~ s.eof /\ s.name \in Paths
      /\ n \in Nat /\ n + Len(path) = Len(s.name) /\ Len(path) \in Nat
      /\ path = SubSeq(s.name, n + 1, Len(s.name))
      /\ object \in Seq(STRING)
  <2>1. /\ s \in Stream /\ s.data \in Data /\ path \in Seq(STRING) /\ call.after = "component"
        /\ volume \in Volumes /\ s.name \in Seq(STRING)
        /\ ~ s.opened /\ ~ s.error /\ ~ s.eof /\ s.name \in Paths
        /\ n \in Nat /\ Len(s.name) \in Nat /\ Len(path) \in Nat
        /\ path = SubSeq(s.name, n + 1, Len(s.name))
        /\ object \in Seq(STRING)
    BY <1>1, <1>2, <1>3, <1>4, SearchFacts
  <2>2. n + Len(path) = Len(s.name)
    BY <1>4, <2>1
  <2> QED BY <2>1, <2>2
<1>6. PICK i \in 1..Len(entries) :
        i \in Stops /\ Stop = entries[i] /\ \A j \in Stops : i <= j
  BY <1>1, <1>2, StopFacts
<1>7. entries[i].kind = "file" /\ entries[i].name = path[1]
  BY <1>1, <1>2, <1>6 DEF Stops
<1>8. ASSUME NEW e \in 1..Len(entries), entries[e].kind = "end" PROVE i < e
  <2>1. e \in Stops
    BY <1>2, <1>8 DEF Stops
  <2>2. i <= e /\ i # e
    BY <1>6, <1>7, <1>8, <2>1
  <2> QED BY <2>2
<1>9. PICK child : child = Append(object, entries[i].name)
  OBVIOUS
<1>10. /\ child \in DOMAIN Objects /\ Objects[child].first = entries[i].cluster
       /\ Objects[child].size = entries[i].size
       /\ Objects[child].directory = entries[i].directory
  <2>1. /\ ListsChildren(volume, object)
        /\ entries = FirstEntries(volume, object)
    BY <1>1, <1>2, <1>3, DirectoryFacts
  <2>2. PICK v : v = volume
    OBVIOUS
  <2>3. /\ Append(object, entries[i].name) \in DOMAIN v.objects
        /\ v.objects[Append(object, entries[i].name)].first = entries[i].cluster
        /\ v.objects[Append(object, entries[i].name)].size = entries[i].size
        /\ v.objects[Append(object, entries[i].name)].directory = entries[i].directory
    BY <1>6, <1>7, <1>8, <2>1, <2>2, Listed
  <2> QED BY <1>9, <2>2, <2>3 DEF Objects
<1>11. /\ Tail(path) \in Seq(STRING) /\ Len(Tail(path)) = Len(path) - 1
       /\ Tail(path) = SubSeq(s.name, n + 2, Len(s.name))
       /\ SubSeq(s.name, 1, n + 1) = Append(SubSeq(s.name, 1, n), path[1])
       /\ Len(path) \in Nat \ {0}
  BY <1>1, <1>2, <1>5, NextComponent, SMTT(30)
<1>12. PICK rest : rest = Tail(path)
  OBVIOUS
<1>13. Len(s.name) - Len(rest) = n + 1 /\ Found(s, rest) = child
  <2>1. Len(s.name) - Len(rest) = n + 1
    <3>1. n \in Nat /\ n + Len(path) = Len(s.name) /\ Len(path) \in Nat
      BY <1>5
    <3>2. PICK m \in Nat : m = Len(path)
      BY <3>1
    <3>3. n + m = Len(s.name) /\ Len(rest) = m - 1
      BY <1>11, <1>12, <3>1, <3>2
    <3> QED BY <3>1, <3>3
  <2>2. SubSeq(s.name, 1, n) = object
    BY <1>3, <1>4 DEF Found
  <2> QED BY <1>7, <1>9, <1>11, <2>1, <2>2 DEF Found
<1>14. /\ Objects[child].first \in Nat /\ Objects[child].size \in Nat
       /\ Objects[child].directory \in BOOLEAN /\ Objects[child].chain \in Seq(Nat)
       /\ Objects[child].chain # <<>> => Objects[child].chain[1] = Objects[child].first
  BY <1>5, <1>10, ObjectFacts DEF Objects
<1>15. PICK d : d = [first |-> entries[i].cluster, current |-> entries[i].cluster, index |-> 0,
                     position |-> 0, size |-> entries[i].size, directory |-> entries[i].directory]
  OBVIOUS
<1>16. /\ d \in Data /\ d.position = 0 /\ d.index = 0 /\ d.first = Objects[child].first
       /\ d.current = Objects[child].first /\ d.size = Objects[child].size
       /\ d.directory = Objects[child].directory
  BY <1>10, <1>14, <1>15 DEF Data
<1>17. Rewound(d) = d
  BY <1>5, <1>16, StartOfFile DEF Rewound
<1>18. PICK t : t = [s EXCEPT !.data = d]
  OBVIOUS
<1>19. /\ t \in Stream /\ t.data = d /\ t.opened = s.opened /\ t.error = s.error
       /\ t.eof = s.eof /\ t.name = s.name
  <2>1. 0 <= d.size
    BY <1>16 DEF Data
  <2> QED BY <1>5, <1>16, <1>18, <2>1 DEF Stream
<1>20. OnChain(d, Objects[child])
  <2>1. Objects[child].chain # <<>> => 0 < Len(Objects[child].chain)
    BY <1>14, EmptySeq, LenProperties
  <2> QED BY <1>14, <1>16, <2>1 DEF OnChain
<1>21. FindsObject(t, rest, "load")
  <2>1. Len(rest) <= Len(t.name)
    BY <1>5, <1>11, <1>12, <1>19
  <2>2. rest = SubSeq(t.name, Len(t.name) - Len(rest) + 1, Len(t.name))
    <3>1. Len(t.name) - Len(rest) + 1 = n + 2
      <4>1. n \in Nat /\ Len(t.name) - Len(rest) = n + 1
        BY <1>5, <1>13, <1>19
      <4> QED BY <4>1
    <3> QED BY <1>11, <1>12, <1>19, <3>1
  <2>3. Found(t, rest) = child
    BY <1>13, <1>19 DEF Found
  <2> QED BY <1>10, <1>16, <1>19, <1>20, <2>1, <2>2, <2>3 DEF FindsObject
<1>22. Searching(t, rest, "component", "load")
  BY <1>5, <1>19, <1>21 DEF Searching
<1>23. /\ files \in [Handles -> Stream] /\ call.stream \in Handles /\ ReadyBut(call.stream)
       /\ files' = [files EXCEPT ![call.stream] = t] /\ volume' = volume /\ pc' = "load"
  BY <1>2, <1>6, <1>15, <1>17, <1>18, OpeningFacts DEF SearchFinds, Becomes
<1>24. call' = [op |-> "fopen", stream |-> call.stream, path |-> rest, after |-> "component"]
  <2>1. call' = [call EXCEPT !.path = rest]
    BY <1>2, <1>12 DEF SearchFinds
  <2>2. PICK k, a : /\ k = call.stream /\ a = call.after
                    /\ call = [op |-> "fopen", stream |-> k, path |-> path, after |-> a]
    BY <1>2, OpeningFacts
  <2>3. a = "component"
    BY <1>5, <2>2
  <2> QED BY <2>1, <2>2, <2>3
<1> QED BY <1>11, <1>12, <1>19, <1>22, <1>23, <1>24, SearchKeeps

\* A directory that ends has no such child, and so there is no such name.
LEMMA NoSuchName ==
  ASSUME StreamsInv, Opening, pc = "component", call.path # <<>>, IsDirectory,
         Stops # {}, Stop.kind = "end"
  PROVE  Current.name \notin DOMAIN volume.contents
<1>1. PICK s, path, entries : s = Current /\ path = call.path /\ entries = s.buffer.entries
  OBVIOUS
<1>2. PICK object, n : object = Found(s, path) /\ n = Len(s.name) - Len(path)
  OBVIOUS
<1>3. /\ path \in Seq(STRING) /\ volume \in Volumes /\ s.name \in Seq(STRING)
      /\ n \in Nat /\ Len(s.name) \in Nat /\ Len(path) \in Nat
      /\ path = SubSeq(s.name, n + 1, Len(s.name)) /\ object \in Seq(STRING)
  BY <1>1, <1>2, SearchFacts
<1>4. n + Len(path) = Len(s.name)
  BY <1>2, <1>3
<1>5. PICK e \in 1..Len(entries) :
        e \in Stops /\ Stop = entries[e] /\ \A j \in Stops : e <= j
  BY <1>1, StopFacts
<1>6. /\ SubSeq(s.name, 1, n + 1) = Append(SubSeq(s.name, 1, n), path[1])
      /\ path[1] = s.name[n + 1] /\ Len(path) \in Nat \ {0}
  BY <1>1, <1>3, <1>4, NextComponent
<1>7. n + 1 <= Len(s.name) /\ path[1] \in STRING
  <2>1. n + 1 \in 1..Len(s.name)
    BY <1>3, <1>4, <1>6
  <2> QED BY <1>3, <1>6, <2>1, ElementOfSeq
<1>8. SUFFICES ASSUME s.name \in DOMAIN Objects PROVE FALSE
  BY <1>1, <1>3, VolumeFacts DEF Objects
<1>9. PICK child : child = SubSeq(s.name, 1, n + 1)
  OBVIOUS
<1>10. child \in DOMAIN Objects
  <2>1. CASE n + 1 = Len(s.name)
    BY <1>3, <1>8, <1>9, <2>1, SubSeqFull
  <2>2. CASE n + 1 # Len(s.name)
    <3>1. n + 1 \in 0..Len(s.name) - 1
      BY <1>3, <1>7, <2>2
    <3> QED BY <1>3, <1>8, <1>9, <3>1, ObjectFacts DEF Objects
  <2> QED BY <2>1, <2>2
<1>11. child # <<>> /\ SubSeq(child, 1, Len(child) - 1) = object
  <2>1. SubSeq(child, 1, n) = SubSeq(s.name, 1, n) /\ Len(child) = n + 1
    <3>1. n + 1 \in Nat /\ n <= n + 1
      BY <1>3
    <3> QED BY <1>3, <1>7, <1>9, <3>1, PartOfPart
  <2>2. Len(child) - 1 = n /\ Len(child) # 0
    BY <1>3, <2>1
  <2>3. SubSeq(s.name, 1, n) = object
    BY <1>2 DEF Found
  <2>4. Len(<<>>) = 0
    OBVIOUS
  <2> QED BY <2>1, <2>2, <2>3, <2>4
<1>12. /\ ListsChildren(volume, object)
       /\ entries = FirstEntries(volume, object)
  BY <1>1, <1>2, DirectoryFacts
<1>13. PICK v : v = volume
  OBVIOUS
<1>14. PICK i \in 1..Len(entries) :
         entries[i].kind = "file" /\ i < e /\ Append(object, entries[i].name) = child
  <2>1. entries[e].kind = "end"
    BY <1>5
  <2>2. child \in DOMAIN v.objects
    BY <1>10, <1>13 DEF Objects
  <2>3. child # <<>> /\ SubSeq(child, 1, Len(child) - 1) = object
    BY <1>11
  <2>4. ListsChildren(v, object) /\ entries = FirstEntries(v, object)
    BY <1>12, <1>13
  <2> QED BY <1>5, <2>1, <2>2, <2>3, <2>4, AllListed, SMTT(30)
<1>15. \A k \in 1..Len(entries) : entries[k].kind = "end" => ~ (k < e)
  <2>1. ASSUME NEW k \in 1..Len(entries), entries[k].kind = "end" PROVE ~ (k < e)
    <3>1. k \in Stops
      BY <1>1, <2>1 DEF Stops
    <3>2. e <= k
      BY <1>5, <3>1
    <3> QED BY <3>2
  <2> QED BY <2>1
<1>16. entries[i].name \in STRING
  <2>1. \A k \in 1..Len(entries) : entries[k].kind = "end" => i < k
    <3>1. ASSUME NEW k \in 1..Len(entries), entries[k].kind = "end" PROVE i < k
      <4>1. ~ (k < e)
        BY <1>15, <3>1
      <4> QED BY <1>14, <4>1
    <3> QED BY <3>1
  <2> QED BY <1>12, <1>13, <1>14, <2>1, Listed
<1>17. entries[i].name = path[1]
  <2>1. SubSeq(s.name, 1, n) = object
    BY <1>2 DEF Found
  <2>2. Append(object, entries[i].name) = Append(object, path[1])
    BY <1>6, <1>9, <1>14, <2>1
  <2>3. PICK x, y : x = entries[i].name /\ y = path[1]
    OBVIOUS
  <2> QED BY <1>3, <1>7, <1>16, <2>2, <2>3, AppendedIsLast
<1>18. i \in Stops
  BY <1>1, <1>14, <1>17 DEF Stops
<1> QED BY <1>5, <1>14, <1>18

\* The component is not there: one more sector is loaded, and then the search ends.
LEMMA EndsKeeps ==
  ASSUME StreamsInv, Opening, SearchEnds
  PROVE  CallsInv'
<1>1. /\ pc = "component" /\ call.path # <<>> /\ IsDirectory /\ Stops # {} /\ Stop.kind = "end"
  BY DEF SearchEnds, Searches
<1>2. PICK s, path : s = Current /\ path = call.path
  OBVIOUS
<1>3. PICK object : object = Found(s, path)
  OBVIOUS
<1>4. /\ s \in Stream /\ s.data \in Data /\ path \in Seq(STRING) /\ volume \in Volumes
      /\ ~ s.opened /\ ~ s.error /\ ~ s.eof /\ s.name \in Paths
      /\ object \in DOMAIN Objects /\ OnChain(s.data, Objects[object])
      /\ s.data.position = 0 /\ s.data.index = 0
  BY <1>1, <1>2, <1>3, SearchFacts
<1>5. s.name \notin DOMAIN volume.contents
  BY <1>1, <1>2, NoSuchName
<1>6. Objects[object].chain # <<>> /\ s.data.directory
  <2>1. ListsChildren(volume, object)
    BY <1>1, <1>2, <1>3, DirectoryFacts
  <2> QED BY <1>1, <1>2, <2>1 DEF ListsChildren, Objects, IsDirectory
<1>7. PICK d : d = [s.data EXCEPT !.position = @ + SectorSize]
  OBVIOUS
<1>8. d \in Data /\ d.directory /\ OnChain(d, Objects[object])
  <2>1. d = [first |-> s.data.first, current |-> s.data.current, index |-> s.data.index,
             position |-> s.data.position + SectorSize, size |-> s.data.size,
             directory |-> s.data.directory]
    BY <1>4, <1>7 DEF Data
  <2> QED BY <1>4, <1>6, <2>1, FileAssumption DEF Data, OnChain
<1>9. PICK e : e = Rewound(d)
  OBVIOUS
<1>10. e \in Data /\ e.directory /\ OnChain(e, Objects[object])
  BY <1>4, <1>8, <1>9, RewoundFacts
<1>11. PICK t : t = [s EXCEPT !.data = e]
  OBVIOUS
<1>12. /\ t \in Stream /\ t.data = e /\ t.opened = s.opened /\ t.error = s.error
       /\ t.eof = s.eof /\ t.name = s.name
  BY <1>4, <1>10, <1>11 DEF Stream
<1>13. FindsNothing(t)
  BY <1>4, <1>5, <1>6, <1>10, <1>12 DEF FindsNothing
<1>14. Searching(t, path, "miss", "load")
  BY <1>4, <1>12, <1>13 DEF Searching
<1>15. /\ files \in [Handles -> Stream] /\ call.stream \in Handles /\ ReadyBut(call.stream)
       /\ files' = [files EXCEPT ![call.stream] = t] /\ volume' = volume /\ pc' = "load"
  BY <1>2, <1>7, <1>9, <1>11, OpeningFacts DEF SearchEnds, Becomes
<1>16. call' = [op |-> "fopen", stream |-> call.stream, path |-> path, after |-> "miss"]
  <2>1. call' = [call EXCEPT !.after = "miss"]
    BY DEF SearchEnds
  <2>2. PICK k, a : /\ k = call.stream /\ a = call.after
                    /\ call = [op |-> "fopen", stream |-> k, path |-> path, after |-> a]
    BY <1>2, OpeningFacts
  <2> QED BY <2>1, <2>2
<1> QED BY <1>4, <1>12, <1>14, <1>15, <1>16, SearchKeeps

\* Every component is found: the stream is at the start of the file of its name.
LEMMA OpenReturnsKeeps ==
  ASSUME StreamsInv, Opening, OpenReturns
  PROVE  /\ CallsInv'
         /\ Current.name \in DOMAIN volume.contents /\ Current.data.position = 0
         /\ ~ Current.error /\ ~ Current.eof
<1>1. pc = "component" /\ call.path = <<>> /\ volume' = volume
  BY DEF OpenReturns
<1>2. PICK s, path : s = Current /\ path = call.path
  OBVIOUS
<1>3. PICK object : object = Found(s, path)
  OBVIOUS
<1>4. /\ s \in Stream /\ s.data \in Data /\ path \in Seq(STRING) /\ volume \in Volumes
      /\ ~ s.opened /\ ~ s.error /\ ~ s.eof /\ s.name \in Seq(STRING)
      /\ object \in DOMAIN Objects /\ OnChain(s.data, Objects[object])
      /\ s.data.position = 0
      /\ (Objects[object].chain # <<>> => InBuffer(s, Objects[object]))
  BY <1>1, <1>2, <1>3, SearchFacts
<1>5. object = s.name
  <2>1. Len(s.name) - Len(path) = Len(s.name)
    BY <1>1, <1>2, <1>4
  <2> QED BY <1>3, <1>4, <2>1, SubSeqFull DEF Found
<1>6. PICK t : t = [s EXCEPT !.opened = TRUE]
  OBVIOUS
<1>7. /\ t \in Stream /\ t.data = s.data /\ t.error = s.error /\ t.name = s.name
      /\ t.buffer = s.buffer
  BY <1>4, <1>6 DEF Stream
<1>8. /\ s.name \in DOMAIN volume.contents /\ Len(Contents(s)) \in Nat
      /\ Objects[object].size = Len(Contents(s))
  <2>1. DOMAIN volume.contents = DOMAIN Objects
    BY <1>4, VolumeFacts DEF Objects
  <2> QED BY <1>4, <1>5, <2>1, FileFacts DEF Contents, Objects
<1>9. Ready(t)
  <2>1. s.data.size = Len(Contents(s))
    BY <1>4, <1>8 DEF OnChain
  <2> QED BY <1>4, <1>5, <1>7, <1>8, <2>1 DEF Ready, Contents
<1>10. Loaded(t)
  <2>1. ASSUME t.data.position < t.data.size PROVE InBuffer(t, Objects[t.name])
    <3>1. 0 < Len(volume.contents[s.name])
      BY <1>4, <1>7, <1>8, <2>1 DEF OnChain, Contents
    <3>2. PICK sector : sector = volume.image[SectorLba(volume, volume.objects[s.name], 0)]
      OBVIOUS
    <3>3. PICK k : k = (0 \div SectorSize) \div volume.perCluster
      OBVIOUS
    <3>4. k \in Nat /\ k < Len(volume.objects[s.name].chain)
      BY <1>4, <1>8, <3>1, <3>2, <3>3, ByteFacts
    <3>5. Len(<<>>) = 0
      OBVIOUS
    <3>6. Objects[object].chain # <<>>
      BY <1>5, <3>4, <3>5 DEF Objects
    <3> QED BY <1>4, <1>5, <1>7, <3>6 DEF InBuffer
  <2> QED BY <2>1 DEF Loaded
<1>11. /\ files \in [Handles -> Stream] /\ call.stream \in Handles /\ ReadyBut(call.stream)
       /\ files' = [files EXCEPT ![call.stream] = t] /\ pc' = "idle" /\ call' = NoCall
  BY <1>2, <1>6, OpeningFacts DEF OpenReturns, Return, Becomes
<1> QED BY <1>1, <1>2, <1>4, <1>7, <1>8, <1>9, <1>10, <1>11, EndKeeps

\* A step of fopen.
LEMMA OpeningKeeps ==
  ASSUME StreamsInv, Opening, Runs
  PROVE  CallsInv'
<1>1. CASE WalkCached \/ WalkReads \/ WalkFails
  BY <1>1, WalkOpening
<1>2. CASE FillReads \/ FillFails
  BY <1>2, FillOpening
<1>3. CASE OpenReturns
  BY <1>3, OpenReturnsKeeps
<1>4. CASE SearchRefuses
  <2>1. pc = "component" /\ OpenFails(Current) /\ volume' = volume
    BY <1>4 DEF SearchRefuses, Searches
  <2>2. PICK s : s = Current
    OBVIOUS
  <2>3. s \in Stream /\ ~ s.opened
    BY <2>2, OpeningFacts DEF Searching
  <2> QED BY <2>1, <2>2, <2>3, SearchFailKeeps
<1>5. CASE SearchFinds
  BY <1>5, FindsKeeps
<1>6. CASE SearchEnds
  BY <1>6, EndsKeeps
<1>7. pc \in {"load", "component"}
  BY DEF StreamsInv, CallsInv, OpenInv
<1>8. CASE SearchRepeats
  <2>1. UNCHANGED <<volume, files, pc, call, fault>>
    BY <1>8 DEF SearchRepeats, vars
  <2> QED BY <2>1, CallsStutter DEF StreamsInv
<1> QED BY <1>1, <1>2, <1>3, <1>4, <1>5, <1>6, <1>7, <1>8
        DEF Runs, ReadAtEnd, ReadAfterError, ReadStarts, CopyReturns, Copy

-----------------------------------------------------------------------------
(* The program calls.                                                      *)

\* Between calls, every open stream is ready.
LEMMA IdleFacts ==
  ASSUME StreamsInv, pc = "idle"
  PROVE  /\ volume \in Volumes /\ files \in [Handles -> Stream] /\ call = NoCall
         /\ \A h \in Handles : ReadyBut(h) /\ (files[h].opened => Ready(files[h]) /\ Loaded(files[h]))
BY DEF StreamsInv, CacheInv, CallsInv, OthersReady, UnderWay, ReadyBut

\* The root directory, as fopen takes it.
LEMMA RootFacts ==
  ASSUME volume \in Volumes
  PROVE  RootDirectory \in Data /\ OnChain(RootDirectory, Objects[<<>>])
<1>1. /\ <<>> \in DOMAIN Objects /\ Objects[<<>>].first = volume.root /\ volume.root \in Nat
      /\ Objects[<<>>].directory
  BY VolumeFacts DEF Objects
<1>2. PICK r : r = RootDirectory
  OBVIOUS
<1>3. r = [first |-> volume.root, current |-> volume.root, index |-> 0, position |-> 0,
           size |-> 0, directory |-> TRUE]
  BY <1>2 DEF RootDirectory, NoData
<1>4. r \in Data
  BY <1>1, <1>3 DEF Data
<1>5. /\ Objects[<<>>].size = 0 /\ Objects[<<>>].chain \in Seq(Nat)
      /\ Objects[<<>>].directory \in BOOLEAN
      /\ Objects[<<>>].chain # <<>> => Objects[<<>>].chain[1] = volume.root
  BY <1>1, ObjectFacts DEF Objects
<1>6. Objects[<<>>].chain # <<>> => 0 < Len(Objects[<<>>].chain)
  BY <1>5, EmptySeq, LenProperties
<1>7. Objects[<<>>].directory = TRUE
  BY <1>1, <1>5
<1> QED BY <1>1, <1>2, <1>3, <1>4, <1>5, <1>6, <1>7 DEF OnChain

\* fopen starts at the root, in the first stream that is not open.
LEMMA FOpenKeeps ==
  ASSUME StreamsInv, NEW name \in Paths, FOpen(name)
  PROVE  CallsInv'
<1>1. pc = "idle" /\ Unopened # {} /\ volume' = volume /\ pc' = "load"
  BY DEF FOpen
<1>2. PICK U, h : U = Unopened /\ h = CHOOSE k \in U : \A g \in U : k <= g
  OBVIOUS
<1>3. h \in Handles /\ ~ files[h].opened
  <2>1. U \subseteq Nat
    BY <1>2, FileAssumption DEF Unopened, Handles
  <2>2. h \in U
    BY <1>1, <1>2, <2>1, LeastChosen
  <2> QED BY <1>2, <2>2 DEF Unopened
<1>4. volume \in Volumes /\ files \in [Handles -> Stream] /\ ReadyBut(h)
  BY <1>1, <1>3, IdleFacts
<1>5. PICK r, b : /\ r = RootDirectory
                  /\ b = IF files[h].buffer = NoBuffer THEN [kind |-> "junk"] ELSE files[h].buffer
  OBVIOUS
<1>6. r \in Data /\ b \in Buffers /\ OnChain(r, Objects[<<>>]) /\ <<>> \in DOMAIN Objects
  <2>1. files[h] \in Stream
    BY <1>3, <1>4
  <2>2. b \in Buffers
    BY <1>5, <2>1 DEF Stream, Buffers
  <2> QED BY <1>4, <1>5, <2>2, RootFacts, VolumeFacts DEF Objects
<1>7. PICK s : s = [Closed EXCEPT !.buffer = b, !.data = r, !.name = name]
  OBVIOUS
<1>8. s = [opened |-> FALSE, error |-> FALSE, eof |-> FALSE, buffer |-> b, data |-> r,
           name |-> name]
  BY <1>7 DEF Closed
<1>9. r.position = 0 /\ r.index = 0 /\ r.directory
  BY <1>5 DEF RootDirectory, NoData
<1>10. s \in Stream
  BY <1>6, <1>8, <1>9 DEF Stream
<1>11. name \in Seq(STRING) /\ Len(name) \in Nat
  BY FileAssumption
<1>12. FindsObject(s, name, "load")
  <2>1. Found(s, name) = <<>>
    <3>1. Len(name) - Len(name) = 0 /\ SubSeq(name, 1, 0) = <<>>
      BY <1>11, SubSeqEmpty
    <3> QED BY <1>8, <3>1 DEF Found
  <2>2. Len(name) - Len(name) + 1 = 1 /\ name = SubSeq(name, 1, Len(name)) /\ Len(name) <= Len(name)
    BY <1>11, SubSeqFull
  <2> QED BY <1>6, <1>8, <1>9, <2>1, <2>2 DEF FindsObject
<1>13. Searching(s, name, "component", "load")
  BY <1>8, <1>12 DEF Searching
<1>14. /\ files' = [files EXCEPT ![h] = s]
       /\ call' = [op |-> "fopen", stream |-> h, path |-> name, after |-> "component"]
  BY <1>2, <1>5, <1>7 DEF FOpen
<1> QED BY <1>1, <1>3, <1>4, <1>10, <1>11, <1>13, <1>14, SearchKeeps

\* fclose.
LEMMA FCloseKeeps ==
  ASSUME StreamsInv, NEW h \in Handles, FClose(h)
  PROVE  CallsInv'
<1>1. /\ pc = "idle" /\ pc' = "idle" /\ volume' = volume /\ call' = call
      /\ files' = [files EXCEPT ![h] = Closed]
  BY DEF FClose
<1>2. files \in [Handles -> Stream] /\ call = NoCall /\ ReadyBut(h)
  BY <1>1, IdleFacts
<1>3. PICK s : s = Closed
  OBVIOUS
<1>4. s \in Stream /\ ~ s.opened
  BY <1>3, ClosedStream
<1> QED BY <1>1, <1>2, <1>3, <1>4, EndKeeps

\* A read goes on.
LEMMA ReadKeeps ==
  ASSUME files \in [Handles -> Stream], NEW k \in Handles, ReadyBut(k), NEW s \in Stream,
         files' = [files EXCEPT ![k] = s], volume' = volume,
         NEW c, NEW at, NEW failed, Reads(s, c, at, failed), c.stream = k,
         call' = c, pc' = at, fault' = failed
  PROVE  CallsInv'
<1>1. c.op \in {"read", "fgets"} /\ at # "idle"
  BY DEF Reads, CallTyped
<1>2. (files \in [Handles -> Stream])' /\ OthersReady' /\ Current' = s
  BY <1>1, GoingOnKeeps
<1>3. Reads(s, c, at, failed)'
  BY ReadsSame
<1>4. Reads(Current, call, pc, fault)'
  BY <1>2, <1>3 DEF Reads, CallTyped, Progress, Ready, Loaded, Contents, InBuffer, Objects,
                    Before, ReadBytes, LineBytes
<1>5. ReadInv' /\ OpenInv' /\ call' # NoCall
  BY <1>1, <1>4 DEF ReadInv, OpenInv, Opening, NoCall
<1> QED BY <1>1, <1>2, <1>5 DEF CallsInv

\* A read begins: nothing has been delivered.
LEMMA ReadingKeeps ==
  ASSUME StreamsInv, NEW op \in {"read", "fgets"}, NEW h \in Handles, NEW size \in Nat,
         NEW bytes \in Nat, Reading(op, h, size, bytes),
         op = "read" => size \in ReadSizes /\ bytes = size,
         op = "fgets" => size \in LineSizes /\ bytes = 1
  PROVE  CallsInv'
<1>1. /\ pc = "idle" /\ files[h].opened /\ volume' = volume /\ files' = files
      /\ pc' = "read" /\ fault' = FALSE
  BY DEF Reading
<1>2. PICK s : s = files[h]
  OBVIOUS
<1>3. /\ files \in [Handles -> Stream] /\ volume \in Volumes /\ ReadyBut(h)
      /\ s \in Stream /\ s.opened /\ Ready(s) /\ Loaded(s)
  BY <1>1, <1>2, IdleFacts
<1>4. PICK c : c = [op |-> op, stream |-> h, size |-> size, remaining |-> bytes, out |-> <<>>,
                    line |-> <<>>, after |-> "copy", before |-> s]
  OBVIOUS
<1>5. CallTyped(c)
  <2>1. <<>> \in Seq(Characters)
    OBVIOUS
  <2> QED BY <1>3, <1>4, <2>1 DEF CallTyped
<1>6. PICK p \in Nat : p = s.data.position
  BY <1>3 DEF Stream, Data
<1>7. PICK text : text = Contents(s)
  OBVIOUS
<1>8. SubSeq(text, p + 1, p) = <<>> /\ p + 0 = p
  BY <1>6, PartEmpty
<1>9. c.op = op /\ c.size = size /\ c.line = <<>> /\ c.before = s /\ c.out = <<>> /\ c.remaining = bytes
  BY <1>4
<1>10. ASSUME op = "read" PROVE ReadBytes(s, c, c.out, c.remaining)
  <2>1. size - (p - p) = size
    BY <1>6
  <2> QED BY <1>6, <1>7, <1>8, <1>9, <1>10, <2>1 DEF ReadBytes, Before
<1>11. ASSUME op = "fgets" PROVE LineBytes(s, c, c.out, c.remaining)
  <2>1. Len(c.line) = 0 /\ 0 < size - 1
    BY <1>9, <1>11, FileAssumption
  <2> QED BY <1>6, <1>7, <1>8, <1>9, <1>11, <2>1 DEF LineBytes, Before
<1>12. PICK failed : failed = FALSE
  OBVIOUS
<1>13. Progress(s, c, c.out, c.remaining, failed)
  BY <1>3, <1>6, <1>9, <1>10, <1>11 DEF Progress, Before
<1>14. Reads(s, c, "read", failed)
  BY <1>3, <1>5, <1>9, <1>13 DEF Reads
<1>15. files' = [files EXCEPT ![h] = s] /\ call' = c /\ c.stream = h
  BY <1>1, <1>2, <1>3, <1>4 DEF Reading
<1> QED BY <1>1, <1>3, <1>12, <1>14, <1>15, ReadKeeps

\* A call begins.
LEMMA CallingKeeps ==
  ASSUME StreamsInv, Calls
  PROVE  CallsInv'
<1>1. ASSUME NEW name \in Paths, FOpen(name) PROVE CallsInv'
  BY <1>1, FOpenKeeps
<1>2. ASSUME NEW name \in Paths, FOpenFull(name) PROVE CallsInv'
  BY <1>2, CallsStutter DEF FOpenFull, StreamsInv
<1>3. ASSUME NEW h \in Handles, NEW n \in ReadSizes, FRead(h, n) PROVE CallsInv'
  BY <1>3, ReadingKeeps, FileAssumption DEF FRead
<1>4. ASSUME NEW h \in Handles, NEW n \in LineSizes, FGets(h, n) PROVE CallsInv'
  BY <1>4, ReadingKeeps, FileAssumption DEF FGets
<1>5. ASSUME NEW h \in Handles, FClose(h) PROVE CallsInv'
  BY <1>5, FCloseKeeps
<1> QED BY <1>1, <1>2, <1>3, <1>4, <1>5 DEF Calls

-----------------------------------------------------------------------------
(* fread, fgetc and fgets.                                                 *)

\* The read under way.
LEMMA ReadingFacts ==
  ASSUME StreamsInv, ReadingNow
  PROVE  /\ volume \in Volumes /\ CacheInv /\ files \in [Handles -> Stream]
         /\ call.stream \in Handles /\ ReadyBut(call.stream)
         /\ Reads(Current, call, pc, fault) /\ CallTyped(call)
         /\ Progress(Current, call, call.out, call.remaining, fault)
         /\ Current \in Stream /\ Current.data \in Data /\ Ready(Current) /\ Current.opened
         /\ call.op \in {"read", "fgets"} /\ call.after = "copy"
<1>1. /\ volume \in Volumes /\ CacheInv /\ files \in [Handles -> Stream] /\ OthersReady
      /\ Reads(Current, call, pc, fault)
  BY DEF StreamsInv, CacheInv, CallsInv, ReadInv
<1>2. /\ CallTyped(call) /\ Progress(Current, call, call.out, call.remaining, fault)
  BY <1>1 DEF Reads
<1>3. call.stream \in Handles /\ call.op \in {"read", "fgets"} /\ call.after = "copy"
  BY <1>2 DEF CallTyped
<1>4. ReadyBut(call.stream)
  BY <1>1 DEF OthersReady, ReadyBut, ReadingNow
<1>5. Current \in Stream /\ Current.data \in Data /\ Ready(Current) /\ Current.opened
  BY <1>2 DEF Progress, Stream
<1> QED BY <1>1, <1>2, <1>3, <1>4, <1>5

\* A stream whose position has not moved.
LEMMA ProgressStays ==
  ASSUME NEW s, NEW c, NEW out, NEW remaining, NEW failed, Progress(s, c, out, remaining, failed),
         NEW t \in Stream, NEW failedNow, t.opened, t.name = s.name,
         t.data.position = s.data.position, t.data.size = s.data.size,
         ~ t.error => OnChain(t.data, Objects[t.name]),
         t.error # c.before.error => t.error /\ failedNow
  PROVE  Progress(t, c, out, remaining, failedNow)
<1>1. Contents(t) = Contents(s)
  BY DEF Contents
<1>2. Ready(t)
  BY <1>1 DEF Progress, Ready
<1> QED BY <1>1, <1>2 DEF Progress, ReadBytes, LineBytes

\* fat_read returns: to the caller, or to fgets, which may read one byte more.
LEMMA ReturnKeeps ==
  ASSUME StreamsInv, ReadingNow, NEW s, NEW out, NEW remaining, NEW failed, failed = fault',
         ReadReturns(s, out), volume' = volume, Progress(s, call, out, remaining, failed),
         Loaded(s), call.op = "fgets" /\ out # <<>> => s.eof = call.before.eof
  PROVE  CallsInv'
<1>1. /\ volume \in Volumes /\ files \in [Handles -> Stream] /\ call.stream \in Handles
      /\ ReadyBut(call.stream) /\ CallTyped(call) /\ call.op \in {"read", "fgets"}
  BY ReadingFacts
<1>2. s \in Stream /\ Ready(s) /\ files' = [files EXCEPT ![call.stream] = s]
  BY DEF Progress, ReadReturns, Becomes
<1>3. CASE pc' = "idle" /\ call' = NoCall
  BY <1>1, <1>2, <1>3, EndKeeps
<1>4. CASE /\ call.op = "fgets" /\ LineEnds(out) = FALSE /\ pc' = "read"
           /\ call' = [call EXCEPT !.line = Line(out), !.remaining = 1, !.out = <<>>]
  <2>1. LineBytes(s, call, out, remaining)
    BY <1>4 DEF Progress
  <2>2. out # <<>> /\ ~ IsEOF(out[1]) /\ ~ EndsLine(out[1]) /\ Line(out) = Append(call.line, out[1])
    BY <1>4 DEF LineEnds, Line
  <2>3. Len(Line(out)) # call.size - 1
    BY <1>4, <2>2 DEF LineEnds
  <2>4. PICK text, from, line, byte, size :
          /\ text = Contents(s) /\ from = Before(call) /\ line = call.line /\ byte = out[1]
          /\ size = call.size
    OBVIOUS
  <2>5. /\ line = SubSeq(text, from + 1, from + Len(line)) /\ Len(line) < size - 1
        /\ \A i \in 1..Len(line) : ~ IsEOF(line[i]) /\ ~ EndsLine(line[i])
        /\ out = <<text[s.data.position]>> /\ s.data.position = from + Len(line) + 1
    BY <2>1, <2>2, <2>4 DEF LineBytes
  <2>6. /\ line \in Seq(Characters) /\ from \in Nat /\ size \in Nat
        /\ text \in Seq(Characters) /\ Len(text) \in Nat /\ s.data.position <= Len(text)
    <3>1. call.line \in Seq(Characters) /\ call.before \in Stream /\ call.size \in Nat
      BY <1>1 DEF CallTyped
    <3>2. call.before.data.position \in Nat
      BY <3>1 DEF Stream, Data
    <3>3. text \in Seq(Characters) /\ Len(text) \in Nat /\ s.data.position <= Len(text)
      BY <1>1, <1>2, <2>4, FileFacts DEF Ready, Contents
    <3> QED BY <2>4, <3>1, <3>2, <3>3 DEF Before
  <2>7. PICK l \in Nat : l = Len(line)
    BY <2>6, LenProperties
  <2>8. byte = text[from + l + 1] /\ from + l + 1 \in 1..Len(text)
    <3>1. s.data.position = from + l + 1
      BY <2>5, <2>7
    <3>2. from + l + 1 \in Nat /\ 1 <= from + l + 1
      BY <2>6, <2>7
    <3>3. from + l + 1 <= Len(text)
      BY <2>6, <3>1
    <3>4. byte = text[from + l + 1]
      BY <2>4, <2>5, <3>1
    <3> QED BY <2>6, <3>2, <3>3, <3>4
  <2>9. byte \in Characters
    BY <2>6, <2>8, ElementOfSeq
  <2>10. PICK longer : longer = Append(line, byte)
    OBVIOUS
  <2>11. /\ longer \in Seq(Characters) /\ Len(longer) = l + 1
         /\ \A i \in 1..l : longer[i] = line[i]
         /\ longer[l + 1] = byte
    BY <2>6, <2>7, <2>9, <2>10, AppendProperties
  <2>12. longer = SubSeq(text, from + 1, from + Len(longer))
    <3>1. longer = line \o <<byte>>
      BY <2>6, <2>9, <2>10, AppendIsConcat
    <3>2. /\ from + 1 \in 1..Len(text) /\ from + l + 1 \in from + 1..Len(text)
          /\ (from + l + 1) - 1 = from + l
      BY <2>6, <2>7, <2>8
    <3>3. PICK m, n \in Nat : m = from + 1 /\ n = from + l + 1
      <4>1. from + 1 \in Nat /\ from + l + 1 \in Nat
        BY <2>6, <2>7
      <4> QED BY <4>1
    <3>4. SubSeq(text, m, n) = SubSeq(text, m, n - 1) \o <<text[n]>>
      BY <2>6, <3>2, <3>3, SubSeqRecursiveSecond
    <3>5. n - 1 = from + l /\ from + Len(longer) = n
      BY <2>6, <2>7, <2>11, <3>3
    <3> QED BY <2>5, <2>7, <2>8, <3>1, <3>3, <3>4, <3>5
  <2>13. \A i \in 1..Len(longer) : ~ IsEOF(longer[i]) /\ ~ EndsLine(longer[i])
    <3>1. ASSUME NEW i \in 1..Len(longer) PROVE ~ IsEOF(longer[i]) /\ ~ EndsLine(longer[i])
      <4>1. i \in 1..l \/ i = l + 1
        BY <2>7, <2>11
      <4>2. CASE i \in 1..l
        BY <2>5, <2>7, <2>11, <4>2
      <4>3. CASE i = l + 1
        BY <2>2, <2>4, <2>11, <4>3
      <4> QED BY <4>1, <4>2, <4>3
    <3> QED BY <3>1
  <2>14. PICK c : c = [call EXCEPT !.line = longer, !.remaining = 1, !.out = <<>>]
    OBVIOUS
  <2>15. /\ CallTyped(c) /\ c.op = call.op /\ c.stream = call.stream /\ c.size = size
         /\ c.before = call.before /\ c.line = longer /\ c.remaining = 1 /\ c.out = <<>>
    <3>1. /\ call \in [op : {"read", "fgets"}, stream : Handles, size : Nat, remaining : Nat,
                      out : Seq(Characters), line : Seq(Characters), after : {"copy"},
                      before : Stream]
          /\ call.op = "read" => call.size \in ReadSizes
          /\ call.op = "fgets" => call.size \in LineSizes
          /\ call.before.opened
      BY <1>1 DEF CallTyped
    <3>2. c = [op |-> call.op, stream |-> call.stream, size |-> call.size, remaining |-> 1,
               out |-> <<>>, line |-> longer, after |-> call.after, before |-> call.before]
      BY <2>14, <3>1
    <3>3. <<>> \in Seq(Characters)
      OBVIOUS
    <3> QED BY <2>4, <2>11, <3>1, <3>2, <3>3 DEF CallTyped
  <2>16. LineBytes(s, c, c.out, c.remaining)
    <3>1. Len(longer) < size - 1
      <4>1. Len(longer) # size - 1
        BY <2>2, <2>3, <2>4, <2>10
      <4>2. l < size - 1 /\ l + 1 # size - 1
        BY <2>5, <2>7, <2>11, <4>1
      <4> QED BY <2>6, <2>7, <2>11, <4>2
    <3>2. s.data.position = from + Len(longer)
      BY <2>5, <2>6, <2>7, <2>11
    <3>3. Before(c) = from
      BY <2>4, <2>15 DEF Before
    <3> QED BY <2>4, <2>12, <2>13, <2>15, <3>1, <3>2, <3>3 DEF LineBytes
  <2>17. Progress(s, c, c.out, c.remaining, failed)
    BY <1>4, <2>15, <2>16 DEF Progress, Before
  <2>18. s.eof = c.before.eof
    BY <1>4, <2>2, <2>15
  <2>19. Reads(s, c, "read", failed)
    BY <2>15, <2>17, <2>18 DEF Reads
  <2>20. call' = c
    BY <1>4, <2>2, <2>4, <2>10, <2>14
  <2> QED BY <1>1, <1>2, <1>4, <2>15, <2>19, <2>20, ReadKeeps
<1> QED BY <1>3, <1>4 DEF ReadReturns, ReturnBytes, Return

\* What the caller still waits for when fat_read returns.
WantsMore(c, out, remaining) == IF c.op = "read" THEN remaining > 0 ELSE out = <<>>

\* When fat_read sets the end-of-file flag.
Ended(s, c, out, remaining) ==
  /\ s.data.position = s.data.size
  /\ WantsMore(c, out, remaining) \/ (c.op = "read" /\ s.data.position = Before(c))

\* fat_read returns short only at the end of the file, or when the disk has failed.
ReturnsWith(s, out, remaining, failed) ==
  /\ ReadReturns(s, out) /\ failed = fault' /\ remaining \in Nat
  /\ Progress(s, call, out, remaining, failed)
  /\ WantsMore(call, out, remaining) =>
       s.data.position = s.data.size \/ failed \/ call.before.error
  /\ s.eof <=> call.before.eof \/ Ended(s, call, out, remaining)

GoesOnIn(s) ==
  /\ s.opened /\ Becomes(s) /\ pc' # "idle" /\ result' = result
  /\ call'.op = call.op /\ call'.stream = call.stream /\ call'.before = call.before

\* A step of a read is one within fat_read, or fat_read returns.
ReadAdvances ==
  (\E s : GoesOnIn(s)) \/ (\E s, out, remaining, failed : ReturnsWith(s, out, remaining, failed))

\* fgetc has read the byte it was to read.
LEMMA ByteRead ==
  ASSUME NEW s, NEW c, NEW out, NEW remaining, NEW failed, Progress(s, c, out, remaining, failed),
         c.op = "fgets", remaining = 0
  PROVE  out # <<>>
<1>1. LineBytes(s, c, out, remaining)
  BY DEF Progress
<1>2. PICK byte : out = <<byte>>
  BY <1>1 DEF LineBytes
<1> QED BY <1>2

\* A sector cannot be read: fat_read notes the error and returns what it has.
LEMMA LoadFailsReading ==
  ASSUME StreamsInv, ReadingNow, pc = "load", NEW s \in Stream, s.opened, s.eof = Current.eof,
         s.name = Current.name, s.data.position = Current.data.position,
         s.data.size = Current.data.size, NEW ok, ~ ok, LoadReturns(s, ok), fault',
         volume' = volume
  PROVE  CallsInv' /\ ReadAdvances
<1>1. PICK t : t = [s EXCEPT !.error = TRUE]
  OBVIOUS
<1>2. /\ t \in Stream /\ t.opened /\ t.error /\ t.eof = Current.eof /\ t.name = s.name
      /\ t.data = s.data
  BY <1>1 DEF Stream
<1>3. ReadReturns(t, call.out)
  BY <1>1, ReadingFacts DEF LoadReturns
<1>4. PICK c, u, failed, failedNow :
        c = call /\ u = Current /\ failed = fault /\ failedNow = fault'
  OBVIOUS
<1>5. /\ Progress(u, c, c.out, c.remaining, failed) /\ u.eof = c.before.eof
      /\ u.data.position < u.data.size /\ u.data \in Data /\ c.remaining \in Nat
  BY <1>4, ReadingFacts DEF Reads, CallTyped
<1>6. Progress(t, c, c.out, c.remaining, failedNow)
  BY <1>2, <1>4, <1>5, ProgressStays
<1>7. Loaded(t)
  BY <1>2 DEF Loaded
<1>8. CallsInv'
  BY <1>2, <1>3, <1>4, <1>5, <1>6, <1>7, ReturnKeeps
<1>9. t.data.position # t.data.size
  <2>1. PICK p, size \in Nat : p = u.data.position /\ size = u.data.size
    BY <1>5 DEF Data
  <2> QED BY <1>2, <1>4, <1>5, <2>1
<1>10. ReturnsWith(t, c.out, c.remaining, failedNow)
  BY <1>2, <1>3, <1>4, <1>5, <1>6, <1>9 DEF ReturnsWith, Ended
<1> QED BY <1>8, <1>10 DEF ReadAdvances

\* The next cluster of the file's chain: there is one, or the FAT cannot be read.
LEMMA WalkReading ==
  ASSUME StreamsInv, ReadingNow, WalkCached \/ WalkReads \/ WalkFails
  PROVE  CallsInv' /\ ReadAdvances
<1>1. /\ pc = "load" /\ Current.data.index < TargetCluster(Current.data) /\ volume' = volume
  BY DEF WalkCached, WalkReads, WalkFails, Walks
<1>2. PICK s, c, failed : s = Current /\ c = call /\ failed = fault
  OBVIOUS
<1>3. PICK d : d = s.data
  OBVIOUS
<1>4. /\ volume \in Volumes /\ CacheInv /\ s \in Stream /\ d \in Data /\ Ready(s) /\ s.opened
      /\ Reads(s, c, "load", failed) /\ Progress(s, c, c.out, c.remaining, failed)
      /\ ~ s.error /\ d.position < d.size /\ c.after = "copy"
  BY <1>1, <1>2, <1>3, ReadingFacts DEF Reads
<1>5. PICK path : path = s.name
  OBVIOUS
<1>6. /\ path \in DOMAIN volume.contents /\ path \in DOMAIN Objects
      /\ d.size = Len(volume.contents[path]) /\ OnChain(d, Objects[path])
  BY <1>3, <1>4, <1>5, FileFacts DEF Ready, Contents, Objects
<1>7. /\ TargetCluster(d) \in Nat /\ TargetCluster(d) < Len(Objects[path].chain)
      /\ Objects[path].chain # <<>>
  <2>1. PICK p \in Nat : p = d.position
    BY <1>4 DEF Data
  <2>2. PICK sector : sector = volume.image[SectorLba(volume, volume.objects[path], p)]
    OBVIOUS
  <2>3. /\ (p \div SectorSize) \div volume.perCluster \in Nat
        /\ (p \div SectorSize) \div volume.perCluster < Len(volume.objects[path].chain)
    BY <1>4, <1>6, <2>1, <2>2, ByteFacts
  <2>4. Len(<<>>) = 0
    OBVIOUS
  <2> QED BY <2>1, <2>3, <2>4 DEF TargetCluster, TargetSector, Objects
<1>8. PICK lba, buffer, entry : /\ lba = FatSectorOf(volume, d.current)
                                /\ buffer = volume.image[lba]
                                /\ entry = EntryIn(buffer, d.current)
  OBVIOUS
<1>9. /\ entry \in Nat
      /\ entry < BadCluster =>
           OnChain([d EXCEPT !.index = @ + 1, !.current = entry], Objects[path])
      /\ d.index + 1 < Len(Objects[path].chain) => entry < BadCluster
  BY <1>4, <1>6, <1>7, <1>8, EntryLeads
<1>10. entry < BadCluster
  <2>1. PICK i, n \in Nat : i = d.index /\ n = TargetCluster(d)
    BY <1>4, <1>7 DEF Data
  <2>2. PICK l \in Nat : l = Len(Objects[path].chain)
    BY <1>4, <1>6, ObjectFacts, LenProperties DEF Objects
  <2>3. i < n /\ n < l
    BY <1>1, <1>2, <1>3, <1>7, <2>1, <2>2
  <2> QED BY <1>9, <2>1, <2>2, <2>3
<1>11. ASSUME Follows(entry), fault' = fault PROVE CallsInv' /\ ReadAdvances
  <2>1. PICK e : e = [d EXCEPT !.index = @ + 1, !.current = entry]
    OBVIOUS
  <2>2. e = [first |-> d.first, current |-> entry, index |-> d.index + 1,
             position |-> d.position, size |-> d.size, directory |-> d.directory]
    BY <1>4, <2>1 DEF Data
  <2>3. /\ e \in Data /\ e.position = d.position /\ e.size = d.size /\ e.index = d.index + 1
        /\ e.directory = d.directory
    BY <1>4, <1>9, <2>2 DEF Data
  <2>4. PICK t : t = [s EXCEPT !.data = e]
    OBVIOUS
  <2>5. /\ t \in Stream /\ t.data = e /\ t.opened = s.opened /\ t.error = s.error
        /\ t.eof = s.eof /\ t.name = s.name
    BY <1>3, <1>4, <2>3, <2>4 DEF Stream
  <2>6. OnChain(t.data, Objects[t.name])
    BY <1>5, <1>9, <1>10, <2>1, <2>5
  <2>7. Progress(t, c, c.out, c.remaining, failed)
    <3>1. t.error # c.before.error => t.error /\ failed
      BY <1>4, <2>5 DEF Progress
    <3>2. t.data.position = s.data.position /\ t.data.size = s.data.size /\ t.name = s.name /\ t.opened
      BY <1>3, <1>4, <2>3, <2>5
    <3> QED BY <1>4, <2>5, <2>6, <3>1, <3>2, ProgressStays
  <2>8. t.data.index <= TargetCluster(t.data)
    <3>1. TargetCluster(e) = TargetCluster(d)
      BY <2>3 DEF TargetCluster, TargetSector
    <3>2. PICK i, n \in Nat : i = d.index /\ n = TargetCluster(d)
      BY <1>4, <1>7 DEF Data
    <3>3. i < n
      BY <1>1, <1>2, <1>3, <3>2
    <3> QED BY <2>3, <2>5, <3>1, <3>2, <3>3
  <2>9. Reads(t, c, "load", failed)
    BY <1>3, <1>4, <2>3, <2>5, <2>7, <2>8 DEF Reads
  <2>10. Becomes(t) /\ UNCHANGED <<pc, call, result>>
    <3>1. ~ (entry >= BadCluster)
      BY <1>9, <1>10, FileAssumption
    <3> QED BY <1>2, <1>3, <1>11, <2>1, <2>4, <3>1 DEF Follows
  <2>11. /\ files \in [Handles -> Stream] /\ call.stream \in Handles /\ ReadyBut(call.stream)
         /\ files' = [files EXCEPT ![call.stream] = t] /\ call' = c /\ pc' = "load" /\ fault' = failed
         /\ c.stream = call.stream
    BY <1>1, <1>2, <1>11, <2>10, ReadingFacts DEF Becomes
  <2>12. CallsInv'
    BY <1>1, <2>5, <2>9, <2>11, ReadKeeps
  <2>13. GoesOnIn(t)
    BY <1>1, <1>4, <2>5, <2>10 DEF GoesOnIn
  <2> QED BY <2>12, <2>13 DEF ReadAdvances
<1>12. CASE WalkCached
  <2>1. lba # 0
    <3>1. PICK k \in Nat : k = d.current
      BY <1>4 DEF Data
    <3>2. k \div EntriesPerFatSector \in Nat /\ volume.reserved \in Nat \ {0}
      BY <1>4, <3>1, FileAssumption, DivMod, VolumeFacts
    <3> QED BY <1>8, <3>1, <3>2 DEF FatSectorOf, FirstFatSector
  <2>2. fatSector = lba
    BY <1>2, <1>3, <1>8, <1>12 DEF WalkCached, Wanted
  <2>3. fatBuffer = buffer
    BY <1>4, <1>8, <2>1, <2>2 DEF CacheInv, FatBufferIsItsSector
  <2> QED BY <1>2, <1>3, <1>8, <1>11, <1>12, <2>3 DEF WalkCached
<1>13. CASE WalkReads
  <2>1. fatBuffer' = buffer
    BY <1>2, <1>3, <1>8, <1>13 DEF WalkReads, Wanted
  <2> QED BY <1>2, <1>3, <1>8, <1>11, <1>13, <2>1 DEF WalkReads
<1>14. CASE WalkFails
  <2>1. PICK e : e = [d EXCEPT !.index = @ + 1, !.current = BadCluster]
    OBVIOUS
  <2>2. e = [first |-> d.first, current |-> BadCluster, index |-> d.index + 1,
             position |-> d.position, size |-> d.size, directory |-> d.directory]
    BY <1>4, <2>1 DEF Data
  <2>3. /\ e \in Data /\ e.position = d.position /\ e.size = d.size /\ e.directory = d.directory
    BY <1>4, <2>2, FileAssumption DEF Data
  <2>4. PICK t : t = [s EXCEPT !.data = e]
    OBVIOUS
  <2>5. /\ t \in Stream /\ t.data = e /\ t.opened = s.opened /\ t.eof = s.eof /\ t.name = s.name
    BY <1>3, <1>4, <2>3, <2>4 DEF Stream
  <2>6. LoadReturns(t, FALSE)
    <3>1. Follows(BadCluster) /\ ~ (BadCluster < BadCluster)
      BY <1>14, FileAssumption DEF WalkFails
    <3> QED BY <1>2, <1>3, <2>1, <2>4, <3>1 DEF Follows
  <2>7. fault'
    BY <1>14 DEF WalkFails
  <2> QED BY <1>1, <1>2, <1>3, <1>4, <2>3, <2>5, <2>6, <2>7, LoadFailsReading
<1> QED BY <1>12, <1>13, <1>14

\* The sector of the position is in the buffer, or the read ends.
LEMMA FillReading ==
  ASSUME StreamsInv, ReadingNow, FillReads \/ FillFails
  PROVE  CallsInv' /\ ReadAdvances
<1>1. pc = "load" /\ Current.data.index >= TargetCluster(Current.data) /\ volume' = volume
  BY DEF FillReads, FillFails, Fills
<1>2. PICK s, c, failed : s = Current /\ c = call /\ failed = fault
  OBVIOUS
<1>3. PICK d, path : d = s.data /\ path = s.name
  OBVIOUS
<1>4. /\ volume \in Volumes /\ s \in Stream /\ d \in Data /\ Ready(s) /\ s.opened
      /\ Reads(s, c, "load", failed) /\ Progress(s, c, c.out, c.remaining, failed)
      /\ ~ s.error /\ d.position < d.size /\ c.after = "copy" /\ d.index <= TargetCluster(d)
  BY <1>1, <1>2, <1>3, ReadingFacts DEF Reads
<1>5. CASE FillFails
  <2>1. LoadReturns(s, FALSE) /\ fault'
    BY <1>2, <1>5 DEF FillFails
  <2> QED BY <1>1, <1>2, <1>4, <2>1, LoadFailsReading
<1>6. CASE FillReads
  <2>1. PICK sector : sector = volume.image[TargetLba(d)]
    OBVIOUS
  <2>2. PICK t : t = [s EXCEPT !.buffer = sector]
    OBVIOUS
  <2>3. sector \in Buffers
    BY <1>2, <1>3, <1>6, <2>1 DEF FillReads, OnPartition, Buffers
  <2>4. /\ t \in Stream /\ t.data = d /\ t.opened = s.opened /\ t.error = s.error
        /\ t.eof = s.eof /\ t.name = path /\ t.buffer = sector
    BY <1>3, <1>4, <2>2, <2>3 DEF Stream
  <2>5. LoadReturns(t, TRUE)
    BY <1>2, <1>3, <1>6, <2>1, <2>2 DEF FillReads
  <2>6. Becomes(t) /\ pc' = "copy" /\ call' = call /\ fault' = fault /\ result' = result
    BY <1>2, <1>4, <1>6, <2>5 DEF LoadReturns, FillReads
  <2>7. /\ path \in DOMAIN volume.contents /\ path \in DOMAIN Objects
        /\ d.size = Len(volume.contents[path]) /\ OnChain(d, Objects[path])
    BY <1>3, <1>4, FileFacts DEF Ready, Contents, Objects
  <2>8. TargetCluster(d) \in Nat /\ Objects[path].chain # <<>>
    <3>1. PICK p \in Nat : p = d.position
      BY <1>4 DEF Data
    <3>2. PICK x : x = volume.image[SectorLba(volume, volume.objects[path], p)]
      OBVIOUS
    <3>3. /\ (p \div SectorSize) \div volume.perCluster \in Nat
          /\ (p \div SectorSize) \div volume.perCluster < Len(volume.objects[path].chain)
      BY <1>4, <2>7, <3>1, <3>2, ByteFacts
    <3>4. Len(<<>>) = 0
      OBVIOUS
    <3> QED BY <3>1, <3>3, <3>4 DEF TargetCluster, TargetSector, Objects
  <2>9. d.index = TargetCluster(d)
    <3>1. PICK i, n \in Nat : i = d.index /\ n = TargetCluster(d)
      BY <1>4, <2>8 DEF Data
    <3>2. i <= n /\ i >= n
      BY <1>1, <1>2, <1>3, <1>4, <3>1
    <3> QED BY <3>1, <3>2
  <2>10. Loaded(t)
    <3>1. TargetLba(d) = SectorLba(volume, Objects[path], d.position)
      BY <1>4, <2>7, <2>8, <2>9, TargetIsInFile
    <3> QED BY <2>1, <2>4, <3>1 DEF Loaded, InBuffer
  <2>11. Progress(t, c, c.out, c.remaining, failed)
    <3>1. t.error # c.before.error => t.error /\ failed
      BY <1>4, <2>4 DEF Progress
    <3>2. t.data.position = s.data.position /\ t.data.size = s.data.size /\ t.name = s.name /\ t.opened
      BY <1>3, <1>4, <2>4
    <3>3. OnChain(t.data, Objects[t.name])
      BY <2>4, <2>7
    <3> QED BY <1>4, <2>4, <3>1, <3>2, <3>3, ProgressStays
  <2>12. Reads(t, c, "copy", failed)
    BY <1>3, <1>4, <2>4, <2>10, <2>11 DEF Reads
  <2>13. /\ files \in [Handles -> Stream] /\ call.stream \in Handles /\ ReadyBut(call.stream)
         /\ files' = [files EXCEPT ![call.stream] = t] /\ call' = c /\ fault' = failed
         /\ c.stream = call.stream
    BY <1>2, <2>6, ReadingFacts DEF Becomes
  <2>14. CallsInv'
    BY <1>1, <2>4, <2>6, <2>12, <2>13, ReadKeeps
  <2>15. GoesOnIn(t)
    BY <1>4, <2>4, <2>6 DEF GoesOnIn
  <2> QED BY <2>14, <2>15 DEF ReadAdvances
<1> QED BY <1>5, <1>6

\* A read that has delivered nothing has not moved.
LEMMA AtStart ==
  ASSUME volume \in Volumes, NEW s \in Stream, NEW c, NEW out, NEW remaining, NEW failed,
         CallTyped(c), out = <<>>, Progress(s, c, out, remaining, failed), c.op = "read"
  PROVE  s.data.position = Before(c)
<1>1. PICK p, from, text : p = s.data.position /\ from = Before(c) /\ text = Contents(s)
  OBVIOUS
<1>2. p \in Nat /\ from \in Nat
  <2>1. c.before \in Stream
    BY DEF CallTyped
  <2> QED BY <1>1, <2>1 DEF Stream, Data, Before
<1>3. from <= p /\ <<>> = SubSeq(text, from + 1, p) /\ p <= s.data.size /\ Ready(s)
  BY <1>1 DEF Progress, ReadBytes, Ready
<1>4. text \in Seq(Characters) /\ p <= Len(text)
  BY <1>1, <1>3, FileFacts DEF Ready, Contents
<1>5. Len(SubSeq(text, from + 1, p)) = p - from
  BY <1>2, <1>3, <1>4, PartOf
<1>6. p - from = 0
  BY <1>3, <1>5
<1> QED BY <1>1, <1>2, <1>6

\* fat_read at the end of the file, and after an error.
LEMMA HeadReturns ==
  ASSUME StreamsInv, ReadingNow, ReadAtEnd \/ ReadAfterError
  PROVE  CallsInv' /\ ReadAdvances
<1>1. pc = "read" /\ volume' = volume /\ fault' = fault
  BY DEF ReadAtEnd, ReadAfterError
<1>2. PICK s, c, failed : s = Current /\ c = call /\ failed = fault
  OBVIOUS
<1>3. /\ s \in Stream /\ s.opened /\ Ready(s) /\ Loaded(s) /\ c.out = <<>>
      /\ Progress(s, c, c.out, c.remaining, failed) /\ s.eof = c.before.eof
      /\ CallTyped(c) /\ c.op \in {"read", "fgets"} /\ c.remaining \in Nat /\ volume \in Volumes
  BY <1>1, <1>2, ReadingFacts DEF Reads, CallTyped
<1>4. CASE ReadAfterError
  <2>1. ReadReturns(s, c.out)
    BY <1>2, <1>3, <1>4 DEF ReadAfterError
  <2>2. CallsInv'
    BY <1>1, <1>2, <1>3, <2>1, ReturnKeeps
  <2>3. s.error /\ s.data.position # s.data.size
    <3>1. Left(s.data) # 0 /\ s.error
      BY <1>2, <1>4 DEF ReadAfterError
    <3>2. s.data.position \in Nat /\ s.data.size \in Nat
      BY <1>3 DEF Stream, Data
    <3> QED BY <3>1, <3>2 DEF Left
  <2>4. failed \/ c.before.error
    <3>1. s.error # c.before.error => failed
      BY <1>3 DEF Progress
    <3> QED BY <2>3, <3>1
  <2>5. ReturnsWith(s, c.out, c.remaining, failed)
    BY <1>1, <1>2, <1>3, <2>1, <2>3, <2>4 DEF ReturnsWith, Ended
  <2> QED BY <2>2, <2>5 DEF ReadAdvances
<1>5. CASE ReadAtEnd
  <2>1. PICK t : t = [s EXCEPT !.eof = TRUE]
    OBVIOUS
  <2>2. /\ t \in Stream /\ t.opened /\ t.error = s.error /\ t.name = s.name /\ t.data = s.data
        /\ t.buffer = s.buffer /\ t.eof
    BY <1>3, <2>1 DEF Stream
  <2>3. ReadReturns(t, c.out)
    BY <1>2, <1>3, <1>5, <2>1 DEF ReadAtEnd
  <2>4. Loaded(t)
    BY <1>3, <2>2 DEF Loaded, InBuffer
  <2>5. Progress(t, c, c.out, c.remaining, failed)
    <3>1. t.error # c.before.error => t.error /\ failed
      BY <1>3, <2>2 DEF Progress
    <3>2. ~ t.error => OnChain(t.data, Objects[t.name])
      BY <1>3, <2>2 DEF Ready
    <3> QED BY <1>3, <2>2, <3>1, <3>2, ProgressStays
  <2>6. CallsInv'
    BY <1>1, <1>2, <1>3, <2>3, <2>4, <2>5, ReturnKeeps
  <2>7. t.data.position = t.data.size
    <3>1. Left(s.data) = 0
      BY <1>2, <1>5 DEF ReadAtEnd
    <3>2. s.data.position \in Nat /\ s.data.size \in Nat
      BY <1>3 DEF Stream, Data
    <3> QED BY <2>2, <3>1, <3>2 DEF Left
  <2>8. Ended(t, c, c.out, c.remaining)
    <3>1. CASE c.op = "fgets"
      BY <1>3, <2>7, <3>1 DEF Ended, WantsMore
    <3>2. CASE c.op = "read"
      <4>1. t.data.position = Before(c)
        BY <1>3, <2>2, <2>5, <3>2, AtStart
      <4> QED BY <2>7, <3>2, <4>1 DEF Ended
    <3> QED BY <1>3, <3>1, <3>2
  <2>9. ReturnsWith(t, c.out, c.remaining, failed)
    BY <1>1, <1>2, <1>3, <2>2, <2>3, <2>5, <2>7, <2>8 DEF ReturnsWith
  <2> QED BY <2>6, <2>9 DEF ReadAdvances
<1> QED BY <1>4, <1>5

\* fat_read turns to its loop, and its loop ends with all that was asked for.
LEMMA LoopKeeps ==
  ASSUME StreamsInv, ReadingNow, ReadStarts \/ CopyReturns
  PROVE  CallsInv' /\ ReadAdvances
<1>1. volume' = volume /\ fault' = fault /\ pc \in {"read", "copy"}
  BY DEF ReadStarts, CopyReturns
<1>2. PICK s, c, failed : s = Current /\ c = call /\ failed = fault
  OBVIOUS
<1>3. /\ s \in Stream /\ s.data \in Data /\ s.opened /\ Ready(s) /\ Loaded(s) /\ CallTyped(c)
      /\ Progress(s, c, c.out, c.remaining, failed) /\ s.eof = c.before.eof
      /\ pc = "copy" => s.data.position < s.data.size
  BY <1>1, <1>2, ReadingFacts DEF Reads
<1>4. CASE CopyReturns
  <2>1. ReadReturns(s, c.out)
    BY <1>2, <1>4 DEF CopyReturns
  <2>2. CallsInv'
    BY <1>1, <1>2, <1>3, <2>1, ReturnKeeps
  <2>3. s.data.position # s.data.size
    <3>1. PICK p, n \in Nat : p = s.data.position /\ n = s.data.size
      BY <1>3 DEF Data
    <3> QED BY <1>3, <1>4, <3>1 DEF CopyReturns
  <2>4. c.remaining = 0 /\ (c.op = "read" \/ c.op = "fgets")
    BY <1>2, <1>4, ReadingFacts DEF CopyReturns
  <2>5. c.out # <<>> \/ c.op = "read"
    BY <1>3, <2>4, ByteRead
  <2>6. ~ WantsMore(c, c.out, c.remaining)
    BY <2>4, <2>5 DEF WantsMore
  <2>7. ReturnsWith(s, c.out, c.remaining, failed)
    BY <1>1, <1>2, <1>3, <2>1, <2>3, <2>4, <2>6 DEF ReturnsWith, Ended
  <2> QED BY <2>2, <2>7 DEF ReadAdvances
<1>5. CASE ReadStarts
  <2>1. /\ Left(s.data) # 0 /\ ~ s.error /\ files' = files /\ call' = c /\ pc' = "copy"
        /\ result' = result
    BY <1>2, <1>5 DEF ReadStarts
  <2>2. s.data.position < s.data.size
    <3>1. PICK p, n \in Nat : p = s.data.position /\ n = s.data.size
      BY <1>3 DEF Data
    <3>2. p <= n /\ n - p # 0
      BY <1>3, <2>1, <3>1 DEF Ready, Left
    <3> QED BY <3>1, <3>2
  <2>3. Reads(s, c, "copy", failed)
    BY <1>3, <2>1, <2>2 DEF Reads
  <2>4. /\ files \in [Handles -> Stream] /\ call.stream \in Handles /\ ReadyBut(call.stream)
    BY ReadingFacts
  <2>5. files' = [files EXCEPT ![call.stream] = s] /\ c.stream = call.stream
    BY <1>2, <2>1, <2>4 DEF Current
  <2>6. CallsInv'
    BY <1>1, <1>2, <1>3, <2>1, <2>3, <2>4, <2>5, ReadKeeps
  <2>7. GoesOnIn(s)
    BY <1>2, <1>3, <2>1, <2>5 DEF GoesOnIn, Becomes
  <2> QED BY <2>6, <2>7 DEF ReadAdvances
<1> QED BY <1>4, <1>5

\* One turn of the loop takes at least a byte, and none behind the sector or the file.
LEMMA TurnBounds ==
  ASSUME volume \in Volumes, NEW p \in Nat, NEW size \in Nat, p < size,
         NEW remaining \in Nat \ {0}, NEW at, at = Offset(p),
         NEW n, n = Smallest({remaining, SectorSize - at, size - p})
  PROVE  /\ at \in 0..SectorSize - 1 /\ n \in Nat \ {0} /\ at + n <= SectorSize
         /\ p + n <= size /\ n <= remaining
<1>1. at \in 0..SectorSize - 1 /\ SectorSize \in Nat \ {0}
  BY FileAssumption, DivMod DEF Offset
<1>2. PICK a, b \in Nat \ {0} : a = SectorSize - at /\ b = size - p
  <2>1. SectorSize - at \in Nat \ {0} /\ size - p \in Nat \ {0}
    BY <1>1
  <2> QED BY <2>1
<1>3. remaining \in Nat /\ n = Smallest({remaining, a, b})
  BY <1>2
<1>4. n \in {remaining, a, b} /\ n <= remaining /\ n <= a /\ n <= b
  BY <1>3, SmallestOfThree
<1>5. n \in Nat \ {0}
  BY <1>2, <1>4
<1>6. at + n <= SectorSize /\ p + n <= size
  BY <1>1, <1>2, <1>4, <1>5
<1> QED BY <1>1, <1>4, <1>5, <1>6

\* What is delivered stays in step with the position.
LEMMA TurnDelivers ==
  ASSUME volume \in Volumes, NEW s, NEW c, NEW remaining \in Nat \ {0}, NEW out, NEW failed,
         CallTyped(c), Progress(s, c, out, remaining, failed), Loaded(s), ~ s.error,
         s.data.position < s.data.size,
         NEW n \in Nat \ {0}, n <= remaining,
         Offset(s.data.position) + n <= SectorSize,
         s.data.position + n <= s.data.size,
         NEW more, more = SubSeq(s.buffer.bytes, Offset(s.data.position) + 1,
                                 Offset(s.data.position) + n),
         NEW t \in Stream, t.opened, t.error = s.error, t.name = s.name,
         t.data.position = s.data.position + n, t.data.size = s.data.size,
         OnChain(t.data, Objects[t.name])
  PROVE  /\ Progress(t, c, out \o more, remaining - n, failed)
         /\ c.op = "fgets" => remaining - n = 0
<1>1. PICK path, text, p, from :
        path = s.name /\ text = Contents(s) /\ p = s.data.position /\ from = Before(c)
  OBVIOUS
<1>2. /\ path \in DOMAIN volume.contents /\ text = volume.contents[path]
      /\ text \in Seq(Characters) /\ Len(text) \in Nat /\ s.data.size = Len(text)
      /\ p \in Nat /\ from \in Nat /\ from <= p /\ p < Len(text) /\ p + n <= Len(text)
  <2>1. s \in Stream /\ Ready(s) /\ c.before \in Stream /\ Before(c) <= s.data.position
    BY DEF Progress, CallTyped
  <2>2. path \in DOMAIN volume.contents /\ s.data.size = Len(text)
    BY <1>1, <2>1 DEF Ready
  <2>3. text = volume.contents[path] /\ text \in Seq(Characters) /\ Len(text) \in Nat
    BY <1>1, <2>2, FileFacts DEF Contents
  <2>4. p \in Nat /\ from \in Nat
    BY <1>1, <2>1 DEF Stream, Data, Before
  <2> QED BY <1>1, <2>1, <2>2, <2>3, <2>4
<1>3. more = SubSeq(text, p + 1, p + n)
  <2>1. PICK k, q \in Nat : k = n /\ q = p
    BY <1>2
  <2>2. PICK file \in DOMAIN volume.contents : file = path
    BY <1>2
  <2>3. PICK bytes : bytes = volume.image[SectorLba(volume, volume.objects[file], q)].bytes
    OBVIOUS
  <2>4. s.buffer.bytes = bytes
    BY <1>1, <2>1, <2>2, <2>3 DEF Loaded, InBuffer, Objects
  <2>5. /\ Offset(q) + k <= SectorSize /\ q < Len(text) /\ q + k <= Len(text)
        /\ text = volume.contents[file]
    BY <1>1, <1>2, <2>1, <2>2
  <2>6. HasBytes(bytes, text, q, k)
    BY <2>3, <2>5, SectorHasBytes
  <2> QED BY <1>1, <2>1, <2>4, <2>6 DEF HasBytes
<1>4. /\ t.data.position = p + n /\ Contents(t) = text /\ p + n \in Nat
      /\ t.data.size = Len(text) /\ Ready(t)
  <2>1. t.data.position = p + n /\ Contents(t) = text /\ p + n \in Nat /\ t.data.size = Len(text)
    BY <1>1, <1>2 DEF Contents
  <2>2. t.name \in DOMAIN volume.contents
    BY <1>1, <1>2
  <2> QED BY <1>2, <2>1, <2>2 DEF Ready
<1>5. ASSUME c.op = "read" PROVE ReadBytes(t, c, out \o more, remaining - n)
  <2>1. /\ c.line = <<>> /\ out = SubSeq(text, from + 1, p) /\ remaining = c.size - (p - from)
    BY <1>1, <1>5 DEF Progress, ReadBytes
  <2>2. out \o more = SubSeq(text, from + 1, p + n)
    <3>1. PICK q \in Nat : q = p + n
      BY <1>2
    <3>2. from <= p /\ p <= q /\ q <= Len(text)
      BY <1>2, <3>1
    <3>3. SubSeq(text, from + 1, p) \o SubSeq(text, p + 1, q) = SubSeq(text, from + 1, q)
      BY <1>2, <3>2, PartsJoin
    <3> QED BY <1>3, <2>1, <3>1, <3>3
  <2>3. remaining - n = c.size - ((p + n) - from)
    <3>1. PICK size \in Nat : size = c.size
      BY DEF CallTyped
    <3> QED BY <1>2, <2>1, <3>1
  <2> QED BY <1>1, <1>4, <2>1, <2>2, <2>3 DEF ReadBytes
<1>6. ASSUME c.op # "read"
      PROVE  LineBytes(t, c, out \o more, remaining - n) /\ remaining - n = 0
  <2>1. LineBytes(s, c, out, remaining)
    BY <1>6 DEF Progress
  <2>2. remaining = 1 /\ out = <<>> /\ p = from + Len(c.line)
    BY <1>1, <2>1 DEF LineBytes
  <2>3. n = 1
    BY <2>2
  <2>4. p + 1 \in 1..Len(text) /\ (p + 1) - 1 = p
    BY <1>2
  <2>5. SubSeq(text, p + 1, p + 1) = SubSeq(text, p + 1, (p + 1) - 1) \o <<text[p + 1]>>
    BY <1>2, <2>4, SubSeqRecursiveSecond
  <2>6. SubSeq(text, p + 1, p) = <<>>
    BY <1>2, PartEmpty
  <2>7. text[p + 1] \in Characters
    BY <1>2, <2>4, ElementOfSeq
  <2>8. PICK byte \in Characters : byte = text[p + 1]
    BY <2>7
  <2>9. <<byte>> \in Seq(Characters)
    OBVIOUS
  <2>10. more = <<byte>>
    BY <1>3, <2>3, <2>4, <2>5, <2>6, <2>8, <2>9, ConcatEmptySeq
  <2>11. out \o more = <<byte>>
    BY <2>2, <2>9, <2>10, ConcatEmptySeq
  <2>12. /\ remaining - n = 0 /\ out \o more = <<Contents(t)[t.data.position]>>
         /\ t.data.position = Before(c) + Len(c.line) + 1
    <3>1. remaining - n = 0
      BY <2>2, <2>3
    <3> QED BY <1>1, <1>4, <2>2, <2>3, <2>8, <2>11, <3>1
  <2> QED BY <1>1, <1>4, <2>1, <2>12 DEF LineBytes
<1>7. ~ c.before.error
  BY DEF Progress
<1>8. Before(c) <= t.data.position
  BY <1>1, <1>2, <1>4
<1>9. Progress(t, c, out \o more, remaining - n, failed)
  BY <1>1, <1>4, <1>5, <1>6, <1>7, <1>8 DEF Progress
<1> QED BY <1>6, <1>9

\* The next byte after n of a sector is in the same sector, if the sector has more.
LEMMA StaysLoaded ==
  ASSUME volume \in Volumes, NEW s, Loaded(s), ~ s.error, s.data.position < s.data.size,
         s.data.position \in Nat, NEW n \in Nat, Offset(s.data.position) + n < SectorSize,
         NEW t, t.buffer = s.buffer, t.name = s.name, t.data.position = s.data.position + n
  PROVE  Loaded(t)
<1>1. PICK p, q \in Nat : p = s.data.position /\ q = p + n
  OBVIOUS
<1>2. Offset(q) = Offset(p) + n /\ q \div SectorSize = p \div SectorSize
  BY <1>1, OffsetInSector
<1>3. PICK object : object = Objects[s.name]
  OBVIOUS
<1>4. SectorLba(volume, object, q) = SectorLba(volume, object, p)
  BY <1>2 DEF SectorLba, Offset
<1>5. t.data.position = q /\ s.buffer = volume.image[SectorLba(volume, object, p)]
  BY <1>1, <1>3 DEF Loaded, InBuffer
<1> QED BY <1>3, <1>4, <1>5 DEF Loaded, InBuffer

\* What is copied are bytes.
LEMMA BytesCopied ==
  ASSUME volume \in Volumes, NEW s, Ready(s), Loaded(s), ~ s.error,
         s.data.position \in Nat, s.data.position < s.data.size,
         NEW a \in Nat, NEW b \in Nat, a <= b, b <= SectorSize
  PROVE  SubSeq(s.buffer.bytes, a + 1, b) \in Seq(Characters)
<1>1. PICK path \in DOMAIN volume.contents : path = s.name
  BY DEF Ready
<1>2. PICK p \in Nat : p = s.data.position
  OBVIOUS
<1>3. p < Len(volume.contents[path])
  BY <1>1, <1>2 DEF Ready, Contents
<1>4. PICK sector : sector = volume.image[SectorLba(volume, volume.objects[path], p)]
  OBVIOUS
<1>5. sector.bytes \in Seq(Characters) /\ Len(sector.bytes) = SectorSize
  BY <1>3, <1>4, ByteFacts
<1>6. s.buffer = sector
  BY <1>1, <1>2, <1>4 DEF Loaded, InBuffer, Objects
<1>7. PICK bytes \in Seq(Characters) : bytes = s.buffer.bytes
  BY <1>5, <1>6
<1>8. b <= Len(bytes)
  BY <1>5, <1>6, <1>7
<1>9. SubSeq(bytes, a + 1, b) \in Seq(Characters)
  BY <1>8, PartOf
<1> QED BY <1>7, <1>9

\* A turn of the loop: fat_read returns, has more in this sector, or loads the next.
LEMMA CopyKeeps ==
  ASSUME StreamsInv, ReadingNow, Copy
  PROVE  CallsInv' /\ ReadAdvances
<1>1. pc = "copy" /\ call.remaining > 0 /\ volume' = volume /\ fault' = fault
  BY DEF Copy
<1>2. PICK s, c, failed : s = Current /\ c = call /\ failed = fault
  OBVIOUS
<1>3. PICK d, path : d = s.data /\ path = s.name
  OBVIOUS
<1>4. /\ volume \in Volumes /\ s \in Stream /\ d \in Data /\ s.opened /\ Ready(s) /\ Loaded(s)
      /\ CallTyped(c) /\ Progress(s, c, c.out, c.remaining, failed) /\ s.eof = c.before.eof
      /\ ~ s.error /\ d.position < d.size
  BY <1>1, <1>2, <1>3, ReadingFacts DEF Reads
<1>5. /\ path \in DOMAIN Objects /\ OnChain(d, Objects[path])
  BY <1>3, <1>4, FileFacts DEF Ready, Objects
<1>6. PICK p, size \in Nat : p = d.position /\ size = d.size
  BY <1>4 DEF Data
<1>7. PICK remaining \in Nat \ {0} : remaining = c.remaining
  <2>1. c.remaining \in Nat
    BY <1>4 DEF CallTyped
  <2> QED BY <1>1, <1>2, <2>1
<1>8. PICK at, n : at = Offset(p) /\ n = Smallest({remaining, SectorSize - at, size - p})
  OBVIOUS
<1>9. /\ at \in 0..SectorSize - 1 /\ n \in Nat \ {0} /\ at + n <= SectorSize
      /\ p + n <= size /\ n <= remaining
  BY <1>4, <1>6, <1>8, TurnBounds, ZenonT(90)
<1>10. ToRead(d, SectorSize - at) = n
  BY <1>2, <1>6, <1>7, <1>8 DEF ToRead, Left
<1>11. PICK more, out : more = SubSeq(s.buffer.bytes, at + 1, at + n) /\ out = c.out \o more
  OBVIOUS
<1>12. PICK moved : moved = [d EXCEPT !.position = @ + n]
  OBVIOUS
<1>13. /\ moved \in Data /\ moved.position = p + n /\ moved.size = size
       /\ OnChain(moved, Objects[path])
  <2>1. moved = [first |-> d.first, current |-> d.current, index |-> d.index,
                 position |-> p + n, size |-> d.size, directory |-> d.directory]
    BY <1>4, <1>6, <1>12 DEF Data
  <2> QED BY <1>4, <1>5, <1>6, <1>9, <2>1 DEF Data, OnChain
<1>14. PICK left : left = size - (p + n)
  OBVIOUS
<1>15. Left(moved) = left /\ (left # 0 => p + n < size)
  BY <1>6, <1>9, <1>13, <1>14 DEF Left
<1>16. ASSUME NEW t \in Stream, t.opened, t.error = s.error, t.name = path,
              t.data.position = p + n, t.data.size = size, OnChain(t.data, Objects[path])
       PROVE  /\ Progress(t, c, out, remaining - n, failed)
              /\ c.op = "fgets" => remaining - n = 0
  <2>1. /\ s.data.position < s.data.size /\ Offset(s.data.position) + n <= SectorSize
        /\ s.data.position + n <= s.data.size
        /\ more = SubSeq(s.buffer.bytes, Offset(s.data.position) + 1, Offset(s.data.position) + n)
    BY <1>3, <1>4, <1>6, <1>8, <1>9, <1>11
  <2>2. /\ t.name = s.name /\ t.data.position = s.data.position + n /\ t.data.size = s.data.size
        /\ OnChain(t.data, Objects[t.name])
    BY <1>3, <1>6, <1>16
  <2>3. PICK begun : begun = c.out
    OBVIOUS
  <2>4. Progress(s, c, begun, remaining, failed)
    BY <1>4, <1>7, <2>3
  <2>5. /\ Progress(t, c, begun \o more, remaining - n, failed)
        /\ c.op = "fgets" => remaining - n = 0
    BY <1>4, <1>9, <1>16, <2>1, <2>2, <2>4, TurnDelivers
  <2> QED BY <1>11, <2>3, <2>5
<1>17. \/ /\ left = 0
          /\ ReadReturns([s EXCEPT !.data = moved, !.eof = @ \/ remaining - n > 0], out)
       \/ /\ left # 0
          /\ call' = [c EXCEPT !.remaining = remaining - n, !.out = out] /\ result' = result
          /\ \/ /\ n >= SectorSize - at /\ Becomes([s EXCEPT !.data = Rewound(moved)])
                /\ pc' = "load"
             \/ /\ n < SectorSize - at /\ Becomes([s EXCEPT !.data = moved])
                /\ pc' = "copy"
  <2>1. p % SectorSize = at
    BY <1>8 DEF Offset
  <2> QED BY <1>2, <1>3, <1>6, <1>7, <1>10, <1>11, <1>12, <1>15, <2>1 DEF Copy
<1>18. ASSUME left = 0,
              ReadReturns([s EXCEPT !.data = moved, !.eof = @ \/ remaining - n > 0], out)
       PROVE  CallsInv' /\ ReadAdvances
  <2>1. PICK e : e = (s.eof \/ remaining - n > 0)
    OBVIOUS
  <2>2. PICK t : t = [s EXCEPT !.data = moved, !.eof = e]
    OBVIOUS
  <2>3. /\ t \in Stream /\ t.data = moved /\ t.opened = s.opened /\ t.error = s.error
        /\ t.eof = e /\ t.name = path
    <3>1. e \in BOOLEAN /\ moved.position <= moved.size
      BY <1>4, <1>9, <1>13, <2>1 DEF Stream
    <3> QED BY <1>3, <1>4, <1>13, <2>2, <3>1 DEF Stream
  <2>4. ReadReturns(t, out)
    BY <1>4, <1>18, <2>1, <2>2 DEF Stream
  <2>5. PICK rest : rest = remaining - n
    OBVIOUS
  <2>6. Progress(t, c, out, rest, failed) /\ (c.op = "fgets" => rest = 0)
    BY <1>4, <1>13, <1>16, <2>3, <2>5
  <2>7. Loaded(t)
    <3>1. moved.position = moved.size
      BY <1>6, <1>9, <1>13, <1>14, <1>18
    <3> QED BY <1>6, <1>13, <2>3, <3>1 DEF Loaded
  <2>8. c.op = "fgets" => t.eof = c.before.eof
    BY <1>4, <2>1, <2>3, <2>5, <2>6 DEF Stream
  <2>9. CallsInv'
    BY <1>1, <1>2, <2>4, <2>6, <2>7, <2>8, ReturnKeeps
  <2>10. t.data.position = t.data.size /\ rest \in Nat
    BY <1>6, <1>9, <1>13, <1>14, <1>18, <2>3, <2>5
  <2>11. t.eof <=> c.before.eof \/ Ended(t, c, out, rest)
    <3>1. CASE c.op = "fgets"
      <4>1. out # <<>>
        BY <2>6, <3>1, ByteRead
      <4>2. ~ Ended(t, c, out, rest)
        BY <3>1, <4>1 DEF Ended, WantsMore
      <4> QED BY <2>8, <3>1, <4>2
    <3>2. CASE c.op = "read"
      <4>1. t.data.position # Before(c)
        <5>1. Before(c) <= p
          BY <1>3, <1>4, <1>6 DEF Progress
        <5>2. PICK from \in Nat : from = Before(c)
          <6>1. c.before \in Stream
            BY <1>4 DEF CallTyped
          <6> QED BY <6>1 DEF Before, Stream, Data
        <5> QED BY <1>9, <1>13, <2>3, <5>1, <5>2
      <4>2. Ended(t, c, out, rest) <=> rest > 0
        BY <2>10, <3>2, <4>1 DEF Ended, WantsMore
      <4>3. t.eof <=> s.eof \/ rest > 0
        BY <2>1, <2>3, <2>5
      <4> QED BY <1>4, <4>2, <4>3
    <3> QED BY <1>2, <3>1, <3>2, ReadingFacts
  <2>12. ReturnsWith(t, out, rest, failed)
    BY <1>1, <1>2, <2>4, <2>6, <2>10, <2>11 DEF ReturnsWith
  <2> QED BY <2>9, <2>12 DEF ReadAdvances
<1>19. PICK after : after = [c EXCEPT !.remaining = remaining - n, !.out = out]
  OBVIOUS
<1>20. /\ CallTyped(after) /\ after.out = out /\ after.remaining = remaining - n
       /\ after.op = c.op /\ after.line = c.line /\ after.size = c.size
       /\ after.before = c.before /\ after.stream = c.stream
  <2>1. c \in [op : {"read", "fgets"}, stream : Handles, size : Nat, remaining : Nat,
              out : Seq(Characters), line : Seq(Characters), after : {"copy"}, before : Stream]
    BY <1>4 DEF CallTyped
  <2>2. after = [op |-> c.op, stream |-> c.stream, size |-> c.size, remaining |-> remaining - n,
                 out |-> out, line |-> c.line, after |-> c.after, before |-> c.before]
    BY <1>19, <2>1
  <2>3. out \in Seq(Characters)
    <3>1. PICK a, b \in Nat : a = at /\ b = at + n
      BY <1>9
    <3>2. more \in Seq(Characters)
      <4>1. a <= b /\ b <= SectorSize
        BY <1>9, <3>1
      <4>2. s.data.position \in Nat /\ s.data.position < s.data.size
        BY <1>3, <1>4, <1>6
      <4>3. SubSeq(s.buffer.bytes, a + 1, b) \in Seq(Characters)
        BY <1>4, <4>1, <4>2, BytesCopied
      <4> QED BY <1>11, <3>1, <4>3
    <3>3. c.out \in Seq(Characters)
      BY <2>1
    <3> QED BY <1>11, <3>2, <3>3, ConcatProperties
  <2>4. remaining - n \in Nat
    BY <1>9
  <2> QED BY <1>4, <2>1, <2>2, <2>3, <2>4 DEF CallTyped
<1>21. ASSUME left # 0, call' = after, result' = result, NEW t \in Stream, t.opened, t.error = s.error,
              t.eof = s.eof, t.name = path, t.data.position = p + n, t.data.size = size,
              OnChain(t.data, Objects[path]), Becomes(t),
              NEW next \in {"load", "copy"}, pc' = next,
              IF next = "load" THEN t.data.index <= TargetCluster(t.data) ELSE Loaded(t)
       PROVE  CallsInv' /\ ReadAdvances
  <2>1. Progress(t, c, out, remaining - n, failed)
    BY <1>16, <1>21
  <2>2. Progress(t, after, after.out, after.remaining, failed)
    BY <1>20, <2>1 DEF Progress, Before, ReadBytes, LineBytes
  <2>3. Reads(t, after, next, failed)
    BY <1>4, <1>15, <1>20, <1>21, <2>2 DEF Reads
  <2>4. /\ files \in [Handles -> Stream] /\ call.stream \in Handles /\ ReadyBut(call.stream)
        /\ files' = [files EXCEPT ![call.stream] = t] /\ after.stream = call.stream
    BY <1>2, <1>20, <1>21, ReadingFacts DEF Becomes
  <2>5. CallsInv'
    BY <1>1, <1>2, <1>21, <2>3, <2>4, ReadKeeps
  <2>6. GoesOnIn(t)
    BY <1>2, <1>4, <1>20, <1>21 DEF GoesOnIn
  <2> QED BY <2>5, <2>6 DEF ReadAdvances
<1>22. ASSUME left # 0, call' = after, result' = result, n >= SectorSize - at,
              Becomes([s EXCEPT !.data = Rewound(moved)]), pc' = "load"
       PROVE  CallsInv' /\ ReadAdvances
  <2>1. PICK e : e = Rewound(moved)
    OBVIOUS
  <2>2. /\ e \in Data /\ OnChain(e, Objects[path]) /\ e.position = p + n /\ e.size = size
        /\ e.index <= TargetCluster(e)
    BY <1>4, <1>5, <1>13, <2>1, RewoundFacts
  <2>3. PICK t : t = [s EXCEPT !.data = e]
    OBVIOUS
  <2>4. /\ t \in Stream /\ t.data = e /\ t.opened = s.opened /\ t.error = s.error
        /\ t.eof = s.eof /\ t.name = path
    BY <1>3, <1>4, <1>9, <2>2, <2>3 DEF Stream
  <2>5. Becomes(t)
    BY <1>22, <2>1, <2>3
  <2> QED BY <1>4, <1>21, <1>22, <2>2, <2>4, <2>5
<1>23. ASSUME left # 0, call' = after, result' = result, n < SectorSize - at,
              Becomes([s EXCEPT !.data = moved]), pc' = "copy"
       PROVE  CallsInv' /\ ReadAdvances
  <2>1. PICK t : t = [s EXCEPT !.data = moved]
    OBVIOUS
  <2>2. /\ t \in Stream /\ t.data = moved /\ t.opened = s.opened /\ t.error = s.error
        /\ t.eof = s.eof /\ t.name = path /\ t.buffer = s.buffer
    BY <1>3, <1>4, <1>9, <1>13, <2>1 DEF Stream
  <2>3. Loaded(t)
    <3>1. Offset(s.data.position) + n < SectorSize
      BY <1>3, <1>6, <1>8, <1>9, <1>23, FileAssumption
    <3>2. /\ s.data.position < s.data.size /\ s.data.position \in Nat /\ t.name = s.name
          /\ t.data.position = s.data.position + n
      BY <1>3, <1>4, <1>6, <1>13, <2>2
    <3> QED BY <1>4, <1>9, <2>2, <3>1, <3>2, StaysLoaded
  <2> QED BY <1>4, <1>13, <1>21, <1>23, <2>1, <2>2, <2>3
<1> QED BY <1>17, <1>18, <1>19, <1>22, <1>23

\* A step of fread, fgetc or fgets.
LEMMA ReadingGoesOn ==
  ASSUME StreamsInv, ReadingNow, Runs
  PROVE  CallsInv' /\ ReadAdvances
<1>1. pc \in {"load", "read", "copy"}
  BY ReadingFacts DEF Reads
<1>2. CASE WalkCached \/ WalkReads \/ WalkFails
  BY <1>2, WalkReading
<1>3. CASE FillReads \/ FillFails
  BY <1>3, FillReading
<1>4. CASE ReadAtEnd \/ ReadAfterError
  BY <1>4, HeadReturns
<1>5. CASE ReadStarts \/ CopyReturns
  BY <1>5, LoopKeeps
<1>6. CASE Copy
  BY <1>6, CopyKeeps
<1> QED BY <1>1, <1>2, <1>3, <1>4, <1>5, <1>6
        DEF Runs, OpenReturns, SearchRefuses, SearchFinds, SearchEnds, SearchRepeats, Searches

-----------------------------------------------------------------------------
(* The theorems.                                                           *)

LEMMA StreamsBegin == Init => StreamsInv
<1> SUFFICES ASSUME Init PROVE StreamsInv
  OBVIOUS
<1>1. volume \in Volumes /\ 0 \in DOMAIN volume.image
  BY VolumeFacts DEF Init
<1>2. CacheInv
  BY <1>1 DEF Init, CacheInv, FatBufferIsItsSector, Buffers
<1>3. files \in [Handles -> Stream] /\ \A h \in Handles : ~ files[h].opened
  BY ClosedStream DEF Init
<1>4. pc = "idle" /\ call = NoCall
  BY DEF Init
<1> QED BY <1>2, <1>3, <1>4
        DEF StreamsInv, CallsInv, OthersReady, OpenInv, ReadInv, Opening, ReadingNow, UnderWay

LEMMA StreamsStep == StreamsInv /\ [Next]_vars => StreamsInv'
<1> SUFFICES ASSUME StreamsInv, [Next]_vars PROVE StreamsInv'
  OBVIOUS
<1>1. CacheInv'
  BY CacheKept DEF StreamsInv
<1>2. CASE Calls
  BY <1>1, <1>2, CallingKeeps DEF StreamsInv
<1>3. CASE Runs
  <2>1. pc # "idle"
    BY <1>3 DEF Runs, WalkCached, WalkReads, WalkFails, Walks, FillReads, FillFails, Fills,
                OpenReturns, SearchRefuses, SearchFinds, SearchEnds, SearchRepeats, Searches,
                ReadAtEnd, ReadAfterError, ReadStarts, CopyReturns, Copy
  <2>2. Opening \/ ReadingNow
    BY <2>1 DEF Opening, ReadingNow, UnderWay
  <2>3. CallsInv'
    BY <1>3, <2>2, OpeningKeeps, ReadingGoesOn
  <2> QED BY <1>1, <2>3 DEF StreamsInv
<1>4. CASE UNCHANGED vars
  <2>1. UNCHANGED <<volume, files, pc, call, fault>>
    BY <1>4 DEF vars
  <2> QED BY <1>1, <2>1, CallsStutter DEF StreamsInv
<1> QED BY <1>2, <1>3, <1>4 DEF Next

(***************************************************************************)
(* Whatever files are opened, read and closed, in whatever order, and      *)
(* whichever sector reads fail: open streams stay on their chains, the     *)
(* search for a name stays on the path of the name, and what a read has    *)
(* delivered is what its position has passed.                              *)
(***************************************************************************)
THEOREM StreamsStayInOrder == Spec => []StreamsInv
<1> QED BY StreamsBegin, StreamsStep, PTL DEF Spec

(***************************************************************************)
(* The next byte of a stream is in its buffer between calls, although the  *)
(* position runs ahead of the buffer within one, and although other        *)
(* streams, and searches, load sectors and FAT sectors in between.         *)
(***************************************************************************)
THEOREM BuffersCorrect == Spec => []BufferHoldsPosition
<1>1. StreamsInv => BufferHoldsPosition
  <2> SUFFICES ASSUME StreamsInv, pc = "idle", NEW h \in Handles, files[h].opened, ~ files[h].error,
                      files[h].data.position < Len(volume.contents[files[h].name])
               PROVE  LET s == files[h]
                          bytes == volume.contents[s.name]
                      IN  s.buffer.bytes[(s.data.position % SectorSize) + 1]
                            = bytes[s.data.position + 1]
    BY DEF BufferHoldsPosition
  <2>1. PICK s : s = files[h]
    OBVIOUS
  <2>2. s \in Stream /\ Ready(s) /\ Loaded(s) /\ volume \in Volumes /\ s.opened /\ ~ s.error
    BY <2>1, IdleFacts
  <2>3. PICK path \in DOMAIN volume.contents : path = s.name
    BY <2>2 DEF Ready
  <2>4. PICK p \in Nat : p = s.data.position
    BY <2>2 DEF Stream, Data
  <2>5. p < Len(volume.contents[path]) /\ s.data.size = Len(volume.contents[path])
    BY <2>1, <2>2, <2>3, <2>4 DEF Ready, Contents
  <2>6. PICK sector : sector = volume.image[SectorLba(volume, volume.objects[path], p)]
    OBVIOUS
  <2>7. sector.bytes[(p % SectorSize) + 1] = volume.contents[path][p + 1]
    BY <2>2, <2>5, <2>6, ByteFacts
  <2>8. s.buffer = sector
    BY <2>2, <2>3, <2>4, <2>5, <2>6 DEF Loaded, InBuffer, Objects
  <2> QED BY <2>1, <2>3, <2>4, <2>7, <2>8
<1> QED BY <1>1, StreamsStayInOrder, PTL

(* The variables keep their types. *)
THEOREM StreamsTyped == Spec => []TypeOK
<1>1. StreamsInv => TypeOK
  <2> SUFFICES ASSUME StreamsInv PROVE TypeOK
    OBVIOUS
  <2>1. /\ volume \in Volumes /\ fatSector \in DOMAIN volume.image /\ fatBuffer \in Buffers
        /\ fault \in BOOLEAN /\ (pc = "idle" <=> call = NoCall)
    BY DEF StreamsInv, CacheInv, CallsInv
  <2>2. pc \in {"idle", "load", "component", "read", "copy"}
    BY DEF StreamsInv, CallsInv, OpenInv, ReadInv, Opening, ReadingNow, UnderWay, Reads
  <2>3. ASSUME NEW h \in Handles
        PROVE  /\ {files[h].opened, files[h].error, files[h].eof} \subseteq BOOLEAN
               /\ files[h].buffer \in Buffers
               /\ files[h].data \in [first : Nat, current : Nat, index : Nat, position : Nat,
                                     size : Nat, directory : BOOLEAN]
               /\ files[h].data.position <= files[h].data.size \/ files[h].data.directory
               /\ files[h].name \in Paths \cup {<<>>}
    <3>1. files[h] \in Stream
      BY DEF StreamsInv, CallsInv
    <3> QED BY <3>1 DEF Stream, Data
  <2> QED BY <2>1, <2>2, <2>3 DEF TypeOK
<1> QED BY <1>1, StreamsStayInOrder, PTL

-----------------------------------------------------------------------------
(* The streams implement ByteFiles: what a program sees of them are files  *)
(* of bytes, with no clusters, sectors or buffers.                         *)


\* What a program sees of a stream.
Seen(s) == [name |-> s.name, position |-> s.data.position, error |-> s.error, eof |-> s.eof]

\* A stream is seen as the read under way has found it.
Visible(h) == IF ReadingNow /\ call.stream = h THEN call.before ELSE files[h]

OpenHandles == {h \in Handles : files[h].opened}

BytesStep == [Bytes!Next]_(Bytes!vars)

-----------------------------------------------------------------------------
(* The view of the streams.                                                *)

LEMMA OpenStreamsIs == OpenStreams = [h \in OpenHandles |-> Seen(Visible(h))]
BY DEF OpenStreams, OpenHandles, Seen, Visible, ReadingNow, UnderWay

LEMMA OpenStreamsWillBe == OpenStreams' = [h \in OpenHandles' |-> Seen(Visible(h)')]
BY OpenStreamsIs DEF OpenStreams, OpenHandles, Seen, Visible, ReadingNow, UnderWay

\* What is seen does not change.
LEMMA SameView ==
  ASSUME OpenHandles' = OpenHandles, \A h \in OpenHandles : Seen(Visible(h)') = Seen(Visible(h))
  PROVE  OpenStreams' = OpenStreams
BY OpenStreamsIs, OpenStreamsWillBe

\* Nothing is seen but a failure of the disk.
LEMMA Unseen ==
  ASSUME volume' = volume, OpenStreams' = OpenStreams, result' = result,
         fault \in BOOLEAN, fault' \in {fault, TRUE}
  PROVE  BytesStep
<1>1. CASE fault' = fault
  BY <1>1 DEF BytesStep, Bytes!vars
<1>2. CASE fault' = TRUE
  BY <1>2 DEF BytesStep, Bytes!Next, Bytes!DiskFails
<1> QED BY <1>1, <1>2

LEMMA Begins == Init => Bytes!Init
<1> SUFFICES ASSUME Init PROVE Bytes!Init
  OBVIOUS
<1>1. OpenHandles = {}
  BY DEF Init, OpenHandles, Closed
<1>2. OpenStreams = <<>>
  <2>1. PICK f : f = OpenStreams
    OBVIOUS
  <2>2. f \in [{} -> {}]
    BY <1>1, <2>1, OpenStreamsIs
  <2>3. f \in Seq({}) /\ Len(f) = 0
    BY <2>2
  <2> QED BY <2>1, <2>3, EmptySeq
<1> QED BY <1>2 DEF Init, Bytes!Init, NoResult, Bytes!NoResult

\* A stream that is not open is not seen.
LEMMA HiddenView ==
  ASSUME ~ ReadingNow, ~ ReadingNow', NEW k \in Handles, ~ files[k].opened, NEW s, ~ s.opened,
         files \in [Handles -> Stream], files' = [files EXCEPT ![k] = s]
  PROVE  OpenStreams' = OpenStreams
<1>1. files'[k] = s /\ \A h \in Handles : h # k => files'[h] = files[h]
  OBVIOUS
<1>2. OpenHandles' = OpenHandles
  BY <1>1 DEF OpenHandles, Handles
<1>3. \A h \in OpenHandles : Seen(Visible(h)') = Seen(Visible(h))
  BY <1>1 DEF OpenHandles, Visible
<1> QED BY <1>2, <1>3, SameView

\* A stream that is being read is seen as it was.
LEMMA ReadingView ==
  ASSUME ReadingNow, ReadingNow', NEW k \in Handles, k = call.stream, files[k].opened,
         NEW s, s.opened, files \in [Handles -> Stream], files' = [files EXCEPT ![k] = s],
         call'.stream = k, call'.before = call.before
  PROVE  OpenStreams' = OpenStreams
<1>1. files'[k] = s /\ \A h \in Handles : h # k => files'[h] = files[h]
  OBVIOUS
<1>2. OpenHandles' = OpenHandles
  BY <1>1 DEF OpenHandles, Handles
<1>3. \A h \in OpenHandles : Seen(Visible(h)') = Seen(Visible(h))
  BY <1>1 DEF OpenHandles, Visible
<1> QED BY <1>2, <1>3, SameView

\* A read begins: the stream is seen as the read finds it.
LEMMA BeginView ==
  ASSUME ~ ReadingNow, ReadingNow', files' = files, call'.before = files[call'.stream]
  PROVE  OpenStreams' = OpenStreams
<1>1. OpenHandles' = OpenHandles
  BY DEF OpenHandles, Handles
<1>2. \A h \in OpenHandles : Seen(Visible(h)') = Seen(Visible(h))
  BY DEF OpenHandles, Visible
<1> QED BY <1>1, <1>2, SameView

\* A read returns: what it has done is seen at once.
LEMMA ReturnView ==
  ASSUME ReadingNow, ~ ReadingNow', NEW k \in Handles, k = call.stream, files[k].opened,
         NEW s, s.opened, files \in [Handles -> Stream], files' = [files EXCEPT ![k] = s],
         NEW open, open = OpenStreams
  PROVE  /\ k \in DOMAIN open /\ open[k] = Seen(call.before)
         /\ OpenStreams' = [open EXCEPT ![k] = Seen(s)]
<1>1. files'[k] = s /\ \A h \in Handles : h # k => files'[h] = files[h]
  OBVIOUS
<1>2. OpenHandles' = OpenHandles /\ k \in OpenHandles
  BY <1>1 DEF OpenHandles, Handles
<1>3. Visible(k) = call.before /\ Visible(k)' = s
  BY <1>1 DEF Visible
<1>4. \A h \in OpenHandles : h # k => Visible(h)' = Visible(h)
  BY <1>1 DEF OpenHandles, Visible
<1> QED BY <1>2, <1>3, <1>4, OpenStreamsIs, OpenStreamsWillBe

\* One stream more, and one fewer.
More(open, k, seen) == [g \in DOMAIN open \cup {k} |-> IF g = k THEN seen ELSE open[g]]
Fewer(open, k) == [g \in DOMAIN open \ {k} |-> open[g]]

\* fopen returns.
LEMMA OpenedView ==
  ASSUME ~ ReadingNow, ~ ReadingNow', NEW k \in Handles, ~ files[k].opened, NEW s, s.opened,
         files \in [Handles -> Stream], files' = [files EXCEPT ![k] = s],
         NEW open, open = OpenStreams
  PROVE  k \notin DOMAIN open /\ OpenStreams' = More(open, k, Seen(s))
<1>1. files'[k] = s /\ \A h \in Handles : h # k => files'[h] = files[h]
  OBVIOUS
<1>2. OpenHandles' = OpenHandles \cup {k} /\ k \notin OpenHandles
  BY <1>1 DEF OpenHandles, Handles
<1>3. \A h \in OpenHandles : Visible(h)' = Visible(h)
  BY <1>1 DEF OpenHandles, Visible
<1>4. Visible(k)' = s
  BY <1>1 DEF Visible
<1> QED BY <1>2, <1>3, <1>4, OpenStreamsIs, OpenStreamsWillBe DEF More

\* fclose returns.
LEMMA ClosedView ==
  ASSUME ~ ReadingNow, ~ ReadingNow', NEW k \in Handles, files[k].opened, NEW s, ~ s.opened,
         files \in [Handles -> Stream], files' = [files EXCEPT ![k] = s],
         NEW open, open = OpenStreams
  PROVE  k \in DOMAIN open /\ OpenStreams' = Fewer(open, k)
<1>1. files'[k] = s /\ \A h \in Handles : h # k => files'[h] = files[h]
  OBVIOUS
<1>2. OpenHandles' = OpenHandles \ {k} /\ k \in OpenHandles
  BY <1>1 DEF OpenHandles, Handles
<1>3. \A h \in OpenHandles \ {k} : Visible(h)' = Visible(h)
  BY <1>1 DEF OpenHandles, Visible
<1> QED BY <1>2, <1>3, OpenStreamsIs, OpenStreamsWillBe DEF Fewer

-----------------------------------------------------------------------------
(* fopen.                                                                  *)

LEMMA FaultTyped == StreamsInv => fault \in BOOLEAN
BY DEF StreamsInv, CacheInv

\* The search goes on in its stream: nothing is seen of it.
LEMMA SearchUnseen ==
  ASSUME StreamsInv, Opening, NEW s, ~ s.opened, Becomes(s), ~ ReadingNow',
         volume' = volume, result' = result, fault' \in {fault, TRUE}
  PROVE  BytesStep
<1>1. files \in [Handles -> Stream] /\ call.stream \in Handles /\ ~ files[call.stream].opened
  BY OpeningFacts DEF Searching, Current
<1>2. OpenStreams' = OpenStreams
  BY <1>1, HiddenView DEF Becomes, ReadingNow, Opening
<1> QED BY <1>2, Unseen, FaultTyped

\* fopen returns NULL only if there is no such file, or the disk has failed.
LEMMA OpenFailsStep ==
  ASSUME StreamsInv, Opening, NEW s, ~ s.opened, s.name = Current.name, OpenFails(s),
         volume' = volume, fault' \in {fault, TRUE},
         Current.name \notin DOMAIN volume.contents \/ fault'
  PROVE  BytesStep
<1>1. /\ files \in [Handles -> Stream] /\ call.stream \in Handles /\ ~ files[call.stream].opened
      /\ Current.name \in Paths
  BY OpeningFacts DEF Searching, Current
<1>2. OpenStreams' = OpenStreams
  BY <1>1, HiddenView DEF OpenFails, Return, Becomes, ReadingNow, Opening, UnderWay
<1>3. result' = [op |-> "fopen", name |-> Current.name, stream |-> -1]
  BY DEF OpenFails, Return
<1>4. Bytes!OpenFails(Current.name)
  BY <1>2, <1>3 DEF Bytes!OpenFails, Bytes!Returns
<1> QED BY <1>1, <1>4 DEF BytesStep, Bytes!Next

LEMMA LoadReturnsStep ==
  ASSUME StreamsInv, Opening, NEW s, ~ s.opened, s.name = Current.name, NEW ok, LoadReturns(s, ok),
         volume' = volume, fault' \in {fault, TRUE},
         (ok /\ call.after # "miss") \/ Current.name \notin DOMAIN volume.contents \/ fault'
  PROVE  BytesStep
<1>1. CASE Becomes(s) /\ UNCHANGED <<call, result>>
  BY <1>1, SearchUnseen DEF Opening, ReadingNow
<1>2. CASE OpenFails(s) /\ ~ (ok /\ call.after # "miss")
  BY <1>2, OpenFailsStep
<1> QED BY <1>1, <1>2, OpeningFacts DEF LoadReturns

\* Only the search for a name that is not there walks along a chain.
LEMMA WalksInVain ==
  ASSUME StreamsInv, Opening, Walks
  PROVE  call.after = "miss" /\ Current.name \notin DOMAIN volume.contents
<1>1. PICK s : s = Current
  OBVIOUS
<1>2. volume \in Volumes /\ Searching(s, call.path, call.after, pc)
  BY <1>1, OpeningFacts
<1>3. CASE call.after = "component"
  <2>1. s.data.position = 0 /\ s.data.index = 0
    BY <1>2, <1>3 DEF Searching, FindsObject
  <2>2. TargetCluster(s.data) = 0
    BY <1>2, <2>1, StartOfFile
  <2> QED BY <1>1, <2>1, <2>2 DEF Walks
<1>4. CASE call.after = "miss"
  BY <1>1, <1>2, <1>4 DEF Searching, FindsNothing
<1> QED BY <1>3, <1>4, OpeningFacts

LEMMA WalkOpeningStep ==
  ASSUME StreamsInv, Opening, WalkCached \/ WalkReads \/ WalkFails
  PROVE  BytesStep
<1>1. Walks /\ volume' = volume /\ fault' \in {fault, TRUE}
  BY DEF WalkCached, WalkReads, WalkFails
<1>2. PICK next : Follows(next)
  BY DEF WalkCached, WalkReads, WalkFails
<1>3. PICK s : s = [Current EXCEPT !.data = [Current.data EXCEPT !.index = @ + 1, !.current = next]]
  OBVIOUS
<1>4. ~ s.opened /\ s.name = Current.name
  BY <1>3, OpeningFacts DEF Searching, Stream
<1>5. CASE Becomes(s) /\ UNCHANGED <<pc, call, result>>
  BY <1>1, <1>4, <1>5, SearchUnseen DEF Opening, ReadingNow
<1>6. CASE LoadReturns(s, FALSE)
  BY <1>1, <1>4, <1>6, WalksInVain, LoadReturnsStep
<1> QED BY <1>2, <1>3, <1>5, <1>6 DEF Follows

LEMMA FillOpeningStep ==
  ASSUME StreamsInv, Opening, FillReads \/ FillFails
  PROVE  BytesStep
<1>1. Current \in Stream /\ ~ Current.opened /\ Searching(Current, call.path, call.after, pc)
  BY OpeningFacts DEF Searching
<1>2. call.after = "miss" => Current.name \notin DOMAIN volume.contents
  BY <1>1 DEF Searching, FindsNothing
<1>3. CASE FillReads
  <2>1. PICK s : s = [Current EXCEPT !.buffer = volume.image[TargetLba(Current.data)]]
    OBVIOUS
  <2>2. ~ s.opened /\ s.name = Current.name
    BY <1>1, <2>1 DEF Stream
  <2>3. LoadReturns(s, TRUE) /\ volume' = volume /\ fault' = fault
    BY <1>3, <2>1 DEF FillReads
  <2> QED BY <1>2, <2>2, <2>3, LoadReturnsStep
<1>4. CASE FillFails
  <2>1. LoadReturns(Current, FALSE) /\ volume' = volume /\ fault' = TRUE
    BY <1>4 DEF FillFails
  <2> QED BY <1>1, <2>1, LoadReturnsStep
<1> QED BY <1>3, <1>4

\* What the search refuses to look into is no directory: there is no such name.
LEMMA RefusesInVain ==
  ASSUME StreamsInv, Opening, Searches, ~ IsDirectory
  PROVE  Current.name \notin DOMAIN volume.contents
<1> SUFFICES ASSUME Current.name \in DOMAIN volume.contents PROVE FALSE
  OBVIOUS
<1>1. PICK s, path, object : s = Current /\ path = call.path /\ object = Found(s, path)
  OBVIOUS
<1>2. /\ volume \in Volumes /\ path \in Seq(STRING) /\ s.name \in Seq(STRING) /\ s.data \in Data
      /\ Len(s.name) - Len(path) \in Nat /\ Len(s.name) \in Nat /\ Len(path) \in Nat
      /\ object \in DOMAIN Objects /\ OnChain(s.data, Objects[object]) /\ s.data.index = 0
  BY <1>1, SearchFacts DEF Searches
<1>3. PICK n : n = Len(s.name) - Len(path)
  OBVIOUS
<1>4. n \in 0..Len(s.name) - 1
  <2>1. Len(path) # 0
    BY <1>1, <1>2, EmptySeq DEF Searches
  <2> QED BY <1>2, <1>3, <2>1
<1>5. s.name \in DOMAIN volume.objects
  BY <1>1, <1>2, FileFacts
<1>6. Objects[object].directory
  <2>1. object = SubSeq(s.name, 1, n)
    BY <1>1, <1>3 DEF Found
  <2>2. volume.objects[SubSeq(s.name, 1, n)].directory
    BY <1>2, <1>4, <1>5, ObjectFacts
  <2> QED BY <2>1, <2>2 DEF Objects
<1>7. PICK chain : chain = Objects[object].chain
  OBVIOUS
<1>8. chain \in Seq(Nat) /\ chain # <<>>
  BY <1>2, <1>6, <1>7, ObjectFacts DEF Objects, ListsChildren
<1>9. s.data.directory /\ s.data.current = chain[1]
  BY <1>2, <1>6, <1>7, <1>8 DEF OnChain
<1>10. 1 \in 1..Len(chain)
  BY <1>8, EmptySeq
<1>11. PICK next : next = EntryIn(volume.image[FatSectorOf(volume, chain[1])], chain[1])
  OBVIOUS
<1>12. chain[1] < BadCluster
  BY <1>2, <1>7, <1>10, <1>11, NextOfChain DEF Objects
<1> QED BY <1>1, <1>9, <1>12 DEF IsDirectory

LEMMA SearchStep ==
  ASSUME StreamsInv, Opening, SearchRefuses \/ SearchFinds \/ SearchEnds \/ SearchRepeats
  PROVE  BytesStep
<1>1. /\ ~ Current.opened /\ Current \in Stream
      /\ call = [op |-> "fopen", stream |-> call.stream, path |-> call.path, after |-> call.after]
  BY OpeningFacts DEF Searching
<1>2. CASE SearchRefuses
  <2>1. Current.name \notin DOMAIN volume.contents
    BY <1>2, RefusesInVain DEF SearchRefuses
  <2> QED BY <1>1, <1>2, <2>1, OpenFailsStep DEF SearchRefuses
<1>3. CASE SearchFinds
  <2>1. PICK d : Becomes([Current EXCEPT !.data = d])
    BY <1>3 DEF SearchFinds
  <2>2. ~ [Current EXCEPT !.data = d].opened
    BY <1>1 DEF Stream
  <2>3. ~ ReadingNow'
    <3>1. call'.op = "fopen"
      BY <1>1, <1>3 DEF SearchFinds
    <3> QED BY <3>1 DEF ReadingNow
  <2>4. volume' = volume /\ result' = result /\ fault' = fault
    BY <1>3 DEF SearchFinds
  <2> QED BY <2>1, <2>2, <2>3, <2>4, SearchUnseen
<1>4. CASE SearchEnds
  <2>1. PICK d : Becomes([Current EXCEPT !.data = d])
    BY <1>4 DEF SearchEnds
  <2>2. ~ [Current EXCEPT !.data = d].opened
    BY <1>1 DEF Stream
  <2>3. ~ ReadingNow'
    <3>1. call'.op = "fopen"
      BY <1>1, <1>4 DEF SearchEnds
    <3> QED BY <3>1 DEF ReadingNow
  <2>4. volume' = volume /\ result' = result /\ fault' = fault
    BY <1>4 DEF SearchEnds
  <2> QED BY <2>1, <2>2, <2>3, <2>4, SearchUnseen
<1>5. CASE SearchRepeats
  <2>1. OpenStreams' = OpenStreams
    BY <1>5 DEF SearchRepeats, vars, OpenStreams, Handles
  <2> QED BY <1>5, <2>1, Unseen, FaultTyped DEF SearchRepeats, vars
<1> QED BY <1>2, <1>3, <1>4, <1>5

\* fopen returns a stream: it is at the start of the file of its name.
LEMMA OpenReturnsStep ==
  ASSUME StreamsInv, Opening, OpenReturns
  PROVE  BytesStep
<1>1. /\ files \in [Handles -> Stream] /\ call.stream \in Handles /\ ~ files[call.stream].opened
      /\ Current \in Stream /\ Current.name \in Paths
  BY OpeningFacts DEF Searching, Current
<1>2. PICK s, h : s = [Current EXCEPT !.opened = TRUE] /\ h = call.stream
  OBVIOUS
<1>3. /\ s.opened /\ s.name = Current.name /\ s.data = Current.data
      /\ s.error = Current.error /\ s.eof = Current.eof
  BY <1>1, <1>2 DEF Stream
<1>4. /\ s.name \in DOMAIN volume.contents /\ s.data.position = 0
      /\ s.error = FALSE /\ s.eof = FALSE
  <2>1. /\ Current.name \in DOMAIN volume.contents /\ Current.data.position = 0
        /\ ~ Current.error /\ ~ Current.eof
    BY OpenReturnsKeeps
  <2>2. Current.error \in BOOLEAN /\ Current.eof \in BOOLEAN
    BY <1>1 DEF Stream
  <2> QED BY <1>3, <2>1, <2>2
<1>5. /\ files' = [files EXCEPT ![h] = s] /\ pc' = "idle" /\ volume' = volume /\ fault' = fault
      /\ result' = [op |-> "fopen", name |-> s.name, stream |-> h]
  BY <1>2, <1>3 DEF OpenReturns, Becomes, Return
<1>6. PICK open : open = OpenStreams
  OBVIOUS
<1>7. h \notin DOMAIN open /\ OpenStreams' = More(open, h, Seen(s))
  <2>1. ~ ReadingNow /\ ~ ReadingNow'
    BY <1>5 DEF ReadingNow, Opening, UnderWay
  <2>2. h \in Handles /\ ~ files[h].opened
    BY <1>1, <1>2
  <2> QED BY <1>1, <1>3, <1>5, <1>6, <2>1, <2>2, OpenedView
<1>8. Seen(s) = [name |-> s.name, position |-> 0, error |-> FALSE, eof |-> FALSE]
  BY <1>4 DEF Seen
<1>9. Bytes!Open(h, s.name)
  BY <1>4, <1>5, <1>6, <1>7, <1>8 DEF More, Bytes!Open, Bytes!Returns
<1> QED BY <1>1, <1>2, <1>3, <1>9 DEF BytesStep, Bytes!Next

LEMMA OpeningStep ==
  ASSUME StreamsInv, Opening, Runs
  PROVE  BytesStep
<1>1. CASE WalkCached \/ WalkReads \/ WalkFails
  BY <1>1, WalkOpeningStep
<1>2. CASE FillReads \/ FillFails
  BY <1>2, FillOpeningStep
<1>3. CASE SearchRefuses \/ SearchFinds \/ SearchEnds \/ SearchRepeats
  BY <1>3, SearchStep
<1>4. CASE OpenReturns
  BY <1>4, OpenReturnsStep
<1>5. pc \in {"load", "component"}
  BY DEF StreamsInv, CallsInv, OpenInv
<1> QED BY <1>1, <1>2, <1>3, <1>4, <1>5
        DEF Runs, ReadAtEnd, ReadAfterError, ReadStarts, CopyReturns, Copy

-----------------------------------------------------------------------------
(* The program calls.                                                      *)

LEMMA CallingStep ==
  ASSUME StreamsInv, Calls
  PROVE  BytesStep
<1>1. pc = "idle" /\ files \in [Handles -> Stream] /\ ~ ReadingNow
  BY DEF Calls, FOpen, FOpenFull, FRead, FGets, Reading, FClose, ReadingNow, UnderWay,
         StreamsInv, CallsInv
<1>2. ASSUME NEW name \in Paths, FOpen(name) PROVE BytesStep
  <2>1. PICK h, s : h \in Unopened /\ ~ s.opened /\ files' = [files EXCEPT ![h] = s]
    <3>1. PICK k : k = CHOOSE x \in Unopened : \A g \in Unopened : x <= g
      OBVIOUS
    <3>2. Unopened \subseteq Nat /\ Unopened # {}
      BY <1>2, FileAssumption DEF FOpen, Unopened, Handles
    <3>3. k \in Unopened
      BY <3>1, <3>2, LeastChosen
    <3>4. PICK buffer : files' = [files EXCEPT ![k] =
            [Closed EXCEPT !.buffer = buffer, !.data = RootDirectory, !.name = name]]
      BY <1>2, <3>1 DEF FOpen
    <3>5. ~ [Closed EXCEPT !.buffer = buffer, !.data = RootDirectory, !.name = name].opened
      BY DEF Closed
    <3> QED BY <3>3, <3>4, <3>5
  <2>2. ~ ReadingNow' /\ volume' = volume /\ fault' = FALSE /\ result' = NoResult
    BY <1>2 DEF FOpen, ReadingNow
  <2>3. h \in Handles /\ ~ files[h].opened
    BY <2>1 DEF Unopened
  <2>4. OpenStreams' = OpenStreams
    BY <1>1, <2>1, <2>2, <2>3, HiddenView
  <2> QED BY <2>2, <2>4 DEF BytesStep, Bytes!Next, Bytes!Begin, NoResult, Bytes!NoResult
<1>3. ASSUME NEW name \in Paths, FOpenFull(name) PROVE BytesStep
  <2>1. OpenStreams' = OpenStreams
    BY <1>3 DEF FOpenFull, OpenStreams, Handles
  <2>2. DOMAIN OpenStreams = Handles
    BY <1>3, OpenStreamsIs DEF FOpenFull, OpenHandles, Unopened
  <2>3. Bytes!OpenFails(name)
    BY <1>3, <2>1, <2>2 DEF FOpenFull, Bytes!OpenFails, Bytes!Returns
  <2> QED BY <2>3 DEF BytesStep, Bytes!Next
<1>4. ASSUME NEW op \in {"read", "fgets"}, NEW h \in Handles, NEW size, NEW bytes,
             Reading(op, h, size, bytes)
      PROVE  BytesStep
  <2>1. call'.op = op /\ call'.stream = h /\ call'.before = files[h]
    BY <1>4 DEF Reading
  <2>2. ReadingNow' /\ files' = files /\ volume' = volume /\ fault' = FALSE /\ result' = NoResult
    BY <1>4, <2>1 DEF Reading, ReadingNow, UnderWay
  <2>3. OpenStreams' = OpenStreams
    BY <1>1, <2>1, <2>2, BeginView
  <2> QED BY <2>2, <2>3 DEF BytesStep, Bytes!Next, Bytes!Begin, NoResult, Bytes!NoResult
<1>5. ASSUME NEW h \in Handles, FClose(h) PROVE BytesStep
  <2>1. ~ Closed.opened
    BY ClosedStream
  <2>2. /\ files[h].opened /\ files' = [files EXCEPT ![h] = Closed] /\ pc' = pc
        /\ volume' = volume /\ fault' = fault /\ result' = [op |-> "fclose", stream |-> h]
    BY <1>5 DEF FClose
  <2>3. PICK open : open = OpenStreams
    OBVIOUS
  <2>4. h \in DOMAIN open /\ OpenStreams' = Fewer(open, h)
    <3>1. ~ ReadingNow'
      BY <1>1, <2>2 DEF ReadingNow, UnderWay, FClose
    <3> QED BY <1>1, <2>1, <2>2, <2>3, <3>1, ClosedView
  <2>5. Bytes!Close(h)
    BY <2>2, <2>3, <2>4 DEF Fewer, Bytes!Close, Bytes!Returns
  <2> QED BY <2>3, <2>4, <2>5 DEF BytesStep, Bytes!Next
<1> QED BY <1>2, <1>3, <1>4, <1>5 DEF Calls, FRead, FGets

-----------------------------------------------------------------------------
(* fread, fgetc and fgets.                                                 *)

\* The read goes on: nothing is seen of it.
LEMMA ReadUnseen ==
  ASSUME StreamsInv, ReadingNow, NEW s, s.opened, Becomes(s), pc' # "idle",
         call'.op = call.op, call'.stream = call.stream, call'.before = call.before,
         volume' = volume, result' = result, fault' \in {fault, TRUE}
  PROVE  BytesStep
<1>1. files \in [Handles -> Stream] /\ call.stream \in Handles /\ files[call.stream].opened
  BY ReadingFacts DEF Current
<1>2. ReadingNow'
  BY DEF ReadingNow, UnderWay
<1>3. OpenStreams' = OpenStreams
  BY <1>1, <1>2, ReadingView DEF Becomes
<1> QED BY <1>3, Unseen, FaultTyped

\* What is left of a file.
LEMMA RestFacts ==
  ASSUME NEW S, NEW text \in Seq(S), NEW from \in Nat, from <= Len(text),
         NEW rest, rest = SubSeq(text, from + 1, Len(text))
  PROVE  /\ rest \in Seq(S) /\ Len(rest) = Len(text) - from
         /\ \A i \in 1..Len(rest) : rest[i] = text[from + i]
         /\ \A k \in 0..Len(rest) : SubSeq(rest, 1, k) = SubSeq(text, from + 1, from + k)
<1>1. Len(text) \in Nat
  OBVIOUS
<1>2. /\ rest \in Seq(S) /\ Len(rest) = Len(text) - from
      /\ \A i \in 1..Len(rest) : rest[i] = text[from + i]
  BY <1>1, PartOf
<1>3. ASSUME NEW k \in 0..Len(rest) PROVE SubSeq(rest, 1, k) = SubSeq(text, from + 1, from + k)
  <2>1. k \in Nat /\ from + k <= Len(text) /\ 0 + k <= Len(rest)
    BY <1>1, <1>2
  <2>2. Agree(rest, 0, text, from, k)
    BY <1>1, <1>2, <2>1 DEF Agree
  <2>3. SubSeq(rest, 0 + 1, 0 + k) = SubSeq(text, from + 1, from + k)
    BY <1>2, <2>1, <2>2, SameParts
  <2> QED BY <2>1, <2>3
<1> QED BY <1>2, <1>3

\* What a read has done to its stream, in the words of ByteFiles.
LEMMA ConsumesFacts ==
  ASSUME NEW b \in Stream, NEW s \in Stream, s.name = b.name, NEW k \in Nat,
         s.data.position = b.data.position + k, NEW ended \in BOOLEAN,
         fault' \in BOOLEAN, s.error # b.error => s.error /\ fault', s.eof <=> b.eof \/ ended,
         NEW h, NEW open, open = OpenStreams, h \in DOMAIN open, open[h] = Seen(b),
         OpenStreams' = [open EXCEPT ![h] = Seen(s)]
  PROVE  Bytes!Consumes(h, k, ended)
<1>1. {s.error, b.error, s.eof, b.eof} \subseteq BOOLEAN
  BY DEF Stream
<1>2. s.error \in {b.error, b.error \/ fault'}
  BY <1>1
<1>3. s.eof = (b.eof \/ ended)
  BY <1>1
<1>4. Seen(s) = [Seen(b) EXCEPT !.position = @ + k, !.error = s.error, !.eof = @ \/ ended]
  <2>1. PICK seen, eof, position, failed :
          /\ seen = Seen(b) /\ eof = (seen.eof \/ ended) /\ position = seen.position + k
          /\ failed = s.error
    OBVIOUS
  <2>2. seen \in [name : {b.name}, position : {b.data.position}, error : {b.error}, eof : {b.eof}]
    BY <2>1 DEF Seen
  <2>3. PICK t : t = [seen EXCEPT !.position = position, !.error = failed, !.eof = eof]
    OBVIOUS
  <2>4. t \in [name : {b.name}, position : {position}, error : {failed}, eof : {eof}]
    BY <2>2, <2>3
  <2>5. position = s.data.position /\ eof = s.eof /\ failed = s.error
    BY <1>3, <2>1, <2>2
  <2>6. t = Seen(s)
    BY <2>4, <2>5 DEF Seen
  <2>7. t = [seen EXCEPT !.position = @ + k, !.error = s.error, !.eof = @ \/ ended]
    BY <2>1, <2>3
  <2> QED BY <2>1, <2>6, <2>7
<1>5. Seen(b).error = b.error
  BY DEF Seen
<1> QED BY <1>2, <1>4, <1>5 DEF Bytes!Consumes

\* What the return of a read has in common for its callers.
LEMMA ReturnedFacts ==
  ASSUME StreamsInv, ReadingNow, NEW s, NEW out, NEW remaining, NEW failed, failed = fault',
         Becomes(s), pc' = "idle", volume' = volume, fault' \in {fault, TRUE},
         Progress(s, call, out, remaining, failed),
         NEW ended \in BOOLEAN, s.eof <=> call.before.eof \/ ended
  PROVE  \E k \in Nat :
           /\ Bytes!Consumes(call.stream, k, ended) /\ call.stream \in DOMAIN OpenStreams
           /\ OpenStreams[call.stream].error = call.before.error /\ (call.before.error => k = 0)
           /\ Before(call) \in Nat /\ s.data.position = Before(call) + k
           /\ Contents(s) \in Seq(Characters) /\ Len(Contents(s)) \in Nat
           /\ s.data.size = Len(Contents(s)) /\ Before(call) + k <= Len(Contents(s))
           /\ Bytes!Rest(OpenStreams[call.stream])
                = SubSeq(Contents(s), Before(call) + 1, Len(Contents(s)))
<1> PICK c, b, h, open, from, text, k :
      /\ c = call /\ b = c.before /\ h = c.stream /\ open = OpenStreams /\ from = Before(c)
      /\ text = Contents(s) /\ k = s.data.position - from
  OBVIOUS
<1>1. /\ volume \in Volumes /\ files \in [Handles -> Stream] /\ h \in Handles
      /\ CallTyped(c) /\ Current.opened /\ b \in Stream
  BY ReadingFacts DEF CallTyped
<1>2. /\ s \in Stream /\ s.opened /\ Ready(s) /\ from <= s.data.position
      /\ s.name = b.name /\ (s.error # b.error => s.error /\ failed)
      /\ (b.error => s.data.position = from)
  BY DEF Progress
<1>3. from \in Nat /\ s.data.position \in Nat /\ b.data.position = from
  BY <1>1, <1>2 DEF Stream, Data, Before
<1>4. k \in Nat /\ s.data.position = from + k /\ (b.error => k = 0)
  BY <1>2, <1>3
<1>5. /\ text \in Seq(Characters) /\ Len(text) \in Nat /\ s.data.size = Len(text)
      /\ from + k <= Len(text)
  BY <1>1, <1>2, <1>4, FileFacts DEF Ready, Contents
<1>6. files' = [files EXCEPT ![h] = s] /\ ~ ReadingNow'
  BY DEF Becomes, ReadingNow, UnderWay
<1>7. h \in DOMAIN open /\ open[h] = Seen(b) /\ OpenStreams' = [open EXCEPT ![h] = Seen(s)]
  <2>1. h = call.stream /\ files[h].opened
    BY <1>1 DEF Current
  <2>2. h \in DOMAIN open /\ open[h] = Seen(call.before) /\ OpenStreams' = [open EXCEPT ![h] = Seen(s)]
    BY <1>1, <1>2, <1>6, <2>1, ReturnView, ZenonT(90)
  <2> QED BY <2>2
<1>8. fault' \in BOOLEAN
  BY FaultTyped
<1>9. Bytes!Consumes(h, k, ended)
  <2>1. s.data.position = b.data.position + k
    BY <1>3, <1>4
  <2>2. (s.error # b.error => s.error /\ fault') /\ (s.eof <=> b.eof \/ ended)
    BY <1>2
  <2> QED BY <1>1, <1>2, <1>4, <1>7, <1>8, <2>1, <2>2, ConsumesFacts, ZenonT(90)
<1>10. open[h].error = b.error /\ open[h].name = s.name /\ open[h].position = from
  BY <1>2, <1>3, <1>7 DEF Seen
<1>11. Bytes!Rest(open[h]) = SubSeq(text, from + 1, Len(text))
  BY <1>10 DEF Bytes!Rest, Contents
<1> QED BY <1>3, <1>4, <1>5, <1>7, <1>9, <1>10, <1>11

\* fread and fgetc return.
LEMMA ReadStep ==
  ASSUME StreamsInv, ReadingNow, call.op = "read", NEW s, NEW out, NEW remaining \in Nat, NEW failed,
         failed = fault', Becomes(s), ReturnBytes(out), volume' = volume, fault' \in {fault, TRUE},
         Progress(s, call, out, remaining, failed),
         WantsMore(call, out, remaining) =>
           s.data.position = s.data.size \/ failed \/ call.before.error,
         s.eof <=> call.before.eof \/ Ended(s, call, out, remaining)
  PROVE  BytesStep
<1>1. PICK c, b, h, open, from, text, n, rest :
        /\ c = call /\ b = c.before /\ h = c.stream /\ open = OpenStreams /\ from = Before(c)
        /\ text = Contents(s) /\ n = c.size /\ rest = Bytes!Rest(open[h])
  OBVIOUS
<1>2. n \in ReadSizes /\ n \in Nat
  BY <1>1, ReadingFacts DEF CallTyped
<1>3. PICK ended \in BOOLEAN : ended <=> Ended(s, c, out, remaining)
  BY <1>1
<1>4. pc' = "idle" /\ result' = [op |-> "read", stream |-> h, size |-> n, bytes |-> out]
  BY <1>1 DEF ReturnBytes, Return
<1>5. PICK k \in Nat :
        /\ Bytes!Consumes(h, k, ended) /\ h \in DOMAIN open
        /\ open[h].error = b.error /\ (b.error => k = 0)
        /\ from \in Nat /\ s.data.position = from + k
        /\ text \in Seq(Characters) /\ Len(text) \in Nat /\ s.data.size = Len(text)
        /\ from + k <= Len(text)
        /\ rest = SubSeq(text, from + 1, Len(text))
  <2>1. Progress(s, c, out, remaining, failed) /\ (s.eof <=> b.eof \/ ended)
    BY <1>1, <1>3
  <2> QED BY <1>1, <1>4, <2>1, ReturnedFacts
<1>6. /\ rest \in Seq(Characters) /\ Len(rest) = Len(text) - from
      /\ k \in 0..Len(rest) /\ SubSeq(rest, 1, k) = SubSeq(text, from + 1, from + k)
  <2>1. from <= Len(text) /\ k <= Len(text) - from
    BY <1>5
  <2>2. /\ rest \in Seq(Characters) /\ Len(rest) = Len(text) - from
        /\ \A j \in 0..Len(rest) : SubSeq(rest, 1, j) = SubSeq(text, from + 1, from + j)
    BY <1>5, <2>1, RestFacts
  <2>3. k \in 0..Len(rest)
    BY <1>5, <2>1, <2>2
  <2> QED BY <2>2, <2>3
<1>7. out = SubSeq(rest, 1, k) /\ remaining = n - k
  <2>1. ReadBytes(s, c, out, remaining)
    BY <1>1 DEF Progress
  <2>2. out = SubSeq(text, from + 1, from + k) /\ remaining = n - (s.data.position - from)
    BY <1>1, <1>5, <2>1 DEF ReadBytes
  <2> QED BY <1>2, <1>5, <1>6, <2>2
<1>8. PICK size : size = Len(rest)
  OBVIOUS
<1>9. size \in Nat /\ k <= size /\ k <= n /\ (s.data.position = s.data.size <=> k = size)
  <2>1. size \in Nat /\ k <= size
    BY <1>6, <1>8, LenProperties
  <2>2. k <= n
    BY <1>2, <1>5, <1>7
  <2>3. size = Len(text) - from
    BY <1>6, <1>8
  <2> QED BY <1>5, <2>1, <2>2, <2>3
<1>10. k \in 0..Bytes!Least(n, size) /\ (k = Bytes!Least(n, size) <=> k = n \/ k = size)
  BY <1>2, <1>5, <1>9 DEF Bytes!Least
<1>11. k = Bytes!Least(n, size) \/ fault' \/ open[h].error
  <2>1. CASE remaining = 0
    BY <1>2, <1>5, <1>7, <1>10, <2>1
  <2>2. CASE remaining > 0
    BY <1>1, <1>5, <1>9, <1>10, <2>2 DEF WantsMore
  <2> QED BY <2>1, <2>2
<1>12. ended = (k = size /\ (k < n \/ k = 0))
  <2>1. remaining > 0 <=> k < n
    BY <1>2, <1>5, <1>7
  <2>2. s.data.position = from <=> k = 0
    BY <1>5
  <2>3. c.op = "read" /\ from = Before(c)
    BY <1>1
  <2>4. Ended(s, c, out, remaining) <=> k = size /\ (k < n \/ k = 0)
    <3>1. WantsMore(c, out, remaining) <=> k < n
      BY <2>1, <2>3 DEF WantsMore
    <3>2. c.op = "read" /\ s.data.position = Before(c) <=> k = 0
      BY <2>2, <2>3
    <3>3. s.data.position = s.data.size <=> k = size
      BY <1>9
    <3> QED BY <3>1, <3>2, <3>3 DEF Ended
  <2> QED BY <1>3, <2>4
<1>13. Bytes!Returns([op |-> "read", stream |-> h, size |-> n, bytes |-> SubSeq(rest, 1, k)])
  BY <1>4, <1>7 DEF Bytes!Returns
<1>14. Bytes!Consumes(h, k, k = Len(rest) /\ (k < n \/ k = 0))
  BY <1>5, <1>8, <1>12
<1>15. Bytes!Read(h, n)
  BY <1>1, <1>5, <1>8, <1>10, <1>11, <1>13, <1>14 DEF Bytes!Read
<1> QED BY <1>1, <1>2, <1>5, <1>15 DEF BytesStep, Bytes!Next

\* The bytes that end a line.
EndsGets(byte) == EndsLine(byte) \/ IsEOF(byte)

\* fgets, in the words of ByteFiles.
LEMMA GetsFacts ==
  ASSUME NEW h, NEW n \in Nat, NEW k \in Nat, NEW open, open = OpenStreams,
         NEW rest, rest = Bytes!Rest(open[h]), NEW size \in Nat, size = Len(rest),
         k <= n - 1, k <= size,
         NEW stopped \in BOOLEAN, stopped <=> k = n - 1 \/ (k > 0 /\ EndsGets(rest[k])),
         \A i \in 1..k - 1 : ~ EndsGets(rest[i]),
         stopped \/ k = size \/ fault' \/ open[h].error, open[h].error => k = 0,
         NEW ended \in BOOLEAN, ended <=> k = size /\ ~ stopped, Bytes!Consumes(h, k, ended),
         NEW bytes, bytes = SubSeq(rest, 1, IF k = 0 \/ ~ IsEOF(rest[k]) THEN k ELSE k - 1),
         result' = [op |-> "fgets", stream |-> h, size |-> n, bytes |-> bytes],
         volume' = volume, fault' \in {fault, TRUE}
  PROVE  Bytes!Gets(h, n)
<1>1. k \in 0..Bytes!Least(n - 1, size)
  BY DEF Bytes!Least
<1>2. stopped = (k = n - 1 \/ (k > 0 /\ EndsGets(rest[k])))
  OBVIOUS
<1>3. ended = (k = size /\ ~ stopped)
  OBVIOUS
<1>4. \A byte : Bytes!IsKept(byte) <=> ~ IsEOF(byte)
  BY DEF Bytes!IsKept, IsEOF
<1>5. \A i \in 1..k - 1 : ~ (EndsLine(rest[i]) \/ ~ Bytes!IsKept(rest[i]))
  BY <1>4 DEF EndsGets
<1>6. stopped = (k = n - 1 \/ (k > 0 /\ (EndsLine(rest[k]) \/ ~ Bytes!IsKept(rest[k]))))
  BY <1>2, <1>4 DEF EndsGets
<1>7. bytes = SubSeq(rest, 1, IF k = 0 \/ Bytes!IsKept(rest[k]) THEN k ELSE k - 1)
  <2>1. CASE k = 0 \/ ~ IsEOF(rest[k])
    BY <1>4, <2>1
  <2>2. CASE ~ (k = 0 \/ ~ IsEOF(rest[k]))
    BY <1>4, <2>2
  <2> QED BY <2>1, <2>2
<1>8. Bytes!Returns([op |-> "fgets", stream |-> h, size |-> n, bytes |->
         SubSeq(rest, 1, IF k = 0 \/ Bytes!IsKept(rest[k]) THEN k ELSE k - 1)])
  BY <1>7 DEF Bytes!Returns
<1>9. Bytes!Consumes(h, k, k = Len(rest) /\ ~ stopped)
  BY <1>3
<1> QED BY <1>1, <1>5, <1>6, <1>8, <1>9 DEF Bytes!Gets

\* One byte more of a file.
LEMMA OneMore ==
  ASSUME NEW S, NEW rest \in Seq(S), NEW l \in Nat, l + 1 <= Len(rest),
         NEW line, line = SubSeq(rest, 1, l), NEW byte, byte = rest[l + 1]
  PROVE  Append(line, byte) = SubSeq(rest, 1, l + 1)
<1>1. Len(rest) \in Nat /\ 1 \in 1..Len(rest) /\ l + 1 \in 1..Len(rest)
  OBVIOUS
<1>2. PICK m \in Nat : m = l + 1
  OBVIOUS
<1>3. SubSeq(rest, 1, m) = SubSeq(rest, 1, m - 1) \o <<rest[m]>>
  BY <1>1, <1>2, SubSeqRecursiveSecond
<1>4. line \in Seq(S) /\ byte \in S
  <2>1. 0 <= l /\ l <= Len(rest) /\ 0 + 1 = 1
    BY <1>1
  <2>2. SubSeq(rest, 0 + 1, l) \in Seq(S)
    BY <2>1, PartOf
  <2>3. byte \in S
    BY <1>1, ElementOfSeq
  <2> QED BY <2>1, <2>2, <2>3
<1>5. Append(line, byte) = line \o <<byte>>
  BY <1>4, AppendIsConcat
<1>6. m - 1 = l
  BY <1>2
<1> QED BY <1>2, <1>3, <1>5, <1>6

\* fgets returns.
LEMMA GetsStep ==
  ASSUME StreamsInv, ReadingNow, call.op = "fgets", NEW s, NEW out, NEW remaining, NEW failed,
         failed = fault', Becomes(s), LineEnds(out) = TRUE, ReturnBytes(Line(out)),
         volume' = volume, fault' \in {fault, TRUE}, Progress(s, call, out, remaining, failed),
         WantsMore(call, out, remaining) =>
           s.data.position = s.data.size \/ failed \/ call.before.error,
         s.eof <=> call.before.eof \/ Ended(s, call, out, remaining)
  PROVE  BytesStep
<1>1. PICK c, b, h, open, from, text, n, rest, line :
        /\ c = call /\ b = c.before /\ h = c.stream /\ open = OpenStreams /\ from = Before(c)
        /\ text = Contents(s) /\ n = c.size /\ rest = Bytes!Rest(open[h]) /\ line = c.line
  OBVIOUS
<1>2. n \in LineSizes /\ n \in Nat /\ line \in Seq(Characters)
  BY <1>1, ReadingFacts DEF CallTyped
<1>3. PICK ended \in BOOLEAN : ended <=> Ended(s, c, out, remaining)
  BY <1>1
<1>4. pc' = "idle" /\ result' = [op |-> "fgets", stream |-> h, size |-> n, bytes |-> Line(out)]
  BY <1>1 DEF ReturnBytes, Return
<1>5. PICK k \in Nat :
        /\ Bytes!Consumes(h, k, ended) /\ h \in DOMAIN open
        /\ open[h].error = b.error /\ (b.error => k = 0)
        /\ from \in Nat /\ s.data.position = from + k
        /\ text \in Seq(Characters) /\ Len(text) \in Nat /\ s.data.size = Len(text)
        /\ from + k <= Len(text)
        /\ rest = SubSeq(text, from + 1, Len(text))
  <2>1. Progress(s, c, out, remaining, failed) /\ (s.eof <=> b.eof \/ ended)
    BY <1>1, <1>3
  <2> QED BY <1>1, <1>4, <2>1, ReturnedFacts
<1>6. PICK l \in Nat, size \in Nat : l = Len(line) /\ size = Len(rest)
  <2>1. from <= Len(text)
    BY <1>5
  <2>2. rest \in Seq(Characters)
    BY <1>5, <2>1, RestFacts
  <2> QED BY <1>2, <2>2, LenProperties
<1>7. /\ rest \in Seq(Characters) /\ size = Len(text) - from /\ k <= size
      /\ \A i \in 1..size : rest[i] = text[from + i]
      /\ \A j \in 0..size : SubSeq(rest, 1, j) = SubSeq(text, from + 1, from + j)
  <2>1. from <= Len(text) /\ k <= Len(text) - from
    BY <1>5
  <2> QED BY <1>5, <1>6, <2>1, RestFacts
<1>8. LineBytes(s, c, out, remaining)
  BY <1>1 DEF Progress
<1>9. /\ line = SubSeq(text, from + 1, from + l) /\ l < n - 1
      /\ \A i \in 1..l : ~ EndsGets(line[i])
  BY <1>1, <1>6, <1>8 DEF LineBytes, EndsGets
<1>10. \/ out = <<>> /\ k = l
       \/ k = l + 1 /\ out = <<rest[k]>>
  <2>1. CASE out = <<>> /\ s.data.position = from + l
    BY <1>5, <2>1
  <2>2. CASE out = <<text[s.data.position]>> /\ s.data.position = from + l + 1
    <3>1. k = l + 1 /\ k \in 1..size
      BY <1>5, <1>7, <2>2
    <3> QED BY <1>5, <1>7, <2>2, <3>1
  <2> QED BY <1>1, <1>6, <1>8, <2>1, <2>2 DEF LineBytes
<1>11. l <= k /\ l <= size
  BY <1>7, <1>10
<1>12. line = SubSeq(rest, 1, l)
  <2>1. l \in 0..size
    BY <1>11
  <2> QED BY <1>7, <1>9, <2>1
<1>13. \A i \in 1..l : ~ EndsGets(rest[i])
  <2>1. ASSUME NEW i \in 1..l PROVE line[i] = rest[i]
    <3>1. 0 <= l /\ l <= Len(rest) /\ 0 + 1 = 1 /\ l - 0 = l
      BY <1>6, <1>11
    <3>2. \A j \in 1..l - 0 : SubSeq(rest, 0 + 1, l)[j] = rest[0 + j]
      BY <1>7, <3>1, PartOf
    <3>3. SubSeq(rest, 0 + 1, l)[i] = rest[0 + i]
      BY <3>1, <3>2
    <3>4. 0 + i = i
      OBVIOUS
    <3> QED BY <1>12, <3>1, <3>3, <3>4
  <2> QED BY <1>9, <2>1
<1>14. PICK bytes :
         /\ c.op = "fgets" /\ bytes = Line(out)
         /\ open = OpenStreams /\ rest = Bytes!Rest(open[h]) /\ size = Len(rest) /\ k <= size
         /\ Bytes!Consumes(h, k, ended) /\ (open[h].error => k = 0)
         /\ result' = [op |-> "fgets", stream |-> h, size |-> n, bytes |-> bytes]
  BY <1>1, <1>4, <1>5, <1>6, <1>7
<1>15. CASE out = <<>> /\ k = l
  <2>1. PICK stopped \in BOOLEAN : stopped = FALSE
    OBVIOUS
  <2>2. k > 0 => ~ EndsGets(rest[k])
    BY <1>13, <1>15
  <2>3. stopped <=> k = n - 1 \/ (k > 0 /\ EndsGets(rest[k]))
    BY <1>2, <1>9, <1>15, <2>1, <2>2
  <2>4. WantsMore(c, out, remaining)
    BY <1>14, <1>15 DEF WantsMore
  <2>5. s.data.position = s.data.size <=> k = size
    BY <1>5, <1>7
  <2>6. ended <=> k = size /\ ~ stopped
    BY <1>3, <2>1, <2>4, <2>5 DEF Ended
  <2>7. stopped \/ k = size \/ fault' \/ open[h].error
    BY <1>1, <1>5, <2>4, <2>5
  <2>8. Line(out) = line
    BY <1>1, <1>15 DEF Line
  <2>9. Line(out) = SubSeq(rest, 1, IF k = 0 \/ ~ IsEOF(rest[k]) THEN k ELSE k - 1)
    BY <1>12, <1>15, <2>2, <2>8 DEF EndsGets
  <2>10. k <= n - 1 /\ \A i \in 1..k - 1 : ~ EndsGets(rest[i])
    BY <1>2, <1>9, <1>13, <1>15
  <2>11. Bytes!Gets(h, n)
    BY <1>2, <1>14, <2>3, <2>6, <2>7, <2>9, <2>10, GetsFacts, ZenonT(90)
  <2> QED BY <1>1, <1>2, <1>5, <2>11 DEF BytesStep, Bytes!Next
<1>16. CASE k = l + 1 /\ out = <<rest[k]>>
  <2>1. PICK stopped, byte : stopped = TRUE /\ stopped \in BOOLEAN /\ byte = rest[k]
    OBVIOUS
  <2>2. out # <<>> /\ out[1] = byte
    BY <1>16, <2>1
  <2>3. IsEOF(byte) \/ EndsLine(byte) \/ Len(Line(out)) = n - 1
    BY <1>1, <2>2 DEF LineEnds
  <2>4. Line(out) = IF IsEOF(byte) THEN line ELSE Append(line, byte)
    BY <1>1, <2>2 DEF Line
  <2>5. Append(line, byte) = SubSeq(rest, 1, k)
    BY <1>6, <1>7, <1>12, <1>16, <2>1, OneMore
  <2>6. k > 0 /\ k - 1 = l
    BY <1>16
  <2>7. Line(out) = SubSeq(rest, 1, IF k = 0 \/ ~ IsEOF(rest[k]) THEN k ELSE k - 1)
    BY <1>12, <2>1, <2>4, <2>5, <2>6
  <2>8. ~ IsEOF(byte) => Len(Line(out)) = k
    <3>1. 0 <= k /\ k <= Len(rest) /\ 0 + 1 = 1 /\ k - 0 = k
      BY <1>6, <1>7
    <3>2. Len(SubSeq(rest, 0 + 1, k)) = k - 0
      BY <1>7, <3>1, PartOf
    <3> QED BY <2>4, <2>5, <3>1, <3>2
  <2>9. stopped <=> k = n - 1 \/ (k > 0 /\ EndsGets(rest[k]))
    BY <2>1, <2>3, <2>6, <2>8 DEF EndsGets
  <2>10. ~ WantsMore(c, out, remaining)
    BY <1>14, <2>2 DEF WantsMore
  <2>11. ended <=> k = size /\ ~ stopped
    BY <1>3, <1>14, <2>1, <2>10 DEF Ended
  <2>12. stopped \/ k = size \/ fault' \/ open[h].error
    BY <2>1
  <2>13. k <= n - 1 /\ \A i \in 1..k - 1 : ~ EndsGets(rest[i])
    BY <1>2, <1>9, <1>13, <1>16, <2>6
  <2>14. Bytes!Gets(h, n)
    BY <1>2, <1>14, <2>1, <2>7, <2>9, <2>11, <2>12, <2>13, GetsFacts, ZenonT(90)
  <2> QED BY <1>1, <1>2, <1>5, <2>14 DEF BytesStep, Bytes!Next
<1> QED BY <1>10, <1>15, <1>16

\* fat_read returns: to the caller, or to fgets, which may read one byte more.
LEMMA ReturnStep ==
  ASSUME StreamsInv, ReadingNow, NEW s, NEW out, NEW remaining, NEW failed,
         ReturnsWith(s, out, remaining, failed), volume' = volume, fault' \in {fault, TRUE}
  PROVE  BytesStep
<1>1. /\ Becomes(s) /\ failed = fault' /\ remaining \in Nat
      /\ Progress(s, call, out, remaining, failed)
      /\ WantsMore(call, out, remaining) =>
           s.data.position = s.data.size \/ failed \/ call.before.error
      /\ s.eof <=> call.before.eof \/ Ended(s, call, out, remaining)
  BY DEF ReturnsWith, ReadReturns
<1>2. CASE call.op = "read" /\ ReturnBytes(out)
  BY <1>1, <1>2, ReadStep
<1>3. CASE call.op = "fgets" /\ LineEnds(out) = TRUE /\ ReturnBytes(Line(out))
  BY <1>1, <1>3, GetsStep
<1>4. CASE /\ call.op = "fgets" /\ LineEnds(out) = FALSE /\ pc' = "read" /\ UNCHANGED result
           /\ call' = [call EXCEPT !.line = Line(out), !.remaining = 1, !.out = <<>>]
  <2>1. call'.op = call.op /\ call'.stream = call.stream /\ call'.before = call.before
    <3>1. call \in [op : {"read", "fgets"}, stream : Handles, size : Nat, remaining : Nat,
                    out : Seq(Characters), line : Seq(Characters), after : {"copy"},
                    before : Stream]
      BY ReadingFacts DEF CallTyped
    <3> QED BY <1>4, <3>1
  <2>2. s.opened
    BY <1>1 DEF Progress
  <2> QED BY <1>1, <1>4, <2>1, <2>2, ReadUnseen
<1> QED BY <1>2, <1>3, <1>4 DEF ReturnsWith, ReadReturns

LEMMA RunsFault == Runs => volume' = volume /\ fault' \in {fault, TRUE}
BY DEF Runs, WalkCached, WalkReads, WalkFails, FillReads, FillFails, OpenReturns, SearchRefuses,
       SearchFinds, SearchEnds, SearchRepeats, ReadAtEnd, ReadAfterError, ReadStarts, CopyReturns,
       Copy, vars

LEMMA ReadingStep ==
  ASSUME StreamsInv, ReadingNow, Runs
  PROVE  BytesStep
<1>1. volume' = volume /\ fault' \in {fault, TRUE}
  BY RunsFault
<1>2. CASE \E s : GoesOnIn(s)
  <2>1. PICK s : GoesOnIn(s)
    BY <1>2
  <2> QED BY <1>1, <2>1, ReadUnseen DEF GoesOnIn
<1>3. CASE \E s, out, remaining, failed : ReturnsWith(s, out, remaining, failed)
  <2>1. PICK s, out, remaining, failed : ReturnsWith(s, out, remaining, failed)
    BY <1>3
  <2> QED BY <1>1, <2>1, ReturnStep
<1> QED BY <1>2, <1>3, ReadingGoesOn DEF ReadAdvances

-----------------------------------------------------------------------------
(***************************************************************************)
(* The streams implement files of bytes: whatever is opened, read line by  *)
(* line or block by block and closed, on any consistent volume and in any  *)
(* order, every call returns the bytes that follow the position, as many   *)
(* as were asked for unless the file ends or the disk fails in the call,   *)
(* and the flags and the NULL of fopen mean what they say.                 *)
(***************************************************************************)
THEOREM StreamsAreFiles == Spec => BytesSpec
<1>1. StreamsInv /\ [Next]_vars => [Bytes!Next]_(Bytes!vars)
  <2> SUFFICES ASSUME StreamsInv, [Next]_vars PROVE BytesStep
    BY DEF BytesStep
  <2>1. CASE Calls
    BY <2>1, CallingStep
  <2>2. CASE Runs
    <3>1. pc # "idle"
      BY <2>2 DEF Runs, WalkCached, WalkReads, WalkFails, Walks, FillReads, FillFails, Fills,
                  OpenReturns, SearchRefuses, SearchFinds, SearchEnds, SearchRepeats, Searches,
                  ReadAtEnd, ReadAfterError, ReadStarts, CopyReturns, Copy
    <3>2. Opening \/ ReadingNow
      BY <3>1 DEF Opening, ReadingNow, UnderWay
    <3> QED BY <2>2, <3>2, OpeningStep, ReadingStep
  <2>3. CASE UNCHANGED vars
    <3>1. OpenStreams' = OpenStreams
      BY <2>3 DEF vars, OpenStreams, Handles
    <3> QED BY <2>3, <3>1, Unseen, FaultTyped DEF vars
  <2> QED BY <2>1, <2>2, <2>3 DEF Next
<1> QED BY <1>1, Begins, StreamsStayInOrder, PTL DEF Spec, BytesSpec, Bytes!Spec
=============================================================================
