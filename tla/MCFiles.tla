------------------------------- MODULE MCFiles -------------------------------
EXTENDS FileStreams

(* A volume is made from a list of objects, each a chain of clusters with  *)
(* the sectors in it, as a formatting tool would write it.                 *)
ByteOf(file, i, char) == [of |-> <<file, i>>, char |-> char]
Slack == ByteOf("slack", 0, "char")
End == [kind |-> "end"]
Deleted == [kind |-> "deleted"]
Entry(name, directory, chain, size) ==
  [kind |-> "file", name |-> name, directory |-> directory,
   cluster |-> IF chain = <<>> THEN 0 ELSE chain[1], size |-> size]

Positions(object) == DOMAIN object.chain
Next1(object, i) == IF i = Len(object.chain) THEN BadCluster + 1 ELSE object.chain[i + 1]

\* The entry of a cluster in the FAT.
Owners(tree, c) ==
  {<<path, i>> \in (DOMAIN tree) \X (1..4) :
     i <= Len(tree[path].chain) /\ tree[path].chain[i] = c}
FatEntry(tree, c) ==
  LET owners == Owners(tree, c)
  IN IF owners = {} THEN 0
     ELSE LET w == CHOOSE w \in owners : TRUE IN Next1(tree[w[1]], w[2])

\* Sector k of an object.
SectorOf(object, k) ==
  IF object.kind = "dir"
    THEN [kind |-> "dir",
          entries |-> IF k <= Len(object.sectors) THEN object.sectors[k] ELSE <<End>>]
    ELSE [kind |-> "data",
          bytes |-> [i \in 1..SectorSize |->
                       LET p == (k - 1) * SectorSize + i
                       IN IF p <= Len(object.bytes) THEN object.bytes[p] ELSE Slack]]

\* A volume from a tree: a function from paths to objects.
MakeVolume(perCluster, tree) ==
  LET reserved == 1
      fatCount == 1
      fatSize == 3
      firstData == reserved + fatCount * fatSize
      clusters == 10
      BytesAt(path) == IF tree[path].kind = "data" THEN tree[path].bytes ELSE <<>>
      Sector(lba) ==
        IF lba < reserved THEN [kind |-> "boot"]
        ELSE IF lba < firstData
          THEN [kind |-> "fat",
                entries |-> [e \in 1..EntriesPerFatSector |->
                   FatEntry(tree, (lba - reserved) * EntriesPerFatSector + e - 1)]]
        ELSE LET c == 2 + (lba - firstData) \div perCluster
                 s == (lba - firstData) % perCluster
                 owners == Owners(tree, c)
             IN IF owners = {} THEN [kind |-> "data", bytes |-> [i \in 1..SectorSize |-> Slack]]
                ELSE LET w == CHOOSE w \in owners : TRUE
                     IN SectorOf(tree[w[1]], (w[2] - 1) * perCluster + s + 1)
  IN [reserved |-> reserved, fatCount |-> fatCount, fatSize |-> fatSize,
      perCluster |-> perCluster, root |-> 2,
      image |-> [lba \in 0..firstData + clusters * perCluster - 1 |-> Sector(lba)],
      objects |-> [path \in DOMAIN tree |->
        [first |-> IF tree[path].chain = <<>> THEN 0 ELSE tree[path].chain[1],
         size |-> Len(BytesAt(path)), directory |-> tree[path].kind = "dir",
         chain |-> tree[path].chain]],
      contents |-> [path \in DOMAIN tree |-> BytesAt(path)]]

\* Text of five bytes in two lines; four bytes, an exact number of sectors, with a 0xFF.
TextA == <<ByteOf("A", 0, "char"), ByteOf("A", 1, "newline"), ByteOf("A", 2, "char"),
           ByteOf("A", 3, "char"), ByteOf("A", 4, "char")>>
TextB == <<ByteOf("B", 0, "char"), ByteOf("B", 1, "char"), ByteOf("B", 2, "0xFF"),
           ByteOf("B", 3, "newline")>>

File(bytes, chain) == [kind |-> "data", bytes |-> bytes, chain |-> chain]
Dir(sectors, chain) == [kind |-> "dir", sectors |-> sectors, chain |-> chain]

\* The root directory, A, D, D/B and the empty file E.
Tree(root, a, d, b) ==
  [path \in {<<>>, <<"A">>, <<"D">>, <<"D", "B">>, <<"E">>} |->
     CASE path = <<>> -> root [] path = <<"A">> -> File(TextA, a)
       [] path = <<"D">> -> Dir(<<<<Entry("B", FALSE, b, 4), End>>>>, d)
       [] path = <<"D", "B">> -> File(TextB, b) [] path = <<"E">> -> File(<<>>, <<>>)]

\* Clusters of one sector, chains that go back and forth over three sectors of the FAT.
Scattered ==
  LET a == <<9, 4, 11>>  b == <<5, 10>>  d == <<3>> IN
  MakeVolume(1,
    Tree(Dir(<<<<Deleted, Entry("A", FALSE, a, 5), Entry("D", TRUE, d, 0)>>,
               <<Entry("E", FALSE, <<>>, 0), End>> >>, <<2, 7>>),
         a, d, b))

\* Clusters of two sectors, and a root directory that ends in its first sector.
Paired ==
  LET a == <<6, 3>>  b == <<9>>  d == <<4>> IN
  MakeVolume(2,
    Tree(Dir(<<<<Entry("A", FALSE, a, 5), Entry("D", TRUE, d, 0), Entry("E", FALSE, <<>>, 0), End>>>>,
             <<2>>),
         a, d, b))

MCCharacters ==
  {TextA[i] : i \in 1..Len(TextA)} \cup {TextB[i] : i \in 1..Len(TextB)} \cup {Slack}
MCVolumes == {Scattered, Paired}
MCPaths == {<<"A">>, <<"D", "B">>, <<"E">>, <<"D", "X">>, <<"A", "B">>}
=============================================================================
