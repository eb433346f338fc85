---------------------------- MODULE FileBlocksProofs ----------------------------
(***************************************************************************)
(* Proofs about FileBlocks for every number of files, blocks, entries and  *)
(* bytes in a block, and for writes of any size up to MaxSize.             *)
(*                                                                         *)
(* Every function that changes the disk leads from a disk whose counters   *)
(* agree with its bitmap (Good) to such a disk, and says what it does to   *)
(* the sizes of the files; the loops stay within these disks.  That is     *)
(* IInv, in the first half.                                                *)
(*                                                                         *)
(* The second half numbers the entries of i_block[] and of the tables of a *)
(* file, its places, in the order in which truncate goes through them.     *)
(* writeToFile fills the places in that order too (NoGap), so the blocks   *)
(* of a file are its first places, as many as i_blocks counts (Packed); no *)
(* two places hold one block (Apart); what is marked is at some place      *)
(* (Shape); and the bytes of a file are at the places of its logical       *)
(* blocks (Contents).  A command keeps this (Kept) for as long as balloc   *)
(* gives it no block that a file had when it began (Clean).                *)
(***************************************************************************)
EXTENDS FileBlocks, InductionLemmas, FiniteSetTheorems, TLAPS

Good == {d \in Disk : d.free = Cardinality(Blocks \ d.used)}
Places == Blocks \cup {NoBlock}

\* The sizes of the files are the same in d and r, or the same but for that of f, now n.
SameSizes(d, r) == \A g \in Files : r.inode[g].i_size = d.inode[g].i_size
SizeBecomes(d, r, f, n) ==
    \A g \in Files : r.inode[g].i_size = IF g = f THEN n ELSE d.inode[g].i_size

\* i_size counts the bytes that were written, at a full disk too, and is 0 after the last
\* unlink.
Sizes ==
    \A f \in Files : /\ disk.inode[f].i_size = Len(text[f]) /\ disk.inode[f].i_size <= MaxSize
                     /\ f \notin files => disk.inode[f].i_size = 0

\* No block is the data or a table of two files, or of one file twice: what balloc gives away
\* while files grow, are copied, truncated and written over has no other place, for as long as
\* it gave no command a block that truncate made free and left in i_block[] (util.c:317-367).
PlacesApart ==
    intact => /\ \A f \in files : IsInjective(Owned(disk, f))
              /\ \A f, g \in files : f # g => ToSet(Owned(disk, f)) \cap ToSet(Owned(disk, g)) = {}

IInv == TypeOK /\ CountersAgree /\ Sizes

-------------------------------------------------------------------------------
LEMMA Constants ==
    /\ NDIRECT \in Nat \ {0} /\ PER \in Nat \ {0} /\ BLKSIZE \in Nat \ {0}
    /\ NBLOCKS \in Nat \ {0} /\ MaxSize \in Nat
    /\ MaxSize <= BLKSIZE * (NDIRECT + PER + PER * PER)
    /\ \A n \in WriteSizes : n \in 1 .. MaxSize
    /\ NoBlock \notin Blocks /\ Places = 0 .. NBLOCKS /\ Blocks \subseteq Nat
BY FileAssumption DEF Blocks, NoBlock, Places

LEMMA DiskTypes ==
    ASSUME NEW d \in Disk
    PROVE  /\ d.used \in SUBSET Blocks /\ d.free \in Int /\ d.inode \in [Files -> Inode]
           /\ d.table \in [0 .. NBLOCKS -> Table]
           /\ d.bytes \in [0 .. NBLOCKS -> [0 .. BLKSIZE - 1 -> Byte]]
BY DEF Disk

LEMMA InodeTypes ==
    ASSUME NEW d \in Disk, NEW f \in Files
    PROVE  /\ d.inode[f] \in Inode /\ d.inode[f].i_blocks \in Nat /\ d.inode[f].i_size \in Nat
           /\ d.inode[f].i_block \in [0 .. DIND -> Places]
BY DiskTypes DEF Inode, Places

\* Quotient and remainder.
LEMMA Division ==
    ASSUME NEW a \in Nat, NEW p \in Nat \ {0}
    PROVE  /\ a \div p \in Nat /\ a % p \in 0 .. p - 1
           /\ a = (p * (a \div p)) + (a % p)
OBVIOUS

LEMMA QuotientBelow ==
    ASSUME NEW a \in Nat, NEW p \in Nat \ {0}, NEW n \in Nat, a < p * n
    PROVE  a \div p < n
<1> DEFINE q == a \div p
           r == a % p
<1>1. q \in Nat /\ r \in Nat /\ a = (p * q) + r
  BY Division
<1> HIDE DEF q, r
<1>2. p * q \in Nat /\ p * n \in Nat
  BY <1>1
<1>3. ASSUME q >= n PROVE FALSE
  <2>1. p * q >= p * n
    BY <1>1, <1>3
  <2> QED BY <1>1, <1>2, <2>1
<1>4. q < n
  BY <1>1, <1>3
<1> QED BY <1>4 DEF q

-------------------------------------------------------------------------------
\* What the assignments make of a disk.
SameBits(d, r) == r.used = d.used /\ r.free = d.free

LEMMA SetInodeParts ==
    ASSUME NEW d \in Disk, NEW f \in Files, NEW node \in Inode, NEW r, r = SetInode(d, f, node)
    PROVE  /\ r \in Disk /\ SameBits(d, r) /\ r.table = d.table /\ r.bytes = d.bytes
           /\ r.inode = [d.inode EXCEPT ![f] = node]
<1> DEFINE m == [d.inode EXCEPT ![f] = node]
<1>1. m \in [Files -> Inode]
  BY DiskTypes
<1>2. r = [d EXCEPT !.inode = m]
  BY DEF SetInode
<1> HIDE DEF m
<1>3. r \in Disk /\ SameBits(d, r) /\ r.table = d.table /\ r.bytes = d.bytes /\ r.inode = m
  BY <1>1, <1>2 DEF Disk, SameBits
<1> QED BY <1>3 DEF m

LEMMA SetTableParts ==
    ASSUME NEW d \in Disk, NEW at, NEW entries \in Table, NEW r, r = SetTable(d, at, entries)
    PROVE  r \in Disk /\ SameBits(d, r) /\ r.inode = d.inode
<1> DEFINE m == [d.table EXCEPT ![at] = entries]
<1>1. m \in [0 .. NBLOCKS -> Table]
  BY DiskTypes
<1>2. r = [d EXCEPT !.table = m]
  BY DEF SetTable
<1> HIDE DEF m
<1> QED BY <1>1, <1>2 DEF Disk, SameBits

LEMMA SetBytesParts ==
    ASSUME NEW d \in Disk, NEW at, NEW bytes \in [0 .. BLKSIZE - 1 -> Byte],
           NEW r, r = SetBytes(d, at, bytes)
    PROVE  r \in Disk /\ SameBits(d, r) /\ r.inode = d.inode
<1> DEFINE m == [d.bytes EXCEPT ![at] = bytes]
<1>1. m \in [0 .. NBLOCKS -> [0 .. BLKSIZE - 1 -> Byte]]
  BY DiskTypes
<1>2. r = [d EXCEPT !.bytes = m]
  BY DEF SetBytes
<1> HIDE DEF m
<1> QED BY <1>1, <1>2 DEF Disk, SameBits

LEMMA SetBlockGood ==
    ASSUME NEW d \in Good, NEW f \in Files, NEW k, NEW b \in Places, NEW r, r = SetBlock(d, f, k, b)
    PROVE  r \in Good /\ SameSizes(d, r)
<1> DEFINE entries == [d.inode[f].i_block EXCEPT ![k] = b]
           node == [d.inode[f] EXCEPT !.i_block = entries]
<1>1. d \in Disk /\ d.free = Cardinality(Blocks \ d.used)
  BY DEF Good
<1>2. entries \in [0 .. DIND -> Places] /\ d.inode[f] \in Inode
  BY <1>1, InodeTypes
<1>3. r = SetInode(d, f, node)
  BY DEF SetBlock
<1> HIDE DEF entries
<1>4. node \in Inode /\ node.i_size = d.inode[f].i_size
  BY <1>2 DEF Inode, Places
<1> HIDE DEF node
<1>5. r \in Disk /\ SameBits(d, r) /\ r.inode = [d.inode EXCEPT ![f] = node]
  BY <1>1, <1>3, <1>4, SetInodeParts
<1>6. SameSizes(d, r)
  BY <1>1, <1>4, <1>5, DiskTypes DEF SameSizes
<1> QED BY <1>1, <1>5, <1>6 DEF Good, SameBits

LEMMA SetCountGood ==
    ASSUME NEW d \in Good, NEW f \in Files, NEW n \in Nat, NEW r, r = SetCount(d, f, n)
    PROVE  r \in Good /\ SameSizes(d, r)
<1> DEFINE node == [d.inode[f] EXCEPT !.i_blocks = n]
<1>1. d \in Disk /\ d.free = Cardinality(Blocks \ d.used)
  BY DEF Good
<1>2. d.inode[f] \in Inode
  BY <1>1, InodeTypes
<1>3. r = SetInode(d, f, node)
  BY DEF SetCount
<1>4. node \in Inode /\ node.i_size = d.inode[f].i_size
  BY <1>2 DEF Inode
<1> HIDE DEF node
<1>5. r \in Disk /\ SameBits(d, r) /\ r.inode = [d.inode EXCEPT ![f] = node]
  BY <1>1, <1>3, <1>4, SetInodeParts
<1>6. SameSizes(d, r)
  BY <1>1, <1>4, <1>5, DiskTypes DEF SameSizes
<1> QED BY <1>1, <1>5, <1>6 DEF Good, SameBits

LEMMA SetSizeGood ==
    ASSUME NEW d \in Good, NEW f \in Files, NEW n \in Nat, NEW r, r = SetSize(d, f, n)
    PROVE  r \in Good /\ SizeBecomes(d, r, f, n)
<1> DEFINE node == [d.inode[f] EXCEPT !.i_size = n]
<1>1. d \in Disk /\ d.free = Cardinality(Blocks \ d.used)
  BY DEF Good
<1>2. d.inode[f] \in Inode
  BY <1>1, InodeTypes
<1>3. r = SetInode(d, f, node)
  BY DEF SetSize
<1>4. node \in Inode /\ node.i_size = n
  BY <1>2 DEF Inode
<1> HIDE DEF node
<1>5. r \in Disk /\ SameBits(d, r) /\ r.inode = [d.inode EXCEPT ![f] = node]
  BY <1>1, <1>3, <1>4, SetInodeParts
<1>6. SizeBecomes(d, r, f, n)
  BY <1>1, <1>4, <1>5, DiskTypes DEF SizeBecomes
<1> QED BY <1>1, <1>5, <1>6 DEF Good, SameBits

-------------------------------------------------------------------------------
\* balloc and bdalloc keep the counters with the bitmap.
LEMMA BlocksFinite ==
    ASSUME NEW S \in SUBSET Blocks
    PROVE  IsFiniteSet(S) /\ Cardinality(S) \in Nat
<1>1. IsFiniteSet(Blocks)
  BY Constants, FS_Interval DEF Blocks
<1> QED BY <1>1, FS_Subset, FS_CardinalityType

LEMMA UseGood ==
    ASSUME NEW d \in Good, NEW b \in Blocks \ d.used, NEW r, r = Use(d, b)
    PROVE  r \in Good /\ r.inode = d.inode
<1>1. d \in Disk /\ d.free = Cardinality(Blocks \ d.used) /\ d.used \in SUBSET Blocks
  BY DiskTypes DEF Good
<1>2. /\ r \in Disk /\ r.inode = d.inode /\ r.used = d.used \cup {b} /\ r.free = d.free - 1
  <2> DEFINE u == d.used \cup {b}
             n == d.free - 1
  <2>1. u \in SUBSET Blocks /\ n \in Int
    BY <1>1, DiskTypes
  <2>2. r = [d EXCEPT !.used = u, !.free = n]
    BY DEF Use
  <2> HIDE DEF u, n
  <2>3. r \in Disk /\ r.inode = d.inode /\ r.used = u /\ r.free = n
    BY <1>1, <2>1, <2>2 DEF Disk
  <2> QED BY <2>3 DEF u, n
<1>3. Cardinality(Blocks \ r.used) = Cardinality(Blocks \ d.used) - 1
  <2>1. Blocks \ r.used = (Blocks \ d.used) \ {b}
    BY <1>2
  <2> DEFINE F == Blocks \ d.used
  <2>2. IsFiniteSet(F) /\ b \in F
    BY BlocksFinite
  <2> HIDE DEF F
  <2>3. Cardinality(F \ {b}) = Cardinality(F) - 1
    BY <2>2, FS_RemoveElement
  <2> QED BY <2>1, <2>3 DEF F
<1> QED BY <1>1, <1>2, <1>3 DEF Good

LEMMA ReleaseGood ==
    ASSUME NEW d \in Good, NEW b \in d.used, NEW r, r = Release(d, b)
    PROVE  r \in Good /\ r.inode = d.inode
<1>1. d \in Disk /\ d.free = Cardinality(Blocks \ d.used) /\ d.used \in SUBSET Blocks
  BY DiskTypes DEF Good
<1>2. /\ r \in Disk /\ r.inode = d.inode /\ r.used = d.used \ {b} /\ r.free = d.free + 1
  <2> DEFINE u == d.used \ {b}
             n == d.free + 1
  <2>1. u \in SUBSET Blocks /\ n \in Int
    BY <1>1, DiskTypes
  <2>2. r = [d EXCEPT !.used = u, !.free = n]
    BY DEF Release
  <2> HIDE DEF u, n
  <2>3. r \in Disk /\ r.inode = d.inode /\ r.used = u /\ r.free = n
    BY <1>1, <2>1, <2>2 DEF Disk
  <2> QED BY <2>3 DEF u, n
<1>3. Cardinality(Blocks \ r.used) = Cardinality(Blocks \ d.used) + 1
  <2>1. Blocks \ r.used = (Blocks \ d.used) \cup {b} /\ b \notin Blocks \ d.used
    BY <1>1, <1>2
  <2> DEFINE F == Blocks \ d.used
  <2>2. IsFiniteSet(F) /\ b \notin F
    BY <2>1, BlocksFinite
  <2> HIDE DEF F
  <2>3. Cardinality(F \cup {b}) = Cardinality(F) + 1
    BY <2>2, FS_AddElement
  <2> QED BY <2>1, <2>3 DEF F
<1> QED BY <1>1, <1>2, <1>3 DEF Good

\* A block whose bit is clear is left alone.
LEMMA BdallocGood ==
    ASSUME NEW d \in Good, NEW b, NEW r, r = bdalloc(d, b)
    PROVE  r \in Good /\ r.inode = d.inode
BY ReleaseGood DEF bdalloc

LEMMA FreeBlockIsFree ==
    ASSUME NEW d \in Good, ~Full(d)
    PROVE  FreeBlock(d) \in Blocks \ d.used
<1> DEFINE S == Blocks \ d.used
<1>1. S \in SUBSET Nat /\ S # {}
  BY Constants, DiskTypes DEF Full, Good
<1>2. FreeBlock(d) = CHOOSE x \in S : \A y \in S : x <= y
  BY DEF FreeBlock
<1> HIDE DEF S
<1>3. FreeBlock(d) \in S
  BY <1>1, <1>2, LeastNat
<1> QED BY <1>3 DEF S

LEMMA BallocGood ==
    ASSUME NEW d \in Good, ~Full(d), NEW r, r = balloc(d)
    PROVE  r \in Good /\ r.inode = d.inode
<1> DEFINE b == FreeBlock(d)
           p == Use(d, b)
           q == SetTable(p, b, NoEntries)
<1>1. b \in Blocks \ d.used
  BY FreeBlockIsFree
<1>2. r = SetBytes(q, b, NoBytes)
  BY DEF balloc
<1>3. NoEntries \in Table /\ NoBytes \in [0 .. BLKSIZE - 1 -> Byte]
  BY DEF NoEntries, Table, NoBytes, Byte
<1> HIDE DEF b
<1>4. p \in Good /\ p.inode = d.inode
  BY <1>1, UseGood
<1> HIDE DEF p
<1>5. q \in Disk /\ SameBits(p, q) /\ q.inode = p.inode
  BY <1>3, <1>4, SetTableParts DEF Good
<1> HIDE DEF q
<1>6. r \in Disk /\ SameBits(q, r) /\ r.inode = q.inode
  BY <1>2, <1>3, <1>5, SetBytesParts
<1> QED BY <1>4, <1>5, <1>6 DEF Good, SameBits

-------------------------------------------------------------------------------
\* The levels of indirection.
LEMMA SameSizesTwice ==
    ASSUME NEW d, NEW p, NEW r, SameSizes(d, p), SameSizes(p, r)
    PROVE  SameSizes(d, r)
BY DEF SameSizes

LEMMA SetEntryGood ==
    ASSUME NEW d \in Good, NEW f \in Files, NEW at \in Places, NEW k, NEW b \in Blocks,
           NEW r, r = SetEntry(d, f, at, k, b)
    PROVE  r \in Good /\ SameSizes(d, r)
<1>1. CASE at = NoBlock
  BY <1>1, SetBlockGood DEF SetEntry, Places
<1>2. CASE at # NoBlock
  <2> DEFINE entries == [d.table[at] EXCEPT ![k] = b]
  <2>1. d \in Disk /\ at \in 0 .. NBLOCKS
    BY Constants DEF Good
  <2>2. d.table[at] \in Table
    BY <2>1, DiskTypes
  <2>3. entries \in Table
    BY <2>2 DEF Table
  <2>4. r = SetTable(d, at, entries)
    BY <1>2 DEF SetEntry
  <2> HIDE DEF entries
  <2>5. r \in Disk /\ SameBits(d, r) /\ r.inode = d.inode
    BY <2>1, <2>3, <2>4, SetTableParts
  <2> QED BY <2>5 DEF Good, SameBits, SameSizes
<1> QED BY <1>1, <1>2

LEMMA ExtendGood ==
    ASSUME NEW d \in Good, ~Full(d), NEW f \in Files, NEW at \in Places, NEW k,
           NEW r, r = Extend(d, f, at, k)
    PROVE  r \in Good /\ SameSizes(d, r)
<1> DEFINE p == balloc(d)
           q == SetEntry(p, f, at, k, FreeBlock(d))
           n == q.inode[f].i_blocks + 2
<1>1. r = SetCount(q, f, n)
  BY DEF Extend
<1>2. FreeBlock(d) \in Blocks
  BY FreeBlockIsFree
<1>3. p \in Good /\ p.inode = d.inode
  BY BallocGood
<1> HIDE DEF p
<1>4. q \in Good /\ SameSizes(p, q)
  BY <1>2, <1>3, SetEntryGood
<1> HIDE DEF q
<1>5. n \in Nat
  BY <1>4, InodeTypes DEF Good
<1> HIDE DEF n
<1>6. r \in Good /\ SameSizes(q, r)
  BY <1>1, <1>4, <1>5, SetCountGood
<1> QED BY <1>3, <1>4, <1>6 DEF SameSizes

\* The entries on the way to a logical block that a file can have.
LogicalRange == 0 .. (NDIRECT + PER + PER * PER) - 1

LEMMA PathRange ==
    ASSUME NEW l \in LogicalRange
    PROVE  /\ Len(Path(l)) \in 1 .. 3 /\ Path(l)[1] \in 0 .. DIND
           /\ \A k \in 2 .. Len(Path(l)) : Path(l)[k] \in 0 .. PER - 1
<1>1. l \in Nat /\ NDIRECT \in Nat \ {0} /\ PER \in Nat \ {0} /\ PER * PER \in Nat
      /\ l < NDIRECT + PER + PER * PER
  BY Constants DEF LogicalRange
<1>2. CASE l < NDIRECT
  BY <1>1, <1>2 DEF Path, DIND
<1>3. CASE ~(l < NDIRECT) /\ l < NDIRECT + PER
  BY <1>1, <1>3 DEF Path, DIND, IND
<1>4. CASE ~(l < NDIRECT) /\ ~(l < NDIRECT + PER)
  <2> DEFINE a == l - NDIRECT - PER
             q == a \div PER
             r == a % PER
  <2>1. a \in Nat /\ a < PER * PER
    BY <1>1, <1>4
  <2>2. Path(l) = <<DIND, q, r>>
    BY <1>4 DEF Path
  <2> HIDE DEF a
  <2>3. q \in Nat /\ r \in 0 .. PER - 1
    BY <1>1, <2>1, Division
  <2>4. q < PER
    BY <1>1, <2>1, QuotientBelow
  <2> HIDE DEF q, r
  <2> QED BY <1>1, <2>2, <2>3, <2>4 DEF DIND
<1> QED BY <1>2, <1>3, <1>4

\* Where a walk down the tables is after n levels of a file f.
Levels == [disk : Good, at : Places, ok : BOOLEAN]
Level(d, n) ==
    {a \in Levels : /\ SameSizes(d, a.disk)
                    /\ a.ok = TRUE => (IF n = 0 THEN a.at = NoBlock ELSE a.at \in Blocks)}

LEMMA DescendKeeps ==
    ASSUME NEW d \in Good, NEW f \in Files, NEW n \in Nat, NEW a \in Level(d, n), NEW k,
           IF n = 0 THEN k \in 0 .. DIND ELSE k \in 0 .. PER - 1, NEW r, r = Descend(f, a, k)
    PROVE  r \in Level(d, n + 1)
<1> DEFINE b == Entry(a.disk, f, a.at, k)
<1>1. /\ a \in Levels /\ a.disk \in Good /\ a.at \in Places /\ a.ok \in BOOLEAN
      /\ SameSizes(d, a.disk)
  BY DEF Level, Levels
<1>2. CASE a.ok # TRUE
  <2>1. a.ok = FALSE
    BY <1>1, <1>2
  <2>2. r = a
    BY <2>1 DEF Descend
  <2> QED BY <1>1, <1>2, <2>2 DEF Level
<1>3. CASE a.ok = TRUE
  <2>1. a.disk \in Disk
    BY <1>1 DEF Good
  <2>2. b \in Places
    <3>1. CASE n = 0
      <4>1. a.at = NoBlock /\ k \in 0 .. DIND
        BY <1>3, <3>1 DEF Level
      <4>2. b = a.disk.inode[f].i_block[k]
        BY <4>1 DEF Entry
      <4> QED BY <2>1, <4>1, <4>2, InodeTypes
    <3>2. CASE n # 0
      <4>1. a.at \in Blocks /\ k \in 0 .. PER - 1
        BY <1>3, <3>2 DEF Level
      <4>2. a.at # NoBlock /\ a.at \in 0 .. NBLOCKS
        BY <4>1, Constants DEF Blocks
      <4>3. b = a.disk.table[a.at][k]
        BY <4>2 DEF Entry
      <4>4. a.disk.table[a.at] \in Table
        BY <2>1, <4>2, DiskTypes
      <4> QED BY <4>1, <4>3, <4>4 DEF Table, Places
    <3> QED BY <3>1, <3>2
  <2>3. r = IF b # NoBlock THEN [disk |-> a.disk, at |-> b, ok |-> TRUE]
            ELSE IF Full(a.disk) THEN [disk |-> a.disk, at |-> a.at, ok |-> FALSE]
            ELSE [disk |-> Extend(a.disk, f, a.at, k), at |-> FreeBlock(a.disk), ok |-> TRUE]
    BY <1>3 DEF Descend
  <2> HIDE DEF b
  <2>4. CASE b # NoBlock
    BY <1>1, <2>2, <2>3, <2>4 DEF Level, Levels, Places
  <2>5. CASE b = NoBlock /\ Full(a.disk)
    BY <1>1, <2>3, <2>5 DEF Level, Levels
  <2>6. CASE b = NoBlock /\ ~Full(a.disk)
    <3> DEFINE e == Extend(a.disk, f, a.at, k)
               new == FreeBlock(a.disk)
    <3>1. e \in Good /\ SameSizes(a.disk, e)
      BY <1>1, <2>6, ExtendGood
    <3>2. new \in Blocks
      BY <1>1, <2>6, FreeBlockIsFree
    <3>3. r = [disk |-> e, at |-> new, ok |-> TRUE]
      BY <2>3, <2>6
    <3> HIDE DEF e, new
    <3>4. SameSizes(d, e)
      BY <1>1, <3>1, SameSizesTwice
    <3>5. r \in Levels /\ r.disk = e /\ r.at = new
      BY <3>1, <3>2, <3>3 DEF Levels, Places
    <3> QED BY <3>2, <3>4, <3>5 DEF Level
  <2> QED BY <2>4, <2>5, <2>6
<1> QED BY <1>2, <1>3

\* The levels that Locate goes through, and where it ends.
Levelled(d, f, l, h) ==
    /\ h[0] = [disk |-> d, at |-> NoBlock, ok |-> TRUE]
    /\ \A n \in 1 .. Len(Path(l)) : h[n] = Descend(f, h[n - 1], Path(l)[n])
    /\ \A n \in 0 .. Len(Path(l)) : h[n] \in Level(d, n)
    /\ Locate(d, f, l) = h[Len(Path(l))]

LEMMA LocateLoop ==
    ASSUME NEW d \in Good, NEW f \in Files, NEW l \in LogicalRange
    PROVE  \E h : Levelled(d, f, l, h)
<1> DEFINE r == Locate(d, f, l)
           path == Path(l)
           N == Len(path)
           start == [disk |-> d, at |-> NoBlock, ok |-> TRUE]
           g == [n \in 1 .. N |-> [x \in Levels |->
                    IF x \in Level(d, n - 1) THEN Descend(f, x, path[n]) ELSE x]]
           Loop(h) == [k \in 0 .. N |->
                        IF k = 0 THEN [disk |-> d, at |-> NoBlock, ok |-> TRUE]
                        ELSE Descend(f, h[k - 1], path[k])]
           level == CHOOSE h : h = Loop(h)
<1>1. N \in 1 .. 3 /\ path[1] \in 0 .. DIND /\ \A k \in 2 .. N : path[k] \in 0 .. PER - 1
  BY PathRange
<1>2. r = level[N]
  BY Zenon DEF Locate
<1> HIDE DEF path, N
<1>3. start \in Level(d, 0)
  BY DEF Level, Levels, Places, SameSizes
<1>4. ASSUME NEW n \in 1 .. N, NEW x \in Level(d, n - 1)
      PROVE  Descend(f, x, path[n]) \in Level(d, n)
  <2>1. n - 1 \in Nat /\ (n - 1) + 1 = n
    BY <1>1
  <2>2. IF n - 1 = 0 THEN path[n] \in 0 .. DIND ELSE path[n] \in 0 .. PER - 1
    BY <1>1
  <2> QED BY <2>1, <2>2, DescendKeeps
<1>5. \A n : Level(d, n) \subseteq Levels
  BY DEF Level
<1> HIDE DEF start
<1>6. \E h : h = Loop(h)
  <2>1. g \in [1 .. N -> [Levels -> Levels]]
    BY <1>4, <1>5
  <2> HIDE DEF g
  <2>2. HasRecursion(N, Levels, start, g)
    BY <1>1, <1>3, <1>5, <2>1, RecursionExists
  <2>3. PICK h \in [0 .. N -> Levels] : h[0] = start /\ \A n \in 1 .. N : h[n] = g[n][h[n - 1]]
    BY <2>2 DEF HasRecursion
  <2>4. ASSUME NEW n \in 1 .. N, h[n - 1] \in Level(d, n - 1)
        PROVE  h[n] = Descend(f, h[n - 1], path[n]) /\ h[n] \in Level(d, n)
    <3>1. g[n][h[n - 1]] = Descend(f, h[n - 1], path[n])
      BY <1>5, <2>4 DEF g
    <3> QED BY <1>4, <2>3, <2>4, <3>1
  <2> DEFINE T == {n \in 0 .. N : h[n] \in Level(d, n)}
  <2>5. 0 .. N \subseteq T
    <3>1. 0 \in T
      BY <1>1, <1>3, <2>3
    <3>2. ASSUME NEW n \in 0 .. N - 1, n \in T PROVE n + 1 \in T
      <4>1. n + 1 \in 1 .. N /\ (n + 1) - 1 = n /\ n + 1 \in 0 .. N
        BY <1>1
      <4> QED BY <2>4, <3>2, <4>1
    <3> HIDE DEF T
    <3> QED BY <1>1, <3>1, <3>2, SetInduction
  <2>6. \A n \in 1 .. N : h[n] = Descend(f, h[n - 1], path[n])
    <3> SUFFICES ASSUME NEW n \in 1 .. N PROVE h[n] = Descend(f, h[n - 1], path[n])
      OBVIOUS
    <3>1. n - 1 \in 0 .. N
      BY <1>1
    <3>2. h[n - 1] \in Level(d, n - 1)
      BY <2>5, <3>1
    <3> QED BY <2>4, <3>2
  <2>7. h = Loop(h)
    BY <1>1, <2>3, <2>6 DEF start
  <2> QED BY <2>7
<1>7. level = Loop(level)
  BY <1>6, Zenon
<1> HIDE DEF level
<1>8. level[0] = start /\ \A n \in 1 .. N : level[n] = Descend(f, level[n - 1], path[n])
  <2>1. N \in Nat /\ 0 \in 0 .. N
    BY <1>1
  <2>2. level[0] = start
    BY <1>7, <2>1 DEF start
  <2>3. ASSUME NEW n \in 1 .. N PROVE level[n] = Descend(f, level[n - 1], path[n])
    <3>1. n \in 0 .. N /\ n # 0
      BY <2>1
    <3> QED BY <1>7, <3>1
  <2> QED BY <2>2, <2>3
<1> DEFINE S == {n \in 0 .. N : level[n] \in Level(d, n)}
<1>9. 0 .. N \subseteq S
  <2>1. 0 \in S
    BY <1>1, <1>3, <1>8
  <2>2. ASSUME NEW n \in 0 .. N - 1, n \in S PROVE n + 1 \in S
    <3>1. n + 1 \in 1 .. N /\ (n + 1) - 1 = n /\ n + 1 \in 0 .. N
      BY <1>1
    <3>2. level[n + 1] = Descend(f, level[n], path[n + 1])
      BY <1>8, <3>1
    <3>3. level[n] \in Level(d, (n + 1) - 1)
      BY <2>2, <3>1
    <3>4. level[n + 1] \in Level(d, n + 1)
      BY <1>4, <3>1, <3>2, <3>3
    <3> QED BY <3>1, <3>4
  <2> HIDE DEF S
  <2> QED BY <1>1, <2>1, <2>2, SetInduction
<1>10. \A n \in 0 .. N : level[n] \in Level(d, n)
  BY <1>9
<1> HIDE DEF r
<1>11. Levelled(d, f, l, level)
  BY <1>2, <1>8, <1>10 DEF Levelled, start, N, path, r
<1> QED BY <1>11

LEMMA LocateGood ==
    ASSUME NEW d \in Good, NEW f \in Files, NEW l \in LogicalRange, NEW r, r = Locate(d, f, l)
    PROVE  /\ r \in Levels /\ SameSizes(d, r.disk)
           /\ r.ok = TRUE => r.at \in Blocks
<1>1. PICK h : Levelled(d, f, l, h)
  BY LocateLoop
<1>2. Len(Path(l)) \in 1 .. 3
  BY PathRange
<1>3. r \in Level(d, Len(Path(l))) /\ Len(Path(l)) # 0
  BY <1>1, <1>2 DEF Levelled
<1> QED BY <1>3 DEF Level

-------------------------------------------------------------------------------
\* writeToFile: a write that begins at from, the end of f, with total the end it would have.
Rounds == [disk : Good, offset : Nat, left : Seq(Byte), ok : BOOLEAN]
Round(d, f, from, total) ==
    {a \in Rounds : /\ SizeBecomes(d, a.disk, f, a.offset) /\ a.offset + Len(a.left) = total
                    /\ from <= a.offset}

LEMMA OverlayBytes ==
    ASSUME NEW block \in [0 .. BLKSIZE - 1 -> Byte], NEW start \in 0 .. BLKSIZE - 1,
           NEW s \in Seq(Byte), NEW n \in 0 .. Len(s)
    PROVE  Overlay(block, start, n, s) \in [0 .. BLKSIZE - 1 -> Byte]
<1>1. BLKSIZE \in Nat /\ start \in Nat /\ n \in Nat /\ Len(s) \in Nat
  BY Constants
<1>2. \A k \in 0 .. BLKSIZE - 1 : k \in start .. start + n - 1 => s[k - start + 1] \in Byte
  <2> SUFFICES ASSUME NEW k \in 0 .. BLKSIZE - 1, k \in start .. start + n - 1
               PROVE  s[k - start + 1] \in Byte
    OBVIOUS
  <2>1. k - start + 1 \in 1 .. Len(s)
    BY <1>1
  <2> QED BY <2>1
<1> QED BY <1>2 DEF Overlay

LEMMA PutKeeps ==
    ASSUME NEW d \in Disk, NEW f \in Files, NEW from \in Nat, NEW total \in Nat,
           NEW a \in Round(d, f, from, total),
           NEW e \in Good, SameSizes(a.disk, e), NEW at \in Blocks,
           NEW n \in 0 .. Len(a.left), NEW r, r = Put(f, a, e, at, n)
    PROVE  r \in Round(d, f, from, total)
<1> DEFINE bytes == Overlay(e.bytes[at], a.offset % BLKSIZE, n, a.left)
           filled == SetBytes(e, at, bytes)
           size == Most(e.inode[f].i_size, a.offset + n)
           rest == SubSeq(a.left, n + 1, Len(a.left))
           to == SetSize(filled, f, size)
<1>1. /\ a.disk \in Good /\ a.offset \in Nat /\ a.left \in Seq(Byte) /\ n \in Nat
      /\ SizeBecomes(d, a.disk, f, a.offset) /\ a.offset + Len(a.left) = total
      /\ from <= a.offset
  BY DEF Round, Rounds
<1>2. e \in Disk /\ at \in 0 .. NBLOCKS
  BY DEF Good, Blocks
<1>3. bytes \in [0 .. BLKSIZE - 1 -> Byte]
  <2>1. e.bytes[at] \in [0 .. BLKSIZE - 1 -> Byte]
    BY <1>2, DiskTypes
  <2>2. a.offset % BLKSIZE \in 0 .. BLKSIZE - 1
    BY <1>1, Constants, Division
  <2> QED BY <1>1, <2>1, <2>2, OverlayBytes
<1>4. size = a.offset + n
  <2>1. e.inode[f].i_size = a.offset
    BY <1>1 DEF SameSizes, SizeBecomes
  <2> QED BY <1>1, <2>1 DEF Most
<1>5. rest \in Seq(Byte) /\ Len(rest) = Len(a.left) - n
  BY <1>1
<1>6. r = [disk |-> to, offset |-> a.offset + n, left |-> rest, ok |-> TRUE]
  BY DEF Put
<1> HIDE DEF bytes
<1>7. filled \in Good /\ filled.inode = e.inode
  <2>1. filled \in Disk /\ SameBits(e, filled) /\ filled.inode = e.inode
    BY <1>2, <1>3, SetBytesParts
  <2> QED BY <2>1 DEF Good, SameBits
<1> HIDE DEF filled, size
<1>8. size \in Nat
  BY <1>1, <1>4
<1>9. to \in Good /\ SizeBecomes(filled, to, f, size)
  BY <1>7, <1>8, SetSizeGood
<1> HIDE DEF to, rest
<1>10. SizeBecomes(d, to, f, a.offset + n)
  BY <1>1, <1>4, <1>7, <1>9 DEF SizeBecomes, SameSizes
<1>11. r \in Rounds /\ r.disk = to /\ r.offset = a.offset + n /\ r.left = rest
  BY <1>1, <1>5, <1>6, <1>9 DEF Rounds
<1>12. r.offset + Len(r.left) = total /\ from <= r.offset
  BY <1>1, <1>5, <1>11
<1> QED BY <1>10, <1>11, <1>12 DEF Round

LEMMA RoundKeeps ==
    ASSUME NEW d \in Disk, NEW f \in Files, NEW from \in Nat,
           NEW total \in 0 .. MaxSize,
           NEW a \in Round(d, f, from, total), NEW r, r = WriteRound(f, a)
    PROVE  r \in Round(d, f, from, total)
<1> DEFINE l == a.offset \div BLKSIZE
           s == a.offset % BLKSIZE
           to == Locate(a.disk, f, l)
           n == Least(BLKSIZE - s, Len(a.left))
<1>1. /\ a.disk \in Good /\ a.offset \in Nat /\ a.left \in Seq(Byte) /\ a.ok \in BOOLEAN
      /\ SizeBecomes(d, a.disk, f, a.offset) /\ a.offset + Len(a.left) = total
      /\ from <= a.offset
      /\ total \in Nat /\ total <= MaxSize
  BY Constants DEF Round, Rounds
<1>2. CASE a.left = <<>> \/ a.ok # TRUE
  <2>1. r = a
    BY <1>1, <1>2 DEF WriteRound
  <2> QED BY <2>1
<1>3. CASE a.left # <<>> /\ a.ok = TRUE
  <2>1. Len(a.left) \in Nat \ {0}
    BY <1>1, <1>3
  <2>2. l \in LogicalRange
    <3>1. NDIRECT + PER + PER * PER \in Nat /\ BLKSIZE \in Nat \ {0} /\ MaxSize \in Nat
          /\ MaxSize <= BLKSIZE * (NDIRECT + PER + PER * PER)
      BY Constants
    <3> DEFINE m == NDIRECT + PER + PER * PER
    <3>2. m \in Nat /\ MaxSize <= BLKSIZE * m
      BY <3>1
    <3> HIDE DEF m
    <3>3. BLKSIZE * m \in Nat
      BY <3>1, <3>2
    <3>4. a.offset < BLKSIZE * m
      BY <1>1, <2>1, <3>1, <3>2, <3>3
    <3>5. l < m
      BY <1>1, <3>1, <3>2, <3>4, QuotientBelow
    <3>6. l \in Nat
      BY <1>1, <3>1, Division
    <3> HIDE DEF l
    <3>7. l \in 0 .. m - 1
      BY <3>2, <3>5, <3>6
    <3>8. LogicalRange = 0 .. m - 1
      BY DEF m, LogicalRange
    <3> QED BY <3>7, <3>8
  <2>3. s \in 0 .. BLKSIZE - 1
    BY <1>1, Constants, Division
  <2>4. r = IF ~to.ok THEN [disk |-> to.disk, offset |-> a.offset, left |-> a.left, ok |-> FALSE]
            ELSE Put(f, a, to.disk, to.at, n)
    BY <1>3 DEF WriteRound
  <2> HIDE DEF l
  <2>5. /\ to \in Levels /\ SameSizes(a.disk, to.disk)
        /\ to.ok = TRUE => to.at \in Blocks
    BY <1>1, <2>2, LocateGood
  <2> HIDE DEF to
  <2>6. CASE to.ok # TRUE
    <3>1. r = [disk |-> to.disk, offset |-> a.offset, left |-> a.left, ok |-> FALSE]
      BY <2>4, <2>5, <2>6 DEF Levels
    <3>2. SizeBecomes(d, to.disk, f, a.offset)
      BY <1>1, <2>5 DEF SizeBecomes, SameSizes
    <3>3. to.disk \in Good
      BY <2>5 DEF Levels
    <3> QED BY <1>1, <3>1, <3>2, <3>3 DEF Round, Rounds
  <2>7. CASE to.ok = TRUE
    <3>1. n \in 0 .. Len(a.left)
      BY <2>1, <2>3, Constants DEF Least
    <3> HIDE DEF n, s
    <3>2. r = Put(f, a, to.disk, to.at, n) /\ to.at \in Blocks /\ to.disk \in Good
      BY <2>4, <2>5, <2>7 DEF Levels
    <3> QED BY <1>1, <2>5, <3>1, <3>2, PutKeeps
  <2> QED BY <2>6, <2>7
<1> QED BY <1>1, <1>2, <1>3

\* The rounds that writeToFile goes through, and where it ends.
RoundsOf(d, f, offset, s, h) ==
    /\ h[0] = [disk |-> d, offset |-> offset, left |-> s, ok |-> TRUE]
    /\ \A n \in 1 .. Len(s) : h[n] = WriteRound(f, h[n - 1])
    /\ \A n \in 0 .. Len(s) : h[n] \in Round(d, f, offset, offset + Len(s))
    /\ writeToFile(d, f, offset, s) = h[Len(s)]

LEMMA WriteLoop ==
    ASSUME NEW d \in Good, NEW f \in Files, NEW offset \in Nat, d.inode[f].i_size = offset,
           NEW s \in Seq(Byte), offset + Len(s) <= MaxSize
    PROVE  \E h : RoundsOf(d, f, offset, s, h)
<1> DEFINE r == writeToFile(d, f, offset, s)
           N == Len(s)
           S == Round(d, f, offset, offset + N)
           start == [disk |-> d, offset |-> offset, left |-> s, ok |-> TRUE]
           g == [n \in 1 .. N |-> [x \in S |-> WriteRound(f, x)]]
           Loop(h) == [i \in 0 .. N |->
                IF i = 0 THEN [disk |-> d, offset |-> offset, left |-> s, ok |-> TRUE]
                ELSE WriteRound(f, h[i - 1])]
           round == CHOOSE h : h = Loop(h)
<1>1. N \in Nat /\ offset + N \in 0 .. MaxSize /\ d \in Disk
  BY Constants DEF Good
<1>2. r = round[N]
  BY Zenon DEF writeToFile
<1>3. start \in S
  BY DEF Round, Rounds, SizeBecomes
<1>4. \A x \in S : WriteRound(f, x) \in S
  <2> HIDE DEF N
  <2> QED BY <1>1, RoundKeeps
<1> HIDE DEF N, S, start
<1>5. \E h : h = Loop(h)
  <2>1. g \in [1 .. N -> [S -> S]]
    BY <1>4
  <2> HIDE DEF g
  <2>2. HasRecursion(N, S, start, g)
    BY <1>1, <1>3, <2>1, RecursionExists
  <2>3. PICK h \in [0 .. N -> S] : h[0] = start /\ \A n \in 1 .. N : h[n] = g[n][h[n - 1]]
    BY <2>2 DEF HasRecursion
  <2>4. \A n \in 1 .. N : h[n] = WriteRound(f, h[n - 1])
    <3> SUFFICES ASSUME NEW n \in 1 .. N PROVE h[n] = WriteRound(f, h[n - 1])
      OBVIOUS
    <3>1. n - 1 \in 0 .. N
      BY <1>1
    <3>2. h[n - 1] \in S
      BY <3>1
    <3>3. g[n][h[n - 1]] = WriteRound(f, h[n - 1])
      BY <3>2 DEF g
    <3> QED BY <2>3, <3>3
  <2>5. 0 \in 0 .. N /\ \A n \in 0 .. N : n = 0 \/ n \in 1 .. N
    BY <1>1
  <2>6. \A n \in 0 .. N : h[n] = IF n = 0 THEN start ELSE WriteRound(f, h[n - 1])
    BY <2>3, <2>4, <2>5
  <2>7. h = Loop(h)
    BY <2>3, <2>6 DEF start
  <2> QED BY <2>7
<1>6. round = Loop(round)
  BY <1>5, Zenon
<1> HIDE DEF round
<1>7. round[0] = start /\ \A n \in 1 .. N : round[n] = WriteRound(f, round[n - 1])
  <2>1. N \in Nat /\ 0 \in 0 .. N
    BY <1>1
  <2>2. round[0] = start
    BY <1>6, <2>1 DEF start
  <2>3. ASSUME NEW n \in 1 .. N PROVE round[n] = WriteRound(f, round[n - 1])
    <3>1. n \in 0 .. N /\ n # 0
      BY <2>1
    <3> QED BY <1>6, <3>1
  <2> QED BY <2>2, <2>3
<1>8. \A n \in 0 .. N : round[n] \in S
  BY <1>1, <1>3, <1>4, <1>7, LoopStays
<1> HIDE DEF r
<1>9. RoundsOf(d, f, offset, s, round)
  BY <1>2, <1>7, <1>8 DEF RoundsOf, start, S, N, r
<1> QED BY <1>9

LEMMA WriteGood ==
    ASSUME NEW d \in Good, NEW f \in Files, NEW offset \in Nat, d.inode[f].i_size = offset,
           NEW s \in Seq(Byte), offset + Len(s) <= MaxSize,
           NEW r, r = writeToFile(d, f, offset, s)
    PROVE  r \in Round(d, f, offset, offset + Len(s))
<1>1. PICK h : RoundsOf(d, f, offset, s, h)
  BY WriteLoop
<1>2. Len(s) \in 0 .. Len(s)
  OBVIOUS
<1> QED BY <1>1, <1>2 DEF RoundsOf

\* truncate gives blocks back and ends with a file of no bytes.
\* The disks that truncate goes through, and where it ends.
Freeing(d, f, h) ==
    /\ h[0] = d
    /\ \A n \in 1 .. NumBlocks(d, f) : h[n] = bdalloc(h[n - 1], Owned(d, f)[n])
    /\ \A n \in 0 .. NumBlocks(d, f) : h[n] \in Good /\ h[n].inode = d.inode
    /\ truncate(d, f) = SetSize(h[NumBlocks(d, f)], f, 0)

LEMMA TruncateLoop ==
    ASSUME NEW d \in Good, NEW f \in Files
    PROVE  NumBlocks(d, f) \in Nat /\ \E h : Freeing(d, f, h)
<1> DEFINE r == truncate(d, f)
           N == NumBlocks(d, f)
           owned == Owned(d, f)
           S == {e \in Good : e.inode = d.inode}
           g == [n \in 1 .. N |-> [x \in S |-> bdalloc(x, owned[n])]]
           Loop(h) == [k \in 0 .. N |-> IF k = 0 THEN d ELSE bdalloc(h[k - 1], owned[k])]
           freed == CHOOSE h : h = Loop(h)
<1>1. N \in Nat
  <2>1. d.inode[f].i_blocks \in Nat
    BY InodeTypes DEF Good
  <2> QED BY <2>1 DEF NumBlocks
<1>2. r = SetSize(freed[N], f, 0)
  BY Zenon DEF truncate
<1> HIDE DEF N, owned
<1>3. d \in S
  OBVIOUS
<1>4. \A x \in S : \A b : bdalloc(x, b) \in S
  BY BdallocGood
<1>5. S \subseteq Good /\ \A x \in S : x.inode = d.inode
  OBVIOUS
<1> HIDE DEF S
<1>6. \E h : h = Loop(h)
  <2>1. g \in [1 .. N -> [S -> S]]
    BY <1>4
  <2> HIDE DEF g
  <2>2. HasRecursion(N, S, d, g)
    BY <1>1, <1>3, <2>1, RecursionExists
  <2>3. PICK h \in [0 .. N -> S] : h[0] = d /\ \A n \in 1 .. N : h[n] = g[n][h[n - 1]]
    BY <2>2 DEF HasRecursion
  <2>4. \A n \in 1 .. N : h[n] = bdalloc(h[n - 1], owned[n])
    <3> SUFFICES ASSUME NEW n \in 1 .. N PROVE h[n] = bdalloc(h[n - 1], owned[n])
      OBVIOUS
    <3>1. n - 1 \in 0 .. N
      BY <1>1
    <3>2. h[n - 1] \in S
      BY <3>1
    <3>3. g[n][h[n - 1]] = bdalloc(h[n - 1], owned[n])
      BY <3>2 DEF g
    <3> QED BY <2>3, <3>3
  <2>5. 0 \in 0 .. N /\ \A n \in 0 .. N : n = 0 \/ n \in 1 .. N
    BY <1>1
  <2>6. \A n \in 0 .. N : h[n] = IF n = 0 THEN d ELSE bdalloc(h[n - 1], owned[n])
    BY <2>3, <2>4, <2>5
  <2>7. h = Loop(h)
    BY <2>3, <2>6
  <2> QED BY <2>7
<1>7. freed = Loop(freed)
  BY <1>6, Zenon
<1> HIDE DEF freed
<1>8. freed[0] = d /\ \A n \in 1 .. N : freed[n] = bdalloc(freed[n - 1], owned[n])
  <2>1. N \in Nat /\ 0 \in 0 .. N
    BY <1>1
  <2>2. freed[0] = d
    BY <1>7, <2>1
  <2>3. ASSUME NEW n \in 1 .. N PROVE freed[n] = bdalloc(freed[n - 1], owned[n])
    <3>1. n \in 0 .. N /\ n # 0
      BY <2>1
    <3> QED BY <1>7, <3>1
  <2> QED BY <2>2, <2>3
<1>9. \A n \in 0 .. N : freed[n] \in S
  <2>1. freed[0] \in S
    BY <1>3, <1>8
  <2>2. \A n \in 1 .. N : freed[n - 1] \in S => freed[n] \in S
    BY <1>4, <1>8
  <2> QED BY <1>1, <2>1, <2>2, LoopStays
<1>10. \A n \in 0 .. N : freed[n] \in Good /\ freed[n].inode = d.inode
  BY <1>5, <1>9
<1> HIDE DEF r
<1>11. Freeing(d, f, freed)
  BY <1>2, <1>8, <1>10 DEF Freeing, N, owned, r
<1> QED BY <1>1, <1>11 DEF N

LEMMA TruncateGood ==
    ASSUME NEW d \in Good, NEW f \in Files, NEW r, r = truncate(d, f)
    PROVE  r \in Good /\ SizeBecomes(d, r, f, 0)
<1> DEFINE N == NumBlocks(d, f)
<1>1. N \in Nat /\ \E h : Freeing(d, f, h)
  BY TruncateLoop
<1>2. PICK h : Freeing(d, f, h)
  BY <1>1
<1>3. h[N] \in Good /\ h[N].inode = d.inode /\ r = SetSize(h[N], f, 0)
  BY <1>1, <1>2 DEF Freeing
<1> HIDE DEF N
<1>4. r \in Good /\ SizeBecomes(h[N], r, f, 0)
  BY <1>3, SetSizeGood
<1> QED BY <1>3, <1>4 DEF SizeBecomes

-------------------------------------------------------------------------------
\* What readFromFile finds, entry after entry.
Finding(d, f, l, h) ==
    /\ h[1] = d.inode[f].i_block[Path(l)[1]]
    /\ \A k \in 2 .. Len(Path(l)) : h[k] = d.table[h[k - 1]][Path(l)[k]]
    /\ Physical(d, f, l) = h[Len(Path(l))]

LEMMA PhysicalLoop ==
    ASSUME NEW d \in Disk, NEW f \in Files, NEW l \in LogicalRange
    PROVE  \E h : Finding(d, f, l, h)
<1> DEFINE path == Path(l)
           N == Len(path)
           one == d.inode[f].i_block[path[1]]
           two == d.table[one][path[2]]
           three == d.table[two][path[3]]
           Loop(h) == [k \in 1 .. Len(path) |->
                IF k = 1 THEN d.inode[f].i_block[path[1]] ELSE d.table[h[k - 1]][path[k]]]
           w == [k \in 1 .. N |-> IF k = 1 THEN one ELSE IF k = 2 THEN two ELSE three]
           found == CHOOSE h : h = Loop(h)
<1>1. N \in 1 .. 3 /\ path[1] \in 0 .. DIND /\ \A k \in 2 .. N : path[k] \in 0 .. PER - 1
  BY PathRange
<1>2. Physical(d, f, l) = found[N]
  BY Zenon DEF Physical
<1> HIDE DEF path
<1> HIDE DEF N
<1>3. w = Loop(w)
  <2>1. \A k \in 1 .. N : k \in 1 .. 3 /\ (k = 2 => k - 1 = 1 /\ k - 1 \in 1 .. N)
                          /\ (k = 3 => k - 1 = 2 /\ k - 1 \in 1 .. N)
    BY <1>1
  <2> HIDE DEF one, three
  <2>2. ASSUME NEW k \in 1 .. N
        PROVE  w[k] = IF k = 1 THEN one ELSE d.table[w[k - 1]][path[k]]
    <3>1. CASE k = 1
      BY <3>1
    <3>2. CASE k = 2
      <4>1. w[k - 1] = one /\ w[k] = two
        BY <2>1, <3>2
      <4> HIDE DEF w
      <4> QED BY <3>2, <4>1
    <3>3. CASE k = 3
      <4>1. w[k - 1] = two /\ w[k] = three
        BY <2>1, <3>3
      <4> HIDE DEF w, two
      <4> QED BY <3>3, <4>1 DEF three
    <3> QED BY <2>1, <3>1, <3>2, <3>3
  <2>3. Loop(w) = [k \in 1 .. N |-> IF k = 1 THEN one ELSE d.table[w[k - 1]][path[k]]]
    BY DEF N, one
  <2> HIDE DEF Loop
  <2>4. w = [k \in 1 .. N |-> w[k]]
    OBVIOUS
  <2> HIDE DEF w
  <2> QED BY <2>2, <2>3, <2>4
<1> HIDE DEF w, one, two, three
<1>4. found = Loop(found)
  BY <1>3, Zenon
<1> HIDE DEF found
<1>5. /\ found[1] = one
      /\ \A k \in 2 .. N : found[k] = d.table[found[k - 1]][path[k]]
  <2>1. 1 \in 1 .. N
    BY <1>1
  <2>2. found[1] = one
    BY <1>4, <2>1 DEF one, N
  <2>3. ASSUME NEW k \in 2 .. N PROVE found[k] = d.table[found[k - 1]][path[k]]
    <3>1. k \in 1 .. N /\ k # 1
      BY <1>1
    <3> QED BY <1>4, <3>1 DEF N
  <2> QED BY <2>2, <2>3
<1>6. Finding(d, f, l, found)
  BY <1>2, <1>5 DEF Finding, N, path, one
<1> QED BY <1>6

LEMMA PhysicalRange ==
    ASSUME NEW d \in Disk, NEW f \in Files, NEW l \in LogicalRange
    PROVE  Physical(d, f, l) \in 0 .. NBLOCKS
<1> DEFINE path == Path(l)
           N == Len(path)
<1>1. N \in 1 .. 3 /\ path[1] \in 0 .. DIND /\ \A k \in 2 .. N : path[k] \in 0 .. PER - 1
  BY PathRange
<1>2. PICK h : Finding(d, f, l, h)
  BY PhysicalLoop
<1>3. /\ h[1] = d.inode[f].i_block[path[1]]
      /\ \A k \in 2 .. N : h[k] = d.table[h[k - 1]][path[k]]
      /\ Physical(d, f, l) = h[N]
  BY <1>2 DEF Finding
<1> HIDE DEF path, N
<1>4. h[1] \in 0 .. NBLOCKS
  <2>1. d.inode[f].i_block \in [0 .. DIND -> Places]
    BY InodeTypes
  <2>2. d.inode[f].i_block[path[1]] \in Places
    BY <1>1, <2>1
  <2> QED BY <1>3, <2>2, Constants
<1>5. \A b \in 0 .. NBLOCKS, k \in 0 .. PER - 1 : d.table[b][k] \in 0 .. NBLOCKS
  <2> SUFFICES ASSUME NEW b \in 0 .. NBLOCKS, NEW k \in 0 .. PER - 1
               PROVE  d.table[b][k] \in 0 .. NBLOCKS
    OBVIOUS
  <2>1. d.table[b] \in [0 .. PER - 1 -> Places]
    BY DiskTypes DEF Table, Places
  <2> QED BY <2>1, Constants
<1>6. CASE N = 1
  BY <1>3, <1>4, <1>6
<1>7. CASE N = 2
  <2>1. 2 \in 2 .. N /\ 2 - 1 = 1
    BY <1>7
  <2> QED BY <1>1, <1>3, <1>4, <1>5, <1>7, <2>1
<1>8. CASE N = 3
  <2>1. 2 \in 2 .. N /\ 2 - 1 = 1 /\ 3 \in 2 .. N /\ 3 - 1 = 2
    BY <1>8
  <2>2. h[2] \in 0 .. NBLOCKS
    BY <1>1, <1>3, <1>4, <1>5, <2>1
  <2> QED BY <1>1, <1>3, <1>5, <1>8, <2>1, <2>2
<1> QED BY <1>1, <1>6, <1>7, <1>8

\* A block of f that has data in it: as many bytes as the size of f says.
LEMMA ReadGood ==
    ASSUME NEW d \in Disk, NEW f \in Files, NEW size \in 0 .. MaxSize, d.inode[f].i_size = size,
           NEW l \in 0 .. NumLogical(d, f) - 1, NEW s, s = readBlock(d, f, l)
    PROVE  /\ s \in Seq(Byte) /\ Len(s) = Least(BLKSIZE, size - (l * BLKSIZE))
           /\ l * BLKSIZE < size
<1> DEFINE m == NDIRECT + PER + PER * PER
           n == Least(BLKSIZE, size - (l * BLKSIZE))
           at == Physical(d, f, l)
           q == (size + BLKSIZE - 1) \div BLKSIZE
           r == (size + BLKSIZE - 1) % BLKSIZE
<1>1. /\ BLKSIZE \in Nat \ {0} /\ size \in Nat /\ size <= MaxSize /\ MaxSize \in Nat
      /\ m \in Nat /\ MaxSize <= BLKSIZE * m
  BY Constants
<1>2. /\ NumLogical(d, f) = q /\ q \in Nat /\ r \in 0 .. BLKSIZE - 1
      /\ size + BLKSIZE - 1 = (BLKSIZE * q) + r
  <2>1. size + BLKSIZE - 1 \in Nat
    BY <1>1
  <2>2. NumLogical(d, f) = q
    BY DEF NumLogical
  <2> QED BY <1>1, <2>1, <2>2, Division
<1>3. LogicalRange = 0 .. m - 1
  BY DEF LogicalRange
<1> HIDE DEF m, q, r
<1>4. l \in Nat /\ l + 1 <= q
  BY <1>2
<1>5. l * BLKSIZE \in Nat /\ l * BLKSIZE < size
  <2>1. (BLKSIZE * (l + 1)) <= BLKSIZE * q
    BY <1>1, <1>2, <1>4
  <2>2. BLKSIZE * (l + 1) = (l * BLKSIZE) + BLKSIZE /\ l * BLKSIZE \in Nat /\ BLKSIZE * q \in Nat
    BY <1>1, <1>2, <1>4
  <2> QED BY <1>1, <1>2, <2>1, <2>2
<1>6. l < m
  <2>1. ASSUME l >= m PROVE FALSE
    <3>1. BLKSIZE * m <= l * BLKSIZE /\ BLKSIZE * m \in Nat
      BY <1>1, <1>4, <2>1
    <3> QED BY <1>1, <1>5, <3>1
  <2> QED BY <1>1, <1>4, <2>1
<1>7. at \in 0 .. NBLOCKS
  BY <1>1, <1>3, <1>4, <1>6, PhysicalRange
<1>8. d.bytes[at] \in [0 .. BLKSIZE - 1 -> Byte]
  BY <1>7, DiskTypes
<1>9. n \in Nat /\ n <= BLKSIZE
  BY <1>1, <1>5 DEF Least
<1>10. s = [k \in 1 .. n |-> d.bytes[at][k - 1]]
  BY Zenon DEF readBlock
<1> HIDE DEF n, at
<1>11. \A k \in 1 .. n : d.bytes[at][k - 1] \in Byte
  BY <1>1, <1>8, <1>9
<1>12. s \in Seq(Byte) /\ Len(s) = n
  BY <1>9, <1>10, <1>11
<1> QED BY <1>5, <1>12 DEF n

-------------------------------------------------------------------------------
\* tryCopy: g grows by what could be written, and no further than f.
Copied(d, g, size, k) ==
    {a \in Rounds : /\ SizeBecomes(d, a.disk, g, a.offset)
                    /\ a.offset <= k * BLKSIZE /\ a.offset <= size}

\* The block that is read next fits behind what has been copied.
LEMMA CopyReads ==
    ASSUME NEW d \in Disk, NEW f \in Files, NEW g \in Files, f # g,
           NEW size \in 0 .. MaxSize, d.inode[f].i_size = size,
           NEW l \in 0 .. NumLogical(d, f) - 1, NEW a \in Copied(d, g, size, l),
           NEW s, s = readBlock(a.disk, f, l)
    PROVE  /\ a.disk.inode[f].i_size = size /\ a.disk.inode[g].i_size = a.offset
           /\ NumLogical(a.disk, f) = NumLogical(d, f) /\ l \in Nat
           /\ s \in Seq(Byte) /\ Len(s) = Least(BLKSIZE, size - (l * BLKSIZE)) /\ l * BLKSIZE < size
           /\ a.offset + Len(s) <= size /\ a.offset + Len(s) <= (l + 1) * BLKSIZE
           /\ a.offset + Len(s) <= MaxSize
<1>1. /\ a.disk \in Disk /\ a.offset \in Nat /\ SizeBecomes(d, a.disk, g, a.offset)
      /\ a.offset <= l * BLKSIZE /\ a.offset <= size
  BY DEF Copied, Rounds, Good
<1>2. /\ a.disk.inode[f].i_size = size /\ a.disk.inode[g].i_size = a.offset
  BY <1>1 DEF SizeBecomes
<1>3. NumLogical(a.disk, f) = NumLogical(d, f)
  BY <1>2 DEF NumLogical
<1>4. /\ s \in Seq(Byte) /\ Len(s) = Least(BLKSIZE, size - (l * BLKSIZE))
      /\ l * BLKSIZE < size
  BY <1>1, <1>2, <1>3, ReadGood
<1>5. BLKSIZE \in Nat \ {0} /\ size \in Nat /\ l \in Nat /\ size <= MaxSize /\ MaxSize \in Nat
      /\ l * BLKSIZE \in Nat /\ Len(s) \in Nat
      /\ (l + 1) * BLKSIZE = (l * BLKSIZE) + BLKSIZE
  <2>1. BLKSIZE \in Nat \ {0} /\ size \in Nat /\ l \in Nat /\ size <= MaxSize /\ MaxSize \in Nat
        /\ Len(s) \in Nat
    BY <1>4, Constants
  <2> QED BY <2>1
<1>6. a.offset + Len(s) <= size /\ a.offset + Len(s) <= (l + 1) * BLKSIZE
      /\ a.offset + Len(s) <= MaxSize
  <2>1. Len(s) <= BLKSIZE /\ Len(s) <= size - (l * BLKSIZE)
    BY <1>4, <1>5 DEF Least
  <2> QED BY <1>1, <1>5, <2>1
<1> QED BY <1>2, <1>3, <1>4, <1>5, <1>6

LEMMA CopyBlockKeeps ==
    ASSUME NEW d \in Disk, NEW f \in Files, NEW g \in Files, f # g,
           NEW size \in 0 .. MaxSize, d.inode[f].i_size = size,
           NEW l \in 0 .. NumLogical(d, f) - 1, NEW a \in Copied(d, g, size, l),
           NEW r, r = CopyBlock(f, g, a, l)
    PROVE  r \in Copied(d, g, size, l + 1)
<1> DEFINE s == readBlock(a.disk, f, l)
<1>1. a.disk \in Good /\ a.offset \in Nat /\ SizeBecomes(d, a.disk, g, a.offset)
  BY DEF Copied, Rounds
<1>2. /\ a.disk.inode[g].i_size = a.offset /\ s \in Seq(Byte)
      /\ a.offset + Len(s) <= size /\ a.offset + Len(s) <= (l + 1) * BLKSIZE
      /\ a.offset + Len(s) <= MaxSize /\ l \in Nat
  BY CopyReads
<1>3. r = writeToFile(a.disk, g, a.offset, s)
  BY DEF CopyBlock
<1> HIDE DEF s
<1>4. r \in Round(a.disk, g, a.offset, a.offset + Len(s))
  BY <1>1, <1>2, <1>3, WriteGood
<1>5. /\ r \in Rounds /\ SizeBecomes(a.disk, r.disk, g, r.offset)
      /\ r.offset + Len(r.left) = a.offset + Len(s) /\ r.offset \in Nat /\ Len(r.left) \in Nat
  BY <1>4 DEF Round, Rounds
<1>6. SizeBecomes(d, r.disk, g, r.offset)
  BY <1>1, <1>5 DEF SizeBecomes
<1>7. (l + 1) * BLKSIZE \in Nat /\ size \in Nat /\ Len(s) \in Nat
  BY <1>2, Constants
<1>8. r.offset <= (l + 1) * BLKSIZE /\ r.offset <= size
  BY <1>1, <1>2, <1>5, <1>7
<1> QED BY <1>5, <1>6, <1>8 DEF Copied

\* What the loop of tryCopy goes through, and where it ends.
Copying(d, f, g, size, h) ==
    /\ h[0] = [disk |-> d, offset |-> 0, left |-> <<>>, ok |-> TRUE]
    /\ \A n \in 1 .. NumLogical(d, f) : h[n] = CopyBlock(f, g, h[n - 1], n - 1)
    /\ \A n \in 0 .. NumLogical(d, f) : h[n] \in Copied(d, g, size, n)
    /\ CopyBlocks(d, f, g) = h[NumLogical(d, f)]

LEMMA CopyLoop ==
    ASSUME NEW d \in Good, NEW f \in Files, NEW g \in Files, f # g,
           NEW size \in 0 .. MaxSize, d.inode[f].i_size = size, d.inode[g].i_size = 0
    PROVE  NumLogical(d, f) \in Nat /\ \E h : Copying(d, f, g, size, h)
<1> DEFINE r == CopyBlocks(d, f, g)
           N == NumLogical(d, f)
           start == [disk |-> d, offset |-> 0, left |-> <<>>, ok |-> TRUE]
           C(k) == Copied(d, g, size, k)
           go == [n \in 1 .. N |-> [x \in Rounds |->
                    IF x \in C(n - 1) THEN CopyBlock(f, g, x, n - 1) ELSE x]]
           Loop(h) == [k \in 0 .. N |->
                        IF k = 0 THEN [disk |-> d, offset |-> 0, left |-> <<>>, ok |-> TRUE]
                        ELSE CopyBlock(f, g, h[k - 1], k - 1)]
           copied == CHOOSE h : h = Loop(h)
<1>1. d \in Disk /\ BLKSIZE \in Nat \ {0} /\ size \in Nat /\ N \in Nat
  <2>1. d \in Disk /\ BLKSIZE \in Nat \ {0} /\ size \in Nat
    BY Constants DEF Good
  <2>2. size + BLKSIZE - 1 \in Nat
    BY <2>1
  <2> QED BY <2>1, <2>2, Division DEF NumLogical
<1>2. r = copied[N]
  BY Zenon DEF CopyBlocks
<1>3. start \in C(0)
  <2>1. start \in Rounds
    BY DEF Rounds
  <2>2. SizeBecomes(d, d, g, 0)
    BY DEF SizeBecomes
  <2> QED BY <1>1, <2>1, <2>2 DEF Copied
<1>4. ASSUME NEW n \in 1 .. N, NEW x \in C(n - 1) PROVE CopyBlock(f, g, x, n - 1) \in C(n)
  <2>1. n - 1 \in 0 .. NumLogical(d, f) - 1 /\ (n - 1) + 1 = n
    BY <1>1
  <2> HIDE DEF N
  <2>2. CopyBlock(f, g, x, n - 1) \in Copied(d, g, size, (n - 1) + 1)
    BY <1>1, <2>1, CopyBlockKeeps
  <2> QED BY <2>1, <2>2
<1>5. \A n : C(n) \subseteq Rounds
  BY DEF Copied
<1> HIDE DEF N, start, C
<1>6. \E h : h = Loop(h)
  <2>1. go \in [1 .. N -> [Rounds -> Rounds]]
    BY <1>4, <1>5
  <2> HIDE DEF go
  <2>2. HasRecursion(N, Rounds, start, go)
    BY <1>1, <1>3, <1>5, <2>1, RecursionExists
  <2>3. PICK h \in [0 .. N -> Rounds] : h[0] = start /\ \A n \in 1 .. N : h[n] = go[n][h[n - 1]]
    BY <2>2 DEF HasRecursion
  <2>4. ASSUME NEW n \in 1 .. N, h[n - 1] \in C(n - 1)
        PROVE  h[n] = CopyBlock(f, g, h[n - 1], n - 1) /\ h[n] \in C(n)
    <3>1. go[n][h[n - 1]] = CopyBlock(f, g, h[n - 1], n - 1)
      BY <1>5, <2>4 DEF go
    <3> QED BY <1>4, <2>3, <2>4, <3>1
  <2> DEFINE T == {n \in 0 .. N : h[n] \in C(n)}
  <2>5. 0 .. N \subseteq T
    <3>1. 0 \in T
      BY <1>1, <1>3, <2>3
    <3>2. ASSUME NEW n \in 0 .. N - 1, n \in T PROVE n + 1 \in T
      <4>1. n + 1 \in 1 .. N /\ (n + 1) - 1 = n /\ n + 1 \in 0 .. N
        BY <1>1
      <4> QED BY <2>4, <3>2, <4>1
    <3> HIDE DEF T
    <3> QED BY <1>1, <3>1, <3>2, SetInduction
  <2>6. \A n \in 1 .. N : h[n] = CopyBlock(f, g, h[n - 1], n - 1)
    <3> SUFFICES ASSUME NEW n \in 1 .. N PROVE h[n] = CopyBlock(f, g, h[n - 1], n - 1)
      OBVIOUS
    <3>1. n - 1 \in 0 .. N
      BY <1>1
    <3>2. h[n - 1] \in C(n - 1)
      BY <2>5, <3>1
    <3> QED BY <2>4, <3>2
  <2>7. 0 \in 0 .. N /\ \A n \in 0 .. N : n = 0 \/ n \in 1 .. N
    BY <1>1
  <2>8. \A n \in 0 .. N : h[n] = IF n = 0 THEN start ELSE CopyBlock(f, g, h[n - 1], n - 1)
    BY <2>3, <2>6, <2>7
  <2>9. h = Loop(h)
    BY <2>3, <2>8 DEF start
  <2> QED BY <2>9
<1>7. copied = Loop(copied)
  BY <1>6, Zenon
<1> HIDE DEF copied
<1>8. copied[0] = start /\ \A n \in 1 .. N : copied[n] = CopyBlock(f, g, copied[n - 1], n - 1)
  <2>1. N \in Nat /\ 0 \in 0 .. N
    BY <1>1
  <2>2. copied[0] = start
    BY <1>7, <2>1 DEF start
  <2>3. ASSUME NEW n \in 1 .. N PROVE copied[n] = CopyBlock(f, g, copied[n - 1], n - 1)
    <3>1. n \in 0 .. N /\ n # 0
      BY <2>1
    <3> QED BY <1>7, <3>1
  <2> QED BY <2>2, <2>3
<1> DEFINE S == {n \in 0 .. N : copied[n] \in C(n)}
<1>9. 0 .. N \subseteq S
  <2>1. 0 \in S
    BY <1>1, <1>3, <1>8
  <2>2. ASSUME NEW n \in 0 .. N - 1, n \in S PROVE n + 1 \in S
    <3>1. n + 1 \in 1 .. N /\ (n + 1) - 1 = n /\ n + 1 \in 0 .. N
      BY <1>1
    <3>2. copied[n + 1] = CopyBlock(f, g, copied[n], n)
      BY <1>8, <3>1
    <3>3. copied[n] \in C((n + 1) - 1)
      BY <2>2, <3>1
    <3>4. copied[n + 1] \in C(n + 1)
      BY <1>4, <3>1, <3>2, <3>3
    <3> QED BY <3>1, <3>4
  <2> HIDE DEF S
  <2> QED BY <1>1, <2>1, <2>2, SetInduction
<1>10. \A n \in 0 .. N : copied[n] \in C(n)
  BY <1>9
<1> HIDE DEF r
<1>11. Copying(d, f, g, size, copied)
  BY <1>2, <1>8, <1>10 DEF Copying, start, C, N, r
<1> QED BY <1>1, <1>11 DEF N

LEMMA CopyGood ==
    ASSUME NEW d \in Good, NEW f \in Files, NEW g \in Files, f # g,
           NEW size \in 0 .. MaxSize, d.inode[f].i_size = size, d.inode[g].i_size = 0,
           NEW r, r = CopyBlocks(d, f, g)
    PROVE  /\ r.disk \in Good /\ r.offset \in Nat /\ r.offset <= size
           /\ SizeBecomes(d, r.disk, g, r.offset)
<1> DEFINE N == NumLogical(d, f)
<1>1. N \in Nat /\ \E h : Copying(d, f, g, size, h)
  BY CopyLoop
<1>2. PICK h : Copying(d, f, g, size, h)
  BY <1>1
<1>3. r \in Copied(d, g, size, N)
  BY <1>1, <1>2 DEF Copying
<1> QED BY <1>3 DEF Copied, Rounds

-------------------------------------------------------------------------------
\* open_file creates a file of no bytes where there is none.
LEMMA OpenedGood ==
    ASSUME IInv, NEW f \in Files
    PROVE  /\ Opened(f) \in Good /\ SameSizes(disk, Opened(f))
<1>1. disk \in Good /\ disk \in Disk
  BY DEF IInv, TypeOK, CountersAgree, Good
<1>2. CASE f \in files
  BY <1>1, <1>2 DEF Opened, SameSizes
<1>3. CASE f \notin files
  <2> DEFINE r == SetInode(disk, f, NoInode)
  <2>1. NoInode \in Inode /\ NoInode.i_size = 0
    BY DEF NoInode, Inode
  <2>2. Opened(f) = r
    BY <1>3 DEF Opened
  <2>3. r \in Disk /\ SameBits(disk, r) /\ r.inode = [disk.inode EXCEPT ![f] = NoInode]
    BY <1>1, <2>1, SetInodeParts
  <2>4. disk.inode[f].i_size = 0
    BY <1>3 DEF IInv, Sizes
  <2> HIDE DEF r
  <2>5. SameSizes(disk, r)
    BY <1>1, <2>1, <2>3, <2>4, DiskTypes DEF SameSizes
  <2> QED BY <1>1, <2>2, <2>3, <2>5 DEF Good, SameBits
<1> QED BY <1>2, <1>3

LEMMA InputBytes ==
    ASSUME NEW f \in Files, NEW from \in Nat, NEW n \in Nat, from + n <= MaxSize
    PROVE  Input(f, from, n) \in Seq(Byte) /\ Len(Input(f, from, n)) = n
<1>1. \A i \in 1 .. n : <<f, from + i - 1>> \in Byte
  BY Constants DEF Byte
<1> QED BY <1>1 DEF Input

\* What a command leaves behind: a disk with the right counters where f has as many bytes
\* as its text.
LEMMA SettleKeeps ==
    ASSUME IInv, NEW d \in Good, NEW fs \in SUBSET Files, NEW f \in Files, files \subseteq fs \cup {f},
           NEW t \in Seq(Byte), NEW before, Settle(before, d, fs), text' = [text EXCEPT ![f] = t],
           SizeBecomes(disk, d, f, Len(t)), Len(t) <= MaxSize, f \notin fs => Len(t) = 0
    PROVE  IInv'
<1>1. /\ text \in [Files -> Seq(Byte)] /\ Sizes /\ disk' = d /\ files' = fs
  BY DEF IInv, TypeOK, Settle
<1>2. intact' \in BOOLEAN
  BY Zenon DEF Settle
<1>3. TypeOK'
  BY <1>1, <1>2 DEF TypeOK, Good
<1>4. CountersAgree'
  BY <1>1 DEF CountersAgree, Good
<1>5. Sizes'
  <2> SUFFICES ASSUME NEW g \in Files
               PROVE  /\ d.inode[g].i_size = Len(text'[g]) /\ d.inode[g].i_size <= MaxSize
                      /\ g \notin fs => d.inode[g].i_size = 0
    BY <1>1 DEF Sizes
  <2>1. CASE g = f
    BY <1>1, <2>1 DEF SizeBecomes
  <2>2. CASE g # f
    <3>1. d.inode[g].i_size = disk.inode[g].i_size /\ text'[g] = text[g]
      BY <1>1, <2>2 DEF SizeBecomes
    <3>2. g \notin fs => g \notin files
      BY <2>2
    <3> QED BY <1>1, <3>1, <3>2 DEF Sizes
  <2> QED BY <2>1, <2>2
<1> QED BY <1>3, <1>4, <1>5 DEF IInv

-------------------------------------------------------------------------------
LEMMA FrontBytes ==
    ASSUME NEW s \in Seq(Byte), NEW n \in 0 .. Len(s)
    PROVE  SubSeq(s, 1, n) \in Seq(Byte) /\ Len(SubSeq(s, 1, n)) = n
<1>1. Len(s) \in Nat /\ n \in Nat
  OBVIOUS
<1> QED BY <1>1

LEMMA AppendToKeeps ==
    ASSUME IInv, NEW f \in Files, NEW n \in WriteSizes, AppendTo(f, n)
    PROVE  IInv'
<1> DEFINE d == Opened(f)
           size == d.inode[f].i_size
           s == Input(f, size, n)
           w == writeToFile(d, f, size, s)
           t == text[f] \o Written(s, w)
<1>1. /\ size + n <= MaxSize /\ Settle(d, w.disk, files \cup {f})
      /\ text' = [text EXCEPT ![f] = t]
  BY DEF AppendTo
<1>2. /\ d \in Good /\ SameSizes(disk, d) /\ size = Len(text[f]) /\ size \in Nat /\ n \in Nat
      /\ text[f] \in Seq(Byte) /\ files \in SUBSET Files /\ MaxSize \in Nat
  <2>1. d \in Good /\ SameSizes(disk, d)
    BY OpenedGood
  <2>2. text[f] \in Seq(Byte) /\ files \in SUBSET Files /\ disk.inode[f].i_size = Len(text[f])
    BY DEF IInv, TypeOK, Sizes
  <2>3. n \in Nat /\ MaxSize \in Nat
    BY Constants
  <2> HIDE DEF d
  <2> QED BY <2>1, <2>2, <2>3 DEF SameSizes
<1> HIDE DEF d
<1>3. s \in Seq(Byte) /\ Len(s) = n
  BY <1>1, <1>2, InputBytes
<1> HIDE DEF s
<1>4. w \in Round(d, f, size, size + n)
  BY <1>1, <1>2, <1>3, WriteGood
<1> HIDE DEF w
<1>5. /\ w.disk \in Good /\ SizeBecomes(d, w.disk, f, w.offset) /\ w.offset \in Nat
      /\ w.offset + Len(w.left) = size + n /\ size <= w.offset /\ Len(w.left) \in Nat
  BY <1>4 DEF Round, Rounds
<1>6. SizeBecomes(disk, w.disk, f, w.offset)
  BY <1>2, <1>5 DEF SizeBecomes, SameSizes
<1>7. t \in Seq(Byte) /\ Len(t) = w.offset /\ Len(t) <= MaxSize
  <2>1. Len(s) - Len(w.left) \in 0 .. Len(s)
    BY <1>2, <1>3, <1>5
  <2>2. Written(s, w) \in Seq(Byte) /\ Len(Written(s, w)) = n - Len(w.left)
    BY <1>3, <2>1, FrontBytes DEF Written
  <2>3. ASSUME NEW u \in Seq(Byte), NEW v \in Seq(Byte)
        PROVE  u \o v \in Seq(Byte) /\ Len(u \o v) = Len(u) + Len(v)
    OBVIOUS
  <2>4. t \in Seq(Byte) /\ Len(t) = Len(text[f]) + Len(Written(s, w))
    BY <1>2, <2>2, <2>3
  <2> HIDE DEF t
  <2>5. size + n <= MaxSize /\ Len(t) = size + (n - Len(w.left))
    BY <1>1, <1>2, <2>2, <2>4
  <2>6. /\ size \in Nat /\ n \in Nat /\ MaxSize \in Nat /\ w.offset \in Nat
        /\ Len(w.left) \in Nat /\ w.offset + Len(w.left) = size + n
    BY <1>2, <1>5
  <2> HIDE DEF size
  <2>7. ASSUME NEW a \in Nat, NEW b \in Nat, a + b = size + n
        PROVE  size + (n - b) = a
    BY <2>6, <2>7
  <2>8. Len(t) = w.offset
    BY <2>5, <2>6, <2>7
  <2>9. Len(t) <= MaxSize
    BY <2>5, <2>6, <2>8
  <2> QED BY <2>4, <2>8, <2>9
<1> HIDE DEF t
<1>8. files \cup {f} \in SUBSET Files /\ f \in files \cup {f}
  BY <1>2
<1> QED BY <1>1, <1>5, <1>6, <1>7, <1>8, SettleKeeps

LEMMA WriteKeeps ==
    ASSUME IInv, NEW f \in Files, NEW n \in WriteSizes, Write(f, n)
    PROVE  IInv'
<1> DEFINE d == truncate(Opened(f), f)
           s == Input(f, 0, n)
           w == writeToFile(d, f, 0, s)
           t == Written(s, w)
<1>1. Settle(d, w.disk, files \cup {f}) /\ text' = [text EXCEPT ![f] = t]
  BY DEF Write
<1>2. d \in Good /\ SizeBecomes(disk, d, f, 0)
  <2>1. Opened(f) \in Good /\ SameSizes(disk, Opened(f))
    BY OpenedGood
  <2>2. d \in Good /\ SizeBecomes(Opened(f), d, f, 0)
    BY <2>1, TruncateGood
  <2> HIDE DEF d
  <2> QED BY <2>1, <2>2 DEF SameSizes, SizeBecomes
<1>3. n \in Nat /\ MaxSize \in Nat /\ 0 + n <= MaxSize
  BY Constants
<1>4. s \in Seq(Byte) /\ Len(s) = n
  BY <1>3, InputBytes
<1> HIDE DEF d, s
<1>5. d.inode[f].i_size = 0
  BY <1>2 DEF SizeBecomes
<1>6. w \in Round(d, f, 0, 0 + n)
  BY <1>2, <1>3, <1>4, <1>5, WriteGood
<1> HIDE DEF w
<1>7. /\ w.disk \in Good /\ SizeBecomes(d, w.disk, f, w.offset) /\ w.offset \in Nat
      /\ w.offset + Len(w.left) = n /\ Len(w.left) \in Nat
  BY <1>3, <1>6 DEF Round, Rounds
<1>8. SizeBecomes(disk, w.disk, f, w.offset)
  BY <1>2, <1>7 DEF SizeBecomes
<1>9. t \in Seq(Byte) /\ Len(t) = w.offset /\ Len(t) <= MaxSize
  <2>1. Len(s) - Len(w.left) \in 0 .. Len(s)
    BY <1>3, <1>4, <1>7
  <2>2. t \in Seq(Byte) /\ Len(t) = n - Len(w.left)
    BY <1>4, <2>1, FrontBytes DEF Written
  <2> HIDE DEF t
  <2> QED BY <1>3, <1>7, <2>2
<1> HIDE DEF t
<1>10. files \cup {f} \in SUBSET Files /\ f \in files \cup {f}
  BY DEF IInv, TypeOK
<1> QED BY <1>1, <1>7, <1>8, <1>9, <1>10, SettleKeeps

LEMMA CopyKeeps ==
    ASSUME IInv, NEW f \in Files, NEW g \in Files, Copy(f, g)
    PROVE  IInv'
<1> DEFINE d == truncate(Opened(g), g)
           w == CopyBlocks(d, f, g)
           t == SubSeq(text[f], 1, w.offset)
           size == Len(text[f])
<1>1. /\ f # g /\ Settle(d, w.disk, files \cup {g}) /\ text' = [text EXCEPT ![g] = t]
  BY DEF Copy
<1>2. d \in Good /\ SizeBecomes(disk, d, g, 0)
  <2>1. Opened(g) \in Good /\ SameSizes(disk, Opened(g))
    BY OpenedGood
  <2>2. d \in Good /\ SizeBecomes(Opened(g), d, g, 0)
    BY <2>1, TruncateGood
  <2> HIDE DEF d
  <2> QED BY <2>1, <2>2 DEF SameSizes, SizeBecomes
<1> HIDE DEF d
<1>3. text[f] \in Seq(Byte) /\ size \in 0 .. MaxSize /\ disk.inode[f].i_size = size
  <2>1. text[f] \in Seq(Byte) /\ disk.inode[f].i_size = Len(text[f])
        /\ disk.inode[f].i_size <= MaxSize
    BY DEF IInv, TypeOK, Sizes
  <2> QED BY <2>1, Constants
<1>4. d.inode[f].i_size = size /\ d.inode[g].i_size = 0
  BY <1>1, <1>2, <1>3 DEF SizeBecomes
<1>5. /\ w.disk \in Good /\ w.offset \in Nat /\ w.offset <= size
      /\ SizeBecomes(d, w.disk, g, w.offset)
  <2> HIDE DEF size
  <2> QED BY <1>1, <1>2, <1>3, <1>4, CopyGood
<1> HIDE DEF w
<1>6. SizeBecomes(disk, w.disk, g, w.offset)
  BY <1>2, <1>5 DEF SizeBecomes
<1>7. t \in Seq(Byte) /\ Len(t) = w.offset /\ Len(t) <= MaxSize
  <2>1. w.offset \in 0 .. Len(text[f])
    BY <1>3, <1>5
  <2>2. t \in Seq(Byte) /\ Len(t) = w.offset
    BY <1>3, <2>1, FrontBytes
  <2> HIDE DEF t
  <2> QED BY <1>3, <1>5, <2>2, Constants
<1> HIDE DEF t
<1>8. files \cup {g} \in SUBSET Files /\ g \in files \cup {g}
  BY DEF IInv, TypeOK
<1> QED BY <1>1, <1>5, <1>6, <1>7, <1>8, SettleKeeps

LEMMA UnlinkKeeps ==
    ASSUME IInv, NEW f \in Files, Unlink(f)
    PROVE  IInv'
<1> DEFINE d == truncate(disk, f)
           t == <<>>
<1>1. Settle(d, d, files \ {f}) /\ text' = [text EXCEPT ![f] = t]
  BY DEF Unlink
<1>2. d \in Good /\ SizeBecomes(disk, d, f, 0)
  <2>1. disk \in Good
    BY DEF IInv, TypeOK, CountersAgree, Good
  <2> QED BY <2>1, TruncateGood
<1>3. t \in Seq(Byte) /\ Len(t) = 0 /\ 0 <= MaxSize
  BY Constants
<1>4. files \ {f} \in SUBSET Files /\ files \subseteq (files \ {f}) \cup {f}
  BY DEF IInv, TypeOK
<1> HIDE DEF d, t
<1> QED BY <1>1, <1>2, <1>3, <1>4, SettleKeeps

-------------------------------------------------------------------------------
LEMMA InitHolds == Init => IInv
<1> SUFFICES ASSUME Init PROVE IInv
  OBVIOUS
<1>1. /\ disk.used = {} /\ disk.free = NBLOCKS /\ disk.inode = [f \in Files |-> NoInode]
      /\ text = [f \in Files |-> <<>>] /\ files = {} /\ intact = TRUE
  BY DEF Init
<1>2. NoInode \in Inode /\ NoInode.i_size = 0
  BY DEF NoInode, Inode
<1>3. NoEntries \in Table /\ NoBytes \in [0 .. BLKSIZE - 1 -> Byte]
  BY DEF NoEntries, Table, NoBytes, Byte
<1>4. disk \in Disk
  BY <1>2, <1>3, Constants DEF Init, Disk
<1>5. TypeOK
  BY <1>1, <1>4 DEF TypeOK
<1>6. CountersAgree
  <2>1. Blocks \ disk.used = 1 .. NBLOCKS
    BY <1>1 DEF Blocks
  <2>2. Cardinality(1 .. NBLOCKS) = NBLOCKS
    BY Constants, FS_Interval
  <2> QED BY <1>1, <2>1, <2>2 DEF CountersAgree
<1>7. Sizes
  BY <1>1, <1>2, Constants DEF Sizes
<1> QED BY <1>5, <1>6, <1>7 DEF IInv

LEMMA NextKeeps == IInv /\ [Next]_vars => IInv'
<1> SUFFICES ASSUME IInv, [Next]_vars PROVE IInv'
  OBVIOUS
<1>1. CASE \E f \in Files, n \in WriteSizes : AppendTo(f, n)
  BY <1>1, AppendToKeeps
<1>2. CASE \E f \in Files, n \in WriteSizes : Write(f, n)
  BY <1>2, WriteKeeps
<1>3. CASE \E f, g \in Files : Copy(f, g)
  BY <1>3, CopyKeeps
<1>4. CASE \E f \in Files : Unlink(f)
  BY <1>4, UnlinkKeeps
<1>5. CASE UNCHANGED vars
  BY <1>5 DEF vars, IInv, TypeOK, CountersAgree, Sizes
<1> QED BY <1>1, <1>2, <1>3, <1>4, <1>5 DEF Next

\* Every reachable state has the right counters and sizes.
THEOREM AlwaysSound == Spec => []IInv
<1> QED BY InitHolds, NextKeeps, PTL DEF Spec

\* The disk stays one: entries name blocks of it, whatever the commands write and free.
THEOREM TypeCorrect == Spec => []TypeOK
<1>1. IInv => TypeOK
  BY DEF IInv
<1> QED BY <1>1, AlwaysSound, PTL

\* The counters of the superblock and the group descriptor are those of the bitmap, after
\* writes that met a full disk and after blocks that were freed twice (util.c:416-463).
THEOREM CountersRight == Spec => []CountersAgree
<1>1. IInv => CountersAgree
  BY DEF IInv
<1> QED BY <1>1, AlwaysSound, PTL

\* i_size counts the bytes a file was given, also by a write that met a full disk and by
\* a copy that skipped the block it could not write (write_cp.c:20-152).
THEOREM SizesRight == Spec => []Sizes
<1>1. IInv => Sizes
  BY DEF IInv
<1> QED BY <1>1, AlwaysSound, PTL

-------------------------------------------------------------------------------
\* The places of a file: the entries of i_block[] and of its tables, in the order of WalkOrder.
\* A place is an entry, Index, of the table in another place, Parent, or of i_block[] itself.
Wide == PER + 1
Base == NDIRECT + PER + 2
NumPlaces == Base + (PER * Wide)
TablePlace(q) == Base + 1 + (q * Wide)
Within(m) == m - Base - 1
Parent(m) ==
    IF m <= NDIRECT + 1 \/ m = Base THEN 0
    ELSE IF m < Base THEN NDIRECT + 1
    ELSE IF Within(m) % Wide = 0 THEN Base ELSE m - (Within(m) % Wide)
Index(m) ==
    IF m <= NDIRECT + 1 THEN m - 1
    ELSE IF m = Base THEN DIND
    ELSE IF m < Base THEN m - NDIRECT - 2
    ELSE IF Within(m) % Wide = 0 THEN Within(m) \div Wide ELSE (Within(m) % Wide) - 1

Value(d, f, m) == WalkOrder(d, f)[m]
Found(d, f, m) ==
    IF Parent(m) = 0 THEN d.inode[f].i_block[Index(m)]
    ELSE d.table[Value(d, f, Parent(m))][Index(m)]

LEMMA PlaceNumbers ==
    /\ NDIRECT \in Nat \ {0} /\ PER \in Nat \ {0} /\ Wide \in Nat \ {0} /\ Wide = PER + 1
    /\ Base \in Nat \ {0} /\ Base = NDIRECT + PER + 2 /\ PER * Wide \in Nat
    /\ NumPlaces \in Nat /\ NumPlaces = Base + (PER * Wide) /\ Base <= NumPlaces
<1>1. NDIRECT \in Nat \ {0} /\ PER \in Nat \ {0}
  BY Constants
<1>2. Wide \in Nat \ {0} /\ Wide = PER + 1 /\ Base = NDIRECT + PER + 2
  BY <1>1 DEF Wide, Base
<1>3. PER * Wide \in Nat
  BY <1>1, <1>2
<1>4. NumPlaces = Base + (PER * Wide)
  BY DEF NumPlaces
<1> QED BY <1>1, <1>2, <1>3, <1>4

LEMMA Times ==
    ASSUME NEW w \in Nat, NEW a \in Nat, NEW b \in Nat, a <= b
    PROVE  a * w <= b * w /\ a * w \in Nat /\ b * w \in Nat /\ (a + 1) * w = (a * w) + w
OBVIOUS

LEMMA DividedBy ==
    ASSUME NEW w \in Nat \ {0}, NEW q \in Nat, NEW j \in 0 .. w - 1, NEW r, r = (q * w) + j
    PROVE  r \in Nat /\ r \div w = q /\ r % w = j
<1> DEFINE p == r \div w
           k == r % w
<1>1. r \in Nat /\ q * w \in Nat
  OBVIOUS
<1>2. p \in Nat /\ k \in 0 .. w - 1 /\ r = (w * p) + k
  BY <1>1, Division
<1> HIDE DEF p, k
<1>3. p = q
  <2>1. w * p = p * w
    BY <1>2
  <2>2. ASSUME p < q PROVE FALSE
    <3>1. (p + 1) * w <= q * w /\ (p + 1) * w = (p * w) + w /\ p * w \in Nat
      BY <1>2, <2>2, Times
    <3> QED BY <1>1, <1>2, <2>1, <3>1
  <2>3. ASSUME q < p PROVE FALSE
    <3>1. (q + 1) * w <= p * w /\ (q + 1) * w = (q * w) + w /\ p * w \in Nat
      BY <1>2, <2>3, Times
    <3> QED BY <1>1, <1>2, <2>1, <3>1
  <2> QED BY <1>2, <2>2, <2>3
<1>4. k = j
  BY <1>1, <1>2, <1>3
<1> QED BY <1>1, <1>3, <1>4 DEF p, k

\* The three parts of the walk.
LEMMA ParentsOf ==
    /\ \A m \in 1 .. NDIRECT + 1 : Parent(m) = 0 /\ Index(m) = m - 1
    /\ \A m \in NDIRECT + 2 .. Base - 1 : Parent(m) = NDIRECT + 1 /\ Index(m) = m - NDIRECT - 2
    /\ Parent(Base) = 0 /\ Index(Base) = DIND
    /\ \A q \in 0 .. PER - 1 :
        /\ TablePlace(q) \in Base + 1 .. NumPlaces - PER
        /\ Parent(TablePlace(q)) = Base /\ Index(TablePlace(q)) = q
        /\ \A j \in 1 .. PER : Parent(TablePlace(q) + j) = TablePlace(q) /\ Index(TablePlace(q) + j) = j - 1
<1>1. \A m \in 1 .. NDIRECT + 1 : Parent(m) = 0 /\ Index(m) = m - 1
  BY PlaceNumbers DEF Parent, Index
<1>2. \A m \in NDIRECT + 2 .. Base - 1 : Parent(m) = NDIRECT + 1 /\ Index(m) = m - NDIRECT - 2
  BY PlaceNumbers DEF Parent, Index
<1>3. Parent(Base) = 0 /\ Index(Base) = DIND
  BY PlaceNumbers DEF Parent, Index
<1>4. ASSUME NEW q \in 0 .. PER - 1, NEW j \in 0 .. PER
      PROVE  LET m == Base + 1 + (q * Wide) + j IN
             IF j = 0 THEN Parent(m) = Base /\ Index(m) = q
             ELSE Parent(m) = TablePlace(q) /\ Index(m) = j - 1
  <2> DEFINE r == (q * Wide) + j
             m == Base + 1 + (q * Wide) + j
  <2>1. q \in Nat /\ j \in 0 .. Wide - 1 /\ q * Wide \in Nat /\ Wide \in Nat \ {0}
    BY PlaceNumbers
  <2>2. r \in Nat /\ r \div Wide = q /\ r % Wide = j
    BY <2>1, DividedBy
  <2>3. Within(m) = r /\ m > Base /\ m \in Nat
    BY <2>1, PlaceNumbers DEF Within
  <2> HIDE DEF r
  <2>4. /\ Parent(m) = IF j = 0 THEN Base ELSE m - j
        /\ Index(m) = IF j = 0 THEN q ELSE j - 1
    <3> HIDE DEF m
    <3>1. ~(m <= NDIRECT + 1) /\ m # Base /\ ~(m < Base)
      BY <2>3, PlaceNumbers
    <3> QED BY <2>2, <2>3, <3>1 DEF Parent, Index
  <2>5. m - j = TablePlace(q)
    BY <2>1, PlaceNumbers DEF TablePlace
  <2> HIDE DEF m
  <2>6. IF j = 0 THEN Parent(m) = Base /\ Index(m) = q
        ELSE Parent(m) = TablePlace(q) /\ Index(m) = j - 1
    BY <2>4, <2>5
  <2> QED BY <2>6 DEF m
<1>5. ASSUME NEW q \in 0 .. PER - 1
      PROVE  /\ TablePlace(q) \in Base + 1 .. NumPlaces - PER
             /\ Parent(TablePlace(q)) = Base /\ Index(TablePlace(q)) = q
             /\ \A j \in 1 .. PER : /\ Parent(TablePlace(q) + j) = TablePlace(q)
                                   /\ Index(TablePlace(q) + j) = j - 1
  <2>1. q \in Nat /\ q + 1 \in Nat /\ q + 1 <= PER
    BY PlaceNumbers
  <2>2. (q + 1) * Wide <= PER * Wide /\ (q + 1) * Wide = (q * Wide) + Wide /\ q * Wide \in Nat
    BY <2>1, PlaceNumbers, Times
  <2>3. TablePlace(q) \in Base + 1 .. NumPlaces - PER
    BY <2>2, PlaceNumbers DEF TablePlace
  <2>4. /\ 0 \in 0 .. PER /\ Base + 1 + (q * Wide) + 0 = TablePlace(q)
        /\ \A j \in 1 .. PER : j \in 0 .. PER /\ j # 0 /\ Base + 1 + (q * Wide) + j = TablePlace(q) + j
    BY <2>2, PlaceNumbers DEF TablePlace
  <2>5. Parent(TablePlace(q)) = Base /\ Index(TablePlace(q)) = q
    BY <1>4, <2>4
  <2>6. ASSUME NEW j \in 1 .. PER
        PROVE  Parent(TablePlace(q) + j) = TablePlace(q) /\ Index(TablePlace(q) + j) = j - 1
    BY <1>4, <2>4
  <2> QED BY <2>3, <2>5, <2>6
<1> QED BY <1>1, <1>2, <1>3, <1>5

\* Every place is in one of them.
LEMMA PlaceCases ==
    ASSUME NEW m \in 1 .. NumPlaces
    PROVE  \/ m \in 1 .. NDIRECT + 1
           \/ m \in NDIRECT + 2 .. Base - 1
           \/ m = Base
           \/ \E q \in 0 .. PER - 1, j \in 0 .. PER : m = TablePlace(q) + j
<1>1. CASE m <= Base
  BY <1>1, PlaceNumbers
<1>2. CASE m > Base
  <2> DEFINE r == m - Base - 1
             q == r \div Wide
             j == r % Wide
  <2>1. r \in Nat /\ r < Wide * PER /\ m = Base + 1 + r
    <3>1. m \in Nat /\ m <= Base + (PER * Wide) /\ Base \in Nat /\ PER * Wide \in Nat
          /\ PER * Wide = Wide * PER
      BY PlaceNumbers
    <3> QED BY <1>2, <3>1
  <2> HIDE DEF r
  <2>2. q \in Nat /\ j \in 0 .. Wide - 1 /\ r = (Wide * q) + j
    BY <2>1, PlaceNumbers, Division
  <2>3. q < PER
    BY <2>1, PlaceNumbers, QuotientBelow
  <2> HIDE DEF q, j
  <2>4. q \in 0 .. PER - 1 /\ j \in 0 .. PER /\ Wide * q = q * Wide /\ q * Wide \in Nat
    BY <2>2, <2>3, PlaceNumbers
  <2>5. m = TablePlace(q) + j
    BY <2>1, <2>2, <2>4, PlaceNumbers DEF TablePlace
  <2> QED BY <2>4, <2>5
<1> QED BY <1>1, <1>2, PlaceNumbers

-------------------------------------------------------------------------------
\* The order of truncate, entry by entry: the value at a place is that entry of its parent.

LEMMA Concat ==
    ASSUME NEW a \in Seq(Places), NEW b \in Seq(Places), NEW c, c = a \o b
    PROVE  /\ c \in Seq(Places) /\ Len(c) = Len(a) + Len(b)
           /\ \A i \in 1 .. Len(a) : c[i] = a[i]
           /\ \A i \in 1 .. Len(b) : c[Len(a) + i] = b[i]
OBVIOUS

\* A table and its entries.
LEMMA WithEntriesIs ==
    ASSUME NEW d \in Disk, NEW b \in Places
    PROVE  /\ WithEntries(d, b) \in Seq(Places) /\ Len(WithEntries(d, b)) = Wide
           /\ WithEntries(d, b)[1] = b
           /\ \A j \in 1 .. PER : WithEntries(d, b)[j + 1] = d.table[b][j - 1]
<1> DEFINE u == <<b>>
           v == [k \in 1 .. PER |-> d.table[b][k - 1]]
<1>1. PER \in Nat \ {0} /\ b \in 0 .. NBLOCKS
  BY Constants
<1>2. d.table[b] \in [0 .. PER - 1 -> Places]
  BY <1>1, DiskTypes DEF Table, Places
<1>3. \A k \in 1 .. PER : d.table[b][k - 1] \in Places
  BY <1>1, <1>2
<1>4. v \in Seq(Places) /\ Len(v) = PER /\ \A j \in 1 .. PER : v[j] = d.table[b][j - 1]
  BY <1>1, <1>3
<1>5. u \in Seq(Places) /\ Len(u) = 1 /\ u[1] = b
  OBVIOUS
<1>6. WithEntries(d, b) = u \o v
  BY DEF WithEntries
<1> DEFINE w == u \o v
<1> HIDE DEF u, v
<1>7. /\ w \in Seq(Places) /\ Len(w) = Len(u) + Len(v)
      /\ \A i \in 1 .. Len(u) : w[i] = u[i]
      /\ \A i \in 1 .. Len(v) : w[Len(u) + i] = v[i]
  <2>1. w = u \o v
    OBVIOUS
  <2> HIDE DEF w
  <2> QED BY <1>4, <1>5, <2>1, Concat
<1> HIDE DEF w
<1>8. Len(w) = Wide
  BY <1>1, <1>4, <1>5, <1>7, PlaceNumbers
<1>9. w[1] = b
  BY <1>5, <1>7
<1>10. \A j \in 1 .. PER : w[j + 1] = v[j]
  <2> SUFFICES ASSUME NEW j \in 1 .. PER PROVE w[j + 1] = v[j]
    OBVIOUS
  <2>1. w[Len(u) + j] = v[j] /\ Len(u) + j = j + 1
    BY <1>1, <1>4, <1>5, <1>7
  <2> QED BY <2>1
<1>11. \A j \in 1 .. PER : w[j + 1] = d.table[b][j - 1]
  BY <1>4, <1>10
<1> QED BY <1>6, <1>7, <1>8, <1>9, <1>11 DEF w

\* The tables of a table.
TablesUpTo(d, b, k, w) ==
    /\ w \in Seq(Places) /\ Len(w) = 1 + (k * Wide) /\ w[1] = b
    /\ \A q \in 0 .. k - 1, i \in 1 .. Wide :
            w[1 + (q * Wide) + i] = WithEntries(d, d.table[b][q])[i]

LEMMA TablesOneMore ==
    ASSUME NEW d \in Disk, NEW b \in Places, NEW k \in 0 .. PER - 1, NEW w, TablesUpTo(d, b, k, w),
           NEW r, r = w \o WithEntries(d, d.table[b][k])
    PROVE  TablesUpTo(d, b, k + 1, r)
<1> DEFINE e == WithEntries(d, d.table[b][k])
<1>1. k \in Nat /\ Wide \in Nat \ {0} /\ k * Wide \in Nat /\ (k + 1) * Wide = (k * Wide) + Wide
  BY PlaceNumbers
<1>2. d.table[b][k] \in Places
  <2>1. d.table[b] \in [0 .. PER - 1 -> Places]
    BY Constants, DiskTypes DEF Table, Places
  <2> QED BY <2>1
<1>3. e \in Seq(Places) /\ Len(e) = Wide
  BY <1>2, WithEntriesIs
<1>4. w \in Seq(Places) /\ Len(w) = 1 + (k * Wide) /\ w[1] = b
  BY DEF TablesUpTo
<1>a. w \in Seq(Places) /\ e \in Seq(Places)
  BY <1>3, <1>4
<1>5. r = w \o e
  OBVIOUS
<1> HIDE DEF e
<1>6. /\ r \in Seq(Places) /\ Len(r) = Len(w) + Len(e)
      /\ \A i \in 1 .. Len(w) : r[i] = w[i]
      /\ \A i \in 1 .. Len(e) : r[Len(w) + i] = e[i]
  BY <1>a, <1>5, Concat
<1>7. r[1] = b
  BY <1>1, <1>4, <1>6
<1>8. Len(r) = 1 + ((k + 1) * Wide)
  BY <1>1, <1>3, <1>4, <1>6
<1>9. ASSUME NEW q \in 0 .. (k + 1) - 1, NEW i \in 1 .. Wide
      PROVE  r[1 + (q * Wide) + i] = WithEntries(d, d.table[b][q])[i]
  <2>1. CASE q = k
    <3>1. Len(w) + i = 1 + (q * Wide) + i
      BY <1>4, <2>1
    <3>2. r[Len(w) + i] = e[i]
      BY <1>3, <1>6
    <3> QED BY <2>1, <3>1, <3>2 DEF e
  <2>2. CASE q # k
    <3>1. q \in 0 .. k - 1 /\ q \in Nat /\ q + 1 \in Nat /\ q + 1 <= k
      BY <1>1, <2>2
    <3>2. (q + 1) * Wide <= k * Wide /\ (q + 1) * Wide = (q * Wide) + Wide /\ q * Wide \in Nat
      BY <1>1, <3>1, Times
    <3> DEFINE x == q * Wide
               y == k * Wide
    <3>a. x \in Nat /\ y \in Nat /\ x + Wide <= y /\ Len(w) = 1 + y
      BY <1>1, <1>4, <3>2
    <3> HIDE DEF x, y
    <3>b. 1 + x + i \in 1 .. Len(w)
      BY <1>1, <3>a
    <3>3. 1 + (q * Wide) + i \in 1 .. Len(w)
      BY <3>b DEF x
    <3>4. r[1 + (q * Wide) + i] = w[1 + (q * Wide) + i]
      BY <1>6, <3>3
    <3> QED BY <3>1, <3>4 DEF TablesUpTo
  <2> QED BY <2>1, <2>2
<1> QED BY <1>6, <1>7, <1>8, <1>9 DEF TablesUpTo

LEMMA WithTablesIs ==
    ASSUME NEW d \in Disk, NEW b \in Places
    PROVE  TablesUpTo(d, b, PER, WithTables(d, b))
<1> DEFINE S == Seq(Places)
           E(n) == WithEntries(d, d.table[b][n - 1])
           start == <<b>>
           g == [n \in 1 .. PER |-> [x \in S |-> x \o E(n)]]
           Loop(h) == [k \in 0 .. PER |->
                IF k = 0 THEN <<b>> ELSE h[k - 1] \o WithEntries(d, d.table[b][k - 1])]
           walk == CHOOSE h : h = Loop(h)
<1>1. PER \in Nat \ {0}
  BY Constants
<1>2. WithTables(d, b) = walk[PER]
  BY Zenon DEF WithTables
<1>3. start \in S
  OBVIOUS
<1>4. \A n \in 1 .. PER : E(n) \in S
  <2> SUFFICES ASSUME NEW n \in 1 .. PER PROVE E(n) \in S
    OBVIOUS
  <2>1. d.table[b] \in [0 .. PER - 1 -> Places]
    BY Constants, DiskTypes DEF Table, Places
  <2>2. d.table[b][n - 1] \in Places
    BY <1>1, <2>1
  <2> QED BY <2>2, WithEntriesIs
<1>5. \A x \in S : \A n \in 1 .. PER : x \o E(n) \in S
  BY <1>4, Concat
<1> HIDE DEF S, E
<1>6. \E h : h = Loop(h)
  <2>1. g \in [1 .. PER -> [S -> S]]
    BY <1>5
  <2> HIDE DEF g, start
  <2>2. HasRecursion(PER, S, start, g)
    BY <1>1, <1>3, <2>1, RecursionExists
  <2>3. PICK h \in [0 .. PER -> S] : h[0] = start /\ \A n \in 1 .. PER : h[n] = g[n][h[n - 1]]
    BY <2>2 DEF HasRecursion
  <2>4. \A n \in 1 .. PER : h[n] = h[n - 1] \o E(n)
    <3> SUFFICES ASSUME NEW n \in 1 .. PER PROVE h[n] = h[n - 1] \o E(n)
      OBVIOUS
    <3>1. n - 1 \in 0 .. PER
      BY <1>1
    <3>2. h[n - 1] \in S
      BY <3>1
    <3>3. g[n][h[n - 1]] = h[n - 1] \o E(n)
      BY <3>2 DEF g
    <3> QED BY <2>3, <3>3
  <2>5. 0 \in 0 .. PER /\ \A n \in 0 .. PER : n = 0 \/ n \in 1 .. PER
    BY <1>1
  <2>6. \A n \in 0 .. PER : h[n] = IF n = 0 THEN start ELSE h[n - 1] \o E(n)
    BY <2>3, <2>4, <2>5
  <2>7. h = Loop(h)
    BY <2>3, <2>6 DEF start, E
  <2> QED BY <2>7
<1>7. walk = Loop(walk)
  BY <1>6, Zenon
<1> HIDE DEF walk
<1>8. walk[0] = start /\ \A n \in 1 .. PER : walk[n] = walk[n - 1] \o E(n)
  <2>1. PER \in Nat /\ 0 \in 0 .. PER
    BY <1>1
  <2>2. walk[0] = start
    BY <1>7, <2>1
  <2>3. ASSUME NEW n \in 1 .. PER PROVE walk[n] = walk[n - 1] \o E(n)
    <3>1. n \in 0 .. PER /\ n # 0
      BY <2>1
    <3> QED BY <1>7, <3>1 DEF E
  <2> QED BY <2>2, <2>3
<1> DEFINE T == {k \in 0 .. PER : TablesUpTo(d, b, k, walk[k])}
<1>9. 0 \in T
  <2>1. start \in Seq(Places) /\ Len(start) = 1 /\ start[1] = b
    OBVIOUS
  <2>2. 0 * Wide = 0 /\ 1 + 0 = 1 /\ 0 .. 0 - 1 = {}
    BY PlaceNumbers
  <2> HIDE DEF start
  <2>3. TablesUpTo(d, b, 0, start)
    BY <2>1, <2>2 DEF TablesUpTo
  <2> QED BY <1>1, <1>8, <2>3
<1>10. ASSUME NEW k \in 0 .. PER - 1, k \in T PROVE k + 1 \in T
  <2>1. k + 1 \in 1 .. PER /\ (k + 1) - 1 = k /\ k + 1 \in 0 .. PER
    BY <1>1
  <2>2. walk[k + 1] = walk[k] \o WithEntries(d, d.table[b][k])
    BY <1>8, <2>1 DEF E
  <2>3. TablesUpTo(d, b, k, walk[k])
    BY <1>10
  <2>4. TablesUpTo(d, b, k + 1, walk[k + 1])
    BY <2>2, <2>3, TablesOneMore
  <2> QED BY <2>1, <2>4
<1> HIDE DEF T
<1>11. 0 .. PER \subseteq T
  BY <1>1, <1>9, <1>10, SetInduction
<1>12. PER \in T
  BY <1>1, <1>11
<1> QED BY <1>2, <1>12 DEF T

LEMMA WalkIs ==
    ASSUME NEW d \in Disk, NEW f \in Files
    PROVE  /\ WalkOrder(d, f) \in Seq(Places) /\ Len(WalkOrder(d, f)) = NumPlaces
           /\ \A m \in 1 .. NumPlaces : Value(d, f, m) \in Places /\ Value(d, f, m) = Found(d, f, m)
<1> DEFINE ib == d.inode[f].i_block
           u == [k \in 1 .. NDIRECT |-> ib[k - 1]]
           v == WithEntries(d, ib[IND])
           w == WithTables(d, ib[DIND])
           uv == u \o v
           x == uv \o w
           P == PER * Wide
<1>1. ib \in [0 .. DIND -> Places] /\ NDIRECT \in Nat /\ DIND = NDIRECT + 1 /\ IND = NDIRECT
  BY InodeTypes, Constants DEF DIND, IND
<1> HIDE DEF ib
<1>2. /\ ib[IND] \in Places /\ ib[DIND] \in Places
      /\ \A k \in 1 .. NDIRECT : ib[k - 1] \in Places
  BY <1>1
<1>3. u \in Seq(Places) /\ Len(u) = NDIRECT /\ \A k \in 1 .. NDIRECT : u[k] = ib[k - 1]
  BY <1>1, <1>2
<1>4. /\ v \in Seq(Places) /\ Len(v) = Wide /\ v[1] = ib[IND]
      /\ \A j \in 1 .. PER : v[j + 1] = d.table[ib[IND]][j - 1]
  BY <1>2, WithEntriesIs
<1>5. TablesUpTo(d, ib[DIND], PER, w)
  BY <1>2, WithTablesIs
<1>6. WalkOrder(d, f) = x
  BY DEF WalkOrder, ib
<1> HIDE DEF u, v, w
<1>7. /\ uv \in Seq(Places) /\ Len(uv) = NDIRECT + Wide
      /\ \A k \in 1 .. NDIRECT : uv[k] = ib[k - 1]
      /\ \A i \in 1 .. Wide : uv[NDIRECT + i] = v[i]
  <2>1. uv = u \o v
    OBVIOUS
  <2> HIDE DEF uv
  <2>a. u \in Seq(Places) /\ v \in Seq(Places)
    BY <1>3, <1>4
  <2>2. /\ uv \in Seq(Places) /\ Len(uv) = Len(u) + Len(v)
        /\ \A i \in 1 .. Len(u) : uv[i] = u[i]
        /\ \A i \in 1 .. Len(v) : uv[Len(u) + i] = v[i]
    BY <2>a, <2>1, Concat
  <2> QED BY <1>3, <1>4, <2>2
<1> HIDE DEF uv
<1>8. /\ NDIRECT + Wide = Base - 1 /\ Base \in Nat \ {0} /\ Wide \in Nat \ {0} /\ PER \in Nat \ {0}
      /\ Wide = PER + 1 /\ P \in Nat /\ NumPlaces = Base + P /\ NDIRECT \in Nat \ {0}
  BY PlaceNumbers
<1>9. w \in Seq(Places) /\ Len(w) = 1 + P /\ w[1] = ib[DIND]
  BY <1>5 DEF TablesUpTo
<1> HIDE DEF P
<1>10. /\ x \in Seq(Places) /\ Len(x) = NumPlaces
       /\ \A i \in 1 .. Base - 1 : x[i] = uv[i]
       /\ \A i \in 1 .. 1 + P : x[Base - 1 + i] = w[i]
  <2>1. x = uv \o w
    OBVIOUS
  <2> HIDE DEF x
  <2>a. uv \in Seq(Places) /\ w \in Seq(Places)
    BY <1>7, <1>9
  <2>2. /\ x \in Seq(Places) /\ Len(x) = Len(uv) + Len(w)
        /\ \A i \in 1 .. Len(uv) : x[i] = uv[i]
        /\ \A i \in 1 .. Len(w) : x[Len(uv) + i] = w[i]
    BY <2>a, <2>1, Concat
  <2>3. Len(uv) = Base - 1 /\ Len(w) = 1 + P
    BY <1>7, <1>8, <1>9
  <2>4. Len(x) = NumPlaces
    BY <1>8, <2>2, <2>3
  <2> QED BY <2>2, <2>3, <2>4
<1> HIDE DEF x
<1>11. \A m : Value(d, f, m) = x[m]
  BY <1>6 DEF Value
<1>12. ASSUME NEW m \in 1 .. NumPlaces PROVE x[m] \in Places
  BY <1>10
<1>13. ASSUME NEW m \in 1 .. NDIRECT + 1 PROVE x[m] = ib[m - 1]
  <2>1. m \in 1 .. Base - 1
    BY <1>8
  <2>2. CASE m \in 1 .. NDIRECT
    BY <1>7, <1>10, <2>1, <2>2
  <2>3. CASE m = NDIRECT + 1
    <3>1. 1 \in 1 .. Wide /\ m - 1 = IND
      BY <1>1, <1>8, <2>3
    <3>2. uv[NDIRECT + 1] = v[1]
      BY <1>7, <3>1
    <3> QED BY <1>4, <1>10, <2>1, <2>3, <3>1, <3>2
  <2> QED BY <2>2, <2>3, <1>8
<1>14. ASSUME NEW m \in NDIRECT + 2 .. Base - 1
       PROVE  x[m] = d.table[x[NDIRECT + 1]][m - NDIRECT - 2]
  <2> DEFINE j == m - NDIRECT - 1
  <2>1. m \in 1 .. Base - 1 /\ j \in 1 .. PER /\ j + 1 \in 1 .. Wide /\ NDIRECT + (j + 1) = m
        /\ j - 1 = m - NDIRECT - 2
    BY <1>8
  <2> HIDE DEF j
  <2>2. uv[m] = v[j + 1]
    BY <1>7, <2>1
  <2>3. x[m] = d.table[ib[IND]][m - NDIRECT - 2]
    BY <1>4, <1>10, <2>1, <2>2
  <2>4. NDIRECT + 1 \in 1 .. NDIRECT + 1 /\ (NDIRECT + 1) - 1 = IND
    BY <1>1, <1>8
  <2>5. x[NDIRECT + 1] = ib[IND]
    BY <1>13, <2>4
  <2> QED BY <2>3, <2>5
<1>15. x[Base] = ib[DIND]
  <2>1. 1 \in 1 .. 1 + P /\ Base - 1 + 1 = Base
    BY <1>8
  <2> QED BY <1>9, <1>10, <2>1
<1>16. ASSUME NEW q \in 0 .. PER - 1, NEW j \in 0 .. PER
       PROVE  x[TablePlace(q) + j] = WithEntries(d, d.table[ib[DIND]][q])[j + 1]
  <2>1. TablePlace(q) \in Base + 1 .. NumPlaces - PER /\ j + 1 \in 1 .. Wide
    BY <1>8, ParentsOf
  <2> DEFINE y == q * Wide
             i == 1 + y + (j + 1)
  <2>2. w[i] = WithEntries(d, d.table[ib[DIND]][q])[j + 1]
    BY <1>5, <2>1 DEF TablesUpTo
  <2>3. TablePlace(q) = Base + 1 + y /\ y \in Nat
    BY <1>8 DEF TablePlace
  <2> HIDE DEF y
  <2>4. i \in 1 .. 1 + P /\ Base - 1 + i = TablePlace(q) + j
    BY <1>8, <2>1, <2>3
  <2> HIDE DEF i
  <2>5. x[Base - 1 + i] = w[i]
    BY <1>10, <2>4
  <2> QED BY <2>2, <2>4, <2>5
<1>17. ASSUME NEW q \in 0 .. PER - 1
       PROVE  /\ x[TablePlace(q)] = d.table[x[Base]][q]
              /\ \A j \in 1 .. PER : x[TablePlace(q) + j] = d.table[x[TablePlace(q)]][j - 1]
  <2> DEFINE t == d.table[ib[DIND]][q]
             m == TablePlace(q)
  <2>1. t \in Places
    <3>1. d.table[ib[DIND]] \in [0 .. PER - 1 -> Places]
      BY <1>2, Constants, DiskTypes DEF Table, Places
    <3> QED BY <3>1
  <2>2. /\ WithEntries(d, t)[1] = t
        /\ \A j \in 1 .. PER : WithEntries(d, t)[j + 1] = d.table[t][j - 1]
    BY <2>1, WithEntriesIs
  <2>3. m \in Nat /\ 0 \in 0 .. PER /\ 0 + 1 = 1 /\ \A j \in 1 .. PER : j \in 0 .. PER
    BY <1>8, ParentsOf
  <2>4. m + 0 = m
    BY <2>3
  <2>5. \A j \in 0 .. PER : x[m + j] = WithEntries(d, t)[j + 1]
    BY <1>16
  <2> HIDE DEF t, m
  <2>6. x[m] = t
    <3>1. x[m + 0] = WithEntries(d, t)[0 + 1]
      BY <2>3, <2>5
    <3> QED BY <2>2, <2>3, <2>4, <3>1
  <2>7. \A j \in 1 .. PER : x[m + j] = d.table[x[m]][j - 1]
    BY <2>2, <2>3, <2>5, <2>6
  <2> QED BY <1>15, <2>6, <2>7 DEF m, t
<1>18. ASSUME NEW m \in 1 .. NumPlaces
       PROVE  x[m] = IF Parent(m) = 0 THEN ib[Index(m)] ELSE d.table[x[Parent(m)]][Index(m)]
  <2>1. CASE m \in 1 .. NDIRECT + 1
    BY <1>13, <2>1, ParentsOf
  <2>2. CASE m \in NDIRECT + 2 .. Base - 1
    BY <1>8, <1>14, <2>2, ParentsOf
  <2>3. CASE m = Base
    BY <1>15, <2>3, ParentsOf
  <2>4. ASSUME NEW q \in 0 .. PER - 1, NEW j \in 0 .. PER, m = TablePlace(q) + j
        PROVE  x[m] = IF Parent(m) = 0 THEN ib[Index(m)] ELSE d.table[x[Parent(m)]][Index(m)]
    <3>1. TablePlace(q) \in Base + 1 .. NumPlaces - PER
      BY ParentsOf
    <3>2. CASE j = 0
      <4>1. m = TablePlace(q) /\ Base # 0
        BY <1>8, <2>4, <3>1, <3>2
      <4> QED BY <1>17, <4>1, ParentsOf
    <3>3. CASE j # 0
      <4>1. j \in 1 .. PER /\ TablePlace(q) # 0
        BY <1>8, <3>1, <3>3
      <4>2. Parent(m) = TablePlace(q) /\ Index(m) = j - 1
        BY <2>4, <4>1, ParentsOf
      <4> QED BY <1>17, <2>4, <4>1, <4>2
    <3> QED BY <3>2, <3>3
  <2> QED BY <2>1, <2>2, <2>3, <2>4, PlaceCases
<1> QED BY <1>6, <1>10, <1>11, <1>12, <1>18 DEF Found, ib

-------------------------------------------------------------------------------
\* A place is below its parent, and no two places are the same entry.
LEMMA ParentBelow ==
    ASSUME NEW m \in 1 .. NumPlaces
    PROVE  /\ Parent(m) \in 0 .. m - 1
           /\ Index(m) \in IF Parent(m) = 0 THEN 0 .. DIND ELSE 0 .. PER - 1
<1>1. /\ NDIRECT \in Nat \ {0} /\ PER \in Nat \ {0} /\ Base \in Nat \ {0} /\ Base = NDIRECT + PER + 2
      /\ DIND = NDIRECT + 1
  BY PlaceNumbers DEF DIND
<1>2. CASE m \in 1 .. NDIRECT + 1
  BY <1>1, <1>2, ParentsOf
<1>3. CASE m \in NDIRECT + 2 .. Base - 1
  <2>1. Parent(m) = NDIRECT + 1 /\ Index(m) = m - NDIRECT - 2
    BY <1>3, ParentsOf
  <2> QED BY <1>1, <1>3, <2>1
<1>4. CASE m = Base
  BY <1>1, <1>4, ParentsOf
<1>5. ASSUME NEW q \in 0 .. PER - 1, NEW j \in 0 .. PER, m = TablePlace(q) + j
      PROVE  /\ Parent(m) \in 0 .. m - 1
             /\ Index(m) \in IF Parent(m) = 0 THEN 0 .. DIND ELSE 0 .. PER - 1
  <2> DEFINE p == TablePlace(q)
  <2>1. /\ p \in Base + 1 .. NumPlaces - PER
        /\ Parent(p) = Base /\ Index(p) = q
        /\ \A i \in 1 .. PER : Parent(p + i) = p /\ Index(p + i) = i - 1
    BY ParentsOf
  <2>2. NumPlaces \in Nat /\ m = p + j
    BY <1>5, PlaceNumbers
  <2> HIDE DEF p
  <2>3. CASE j = 0
    BY <1>1, <2>1, <2>2, <2>3
  <2>4. CASE j # 0
    <3>1. j \in 1 .. PER
      BY <1>1, <2>4
    <3> QED BY <1>1, <2>1, <2>2, <3>1
  <2> QED BY <2>3, <2>4
<1> QED BY <1>2, <1>3, <1>4, <1>5, PlaceCases

\* Which place an entry of a given parent is.
EntryPlace(p, k) ==
    IF p = 0 THEN (IF k = DIND THEN Base ELSE k + 1)
    ELSE IF p = NDIRECT + 1 THEN k + NDIRECT + 2
    ELSE IF p = Base THEN TablePlace(k) ELSE p + k + 1

LEMMA PlaceOfEntry ==
    ASSUME NEW m \in 1 .. NumPlaces
    PROVE  m = EntryPlace(Parent(m), Index(m))
<1>1. /\ NDIRECT \in Nat \ {0} /\ PER \in Nat \ {0} /\ Base \in Nat \ {0} /\ Base = NDIRECT + PER + 2
      /\ DIND = NDIRECT + 1
  BY PlaceNumbers DEF DIND
<1>2. CASE m \in 1 .. NDIRECT + 1
  BY <1>1, <1>2, ParentsOf DEF EntryPlace
<1>3. CASE m \in NDIRECT + 2 .. Base - 1
  <2>1. Parent(m) = NDIRECT + 1 /\ Index(m) = m - NDIRECT - 2
    BY <1>3, ParentsOf
  <2> QED BY <1>1, <1>3, <2>1 DEF EntryPlace
<1>4. CASE m = Base
  BY <1>1, <1>4, ParentsOf DEF EntryPlace
<1>5. ASSUME NEW q \in 0 .. PER - 1, NEW j \in 0 .. PER, m = TablePlace(q) + j
      PROVE  m = EntryPlace(Parent(m), Index(m))
  <2>1. /\ TablePlace(q) \in Base + 1 .. NumPlaces - PER
        /\ Parent(TablePlace(q)) = Base /\ Index(TablePlace(q)) = q
        /\ \A i \in 1 .. PER : Parent(TablePlace(q) + i) = TablePlace(q) /\ Index(TablePlace(q) + i) = i - 1
    BY ParentsOf
  <2>2. CASE j = 0
    <3>1. m = TablePlace(q)
      BY <1>1, <1>5, <2>1, <2>2, PlaceNumbers
    <3> QED BY <1>1, <2>1, <3>1 DEF EntryPlace
  <2>3. CASE j # 0
    <3>1. j \in 1 .. PER
      BY <1>1, <2>3
    <3> DEFINE p == TablePlace(q)
    <3>2. Parent(m) = p /\ Index(m) = j - 1 /\ m = p + j /\ p \in Nat /\ p > Base /\ j \in Nat
      BY <1>1, <1>5, <2>1, <3>1, PlaceNumbers
    <3> HIDE DEF p
    <3>3. Parent(m) # 0 /\ Parent(m) # NDIRECT + 1 /\ Parent(m) # Base
      BY <1>1, <3>2
    <3>4. m = Parent(m) + Index(m) + 1
      BY <3>2
    <3> QED BY <3>3, <3>4 DEF EntryPlace
  <2> QED BY <2>2, <2>3
<1> QED BY <1>2, <1>3, <1>4, <1>5, PlaceCases

LEMMA EntriesDiffer ==
    ASSUME NEW m \in 1 .. NumPlaces, NEW n \in 1 .. NumPlaces, Parent(m) = Parent(n), Index(m) = Index(n)
    PROVE  m = n
<1>1. m = EntryPlace(Parent(m), Index(m)) /\ n = EntryPlace(Parent(n), Index(n))
  BY PlaceOfEntry
<1> QED BY <1>1, Zenon

-------------------------------------------------------------------------------
\* The places on the way to a logical block, the last of which is its own.
Beyond(l) == l - NDIRECT - PER
Stop(l, k) ==
    IF l < NDIRECT THEN l + 1
    ELSE IF l < NDIRECT + PER THEN (IF k = 1 THEN NDIRECT + 1 ELSE l + 2)
    ELSE IF k = 1 THEN Base
    ELSE IF k = 2 THEN TablePlace(Beyond(l) \div PER)
    ELSE TablePlace(Beyond(l) \div PER) + ((Beyond(l) % PER) + 1)
Leaf(l) == Stop(l, Len(Path(l)))

\* A logical block that is found through the double indirect block.
LEMMA BeyondParts ==
    ASSUME NEW l \in LogicalRange, ~(l < NDIRECT), ~(l < NDIRECT + PER)
    PROVE  /\ Beyond(l) \in Nat /\ Beyond(l) \div PER \in 0 .. PER - 1
           /\ Beyond(l) % PER \in 0 .. PER - 1
           /\ Beyond(l) = (PER * (Beyond(l) \div PER)) + (Beyond(l) % PER)
           /\ l = Beyond(l) + NDIRECT + PER
<1>1. l \in Nat /\ NDIRECT \in Nat \ {0} /\ PER \in Nat \ {0} /\ PER * PER \in Nat
      /\ l < NDIRECT + PER + PER * PER
  BY Constants DEF LogicalRange
<1>2. Beyond(l) \in Nat /\ Beyond(l) < PER * PER /\ l = Beyond(l) + NDIRECT + PER
  BY <1>1 DEF Beyond
<1>3. /\ Beyond(l) \div PER \in Nat /\ Beyond(l) % PER \in 0 .. PER - 1
      /\ Beyond(l) = (PER * (Beyond(l) \div PER)) + (Beyond(l) % PER)
  BY <1>1, <1>2, Division
<1>4. Beyond(l) \div PER < PER
  BY <1>1, <1>2, QuotientBelow
<1> DEFINE q == Beyond(l) \div PER
<1>5. q \in Nat /\ q < PER
  BY <1>3, <1>4
<1> HIDE DEF q
<1>6. q \in 0 .. PER - 1
  BY <1>1, <1>5
<1> QED BY <1>2, <1>3, <1>6 DEF q

LEMMA StopsOf ==
    ASSUME NEW l \in LogicalRange, NEW k \in 1 .. Len(Path(l))
    PROVE  /\ Stop(l, k) \in 1 .. NumPlaces /\ Stop(l, k) <= Leaf(l)
           /\ Parent(Stop(l, k)) = IF k = 1 THEN 0 ELSE Stop(l, k - 1)
           /\ Index(Stop(l, k)) = Path(l)[k]
<1>1. /\ l \in Nat /\ NDIRECT \in Nat \ {0} /\ PER \in Nat \ {0} /\ Base \in Nat \ {0}
      /\ Base = NDIRECT + PER + 2 /\ DIND = NDIRECT + 1 /\ IND = NDIRECT /\ NumPlaces \in Nat /\ Base <= NumPlaces
  BY PlaceNumbers DEF LogicalRange, DIND, IND
<1>2. CASE l < NDIRECT
  <2>1. Path(l) = <<l>> /\ Len(Path(l)) = 1 /\ k = 1 /\ Path(l)[k] = l
    BY <1>2 DEF Path
  <2>2. Stop(l, k) = l + 1 /\ Leaf(l) = l + 1
    BY <1>2, <2>1 DEF Stop, Leaf
  <2>3. l + 1 \in 1 .. NDIRECT + 1
    BY <1>1, <1>2
  <2>4. Parent(l + 1) = 0 /\ Index(l + 1) = (l + 1) - 1
    BY <2>3, ParentsOf
  <2> QED BY <1>1, <1>2, <2>1, <2>2, <2>4
<1>3. CASE ~(l < NDIRECT) /\ l < NDIRECT + PER
  <2>1. Path(l) = <<IND, l - NDIRECT>> /\ Len(Path(l)) = 2 /\ k \in 1 .. 2
    BY <1>3 DEF Path
  <2>2. Stop(l, 1) = NDIRECT + 1 /\ Stop(l, 2) = l + 2 /\ Leaf(l) = l + 2
    BY <1>3, <2>1 DEF Stop, Leaf
  <2>3. NDIRECT + 1 \in 1 .. NDIRECT + 1 /\ l + 2 \in NDIRECT + 2 .. Base - 1
    BY <1>1, <1>3
  <2>4. /\ Parent(NDIRECT + 1) = 0 /\ Index(NDIRECT + 1) = (NDIRECT + 1) - 1
        /\ Parent(l + 2) = NDIRECT + 1 /\ Index(l + 2) = (l + 2) - NDIRECT - 2
    BY <2>3, ParentsOf
  <2>5. CASE k = 1
    BY <1>1, <1>3, <2>1, <2>2, <2>4, <2>5
  <2>6. CASE k = 2
    <3>1. k - 1 = 1 /\ Path(l)[k] = l - NDIRECT
      BY <2>1, <2>6
    <3> QED BY <1>1, <1>3, <2>2, <2>4, <2>6, <3>1
  <2> QED BY <2>1, <2>5, <2>6
<1>4. CASE ~(l < NDIRECT) /\ ~(l < NDIRECT + PER)
  <2> DEFINE q == Beyond(l) \div PER
             j == Beyond(l) % PER
             p == TablePlace(q)
  <2>1. q \in 0 .. PER - 1 /\ j \in 0 .. PER - 1
    BY <1>4, BeyondParts
  <2>2. Path(l) = <<DIND, q, j>>
    BY <1>4 DEF Path, Beyond
  <2>3. Len(Path(l)) = 3 /\ Stop(l, 1) = Base /\ Stop(l, 2) = p /\ Stop(l, 3) = p + (j + 1)
    BY <1>4, <2>2 DEF Stop
  <2> HIDE DEF q, j
  <2>4. /\ p \in Base + 1 .. NumPlaces - PER
        /\ Parent(p) = Base /\ Index(p) = q
        /\ \A i \in 1 .. PER : Parent(p + i) = p /\ Index(p + i) = i - 1
    BY <2>1, ParentsOf
  <2> HIDE DEF p
  <2>5. j + 1 \in 1 .. PER /\ j \in Nat /\ (j + 1) - 1 = j
    BY <1>1, <2>1
  <2>6. Parent(p + (j + 1)) = p /\ Index(p + (j + 1)) = j
    BY <2>4, <2>5
  <2>7. Leaf(l) = p + (j + 1)
    BY <2>3 DEF Leaf
  <2>8. CASE k = 1
    BY <1>1, <2>2, <2>3, <2>4, <2>5, <2>7, <2>8, ParentsOf
  <2>9. CASE k = 2
    <3>1. k - 1 = 1 /\ Path(l)[k] = q
      BY <2>2, <2>9
    <3>2. p \in 1 .. NumPlaces /\ p <= p + (j + 1)
      BY <1>1, <2>4, <2>5
    <3> QED BY <2>3, <2>4, <2>7, <2>9, <3>1, <3>2
  <2>10. CASE k = 3
    <3>1. k - 1 = 2 /\ Path(l)[k] = j
      BY <2>2, <2>10
    <3>2. p + (j + 1) \in 1 .. NumPlaces
      BY <1>1, <2>4, <2>5
    <3> QED BY <2>3, <2>6, <2>7, <2>10, <3>1, <3>2
  <2> QED BY <2>3, <2>8, <2>9, <2>10
<1> QED BY <1>2, <1>3, <1>4

LEMMA LeafRange ==
    ASSUME NEW l \in LogicalRange
    PROVE  Leaf(l) \in 1 .. NumPlaces
BY StopsOf, PathRange DEF Leaf

\* writeToFile never skips a place: the next one on the way follows the one above it or the
\* last of the logical block before.
LEMMA NoGap ==
    ASSUME NEW l \in LogicalRange, NEW k \in 1 .. Len(Path(l))
    PROVE  \/ Stop(l, k) = 1
           \/ k > 1 /\ Stop(l, k) <= Stop(l, k - 1) + 1
           \/ l > 0 /\ l - 1 \in LogicalRange /\ Stop(l, k) <= Leaf(l - 1) + 1
<1>1. /\ l \in Nat /\ NDIRECT \in Nat \ {0} /\ PER \in Nat \ {0} /\ Base \in Nat \ {0} /\ Wide = PER + 1
      /\ Base = NDIRECT + PER + 2 /\ DIND = NDIRECT + 1 /\ IND = NDIRECT /\ NumPlaces \in Nat /\ Base <= NumPlaces
  BY PlaceNumbers DEF LogicalRange, DIND, IND
<1>2. l > 0 => l - 1 \in LogicalRange
  <2> DEFINE m == NDIRECT + PER + PER * PER
  <2>1. m \in Nat /\ LogicalRange = 0 .. m - 1
    BY <1>1 DEF LogicalRange
  <2> HIDE DEF m
  <2> QED BY <2>1
<1>3. CASE l < NDIRECT
  <2>1. Stop(l, k) = l + 1
    BY <1>3 DEF Stop
  <2>2. CASE l = 0
    BY <2>1, <2>2
  <2>3. CASE l > 0
    <3>1. l - 1 < NDIRECT
      BY <1>1, <1>3
    <3>2. Leaf(l - 1) = (l - 1) + 1
      BY <3>1 DEF Leaf, Stop
    <3> QED BY <1>1, <1>2, <2>1, <2>3, <3>2
  <2> QED BY <1>1, <2>2, <2>3
<1>4. CASE ~(l < NDIRECT) /\ l < NDIRECT + PER
  <2>1. Len(Path(l)) = 2 /\ k \in 1 .. 2
    BY <1>4 DEF Path
  <2>2. Stop(l, 1) = NDIRECT + 1 /\ Stop(l, 2) = l + 2
    BY <1>4 DEF Stop
  <2>3. l > 0 /\ l - 1 \in LogicalRange /\ l - 1 \in Nat
    BY <1>1, <1>2, <1>4
  <2>4. CASE l = NDIRECT
    <3>1. l - 1 < NDIRECT
      BY <1>1, <2>4
    <3>2. Leaf(l - 1) = (l - 1) + 1
      BY <3>1 DEF Leaf, Stop
    <3>3. CASE k = 1
      BY <1>1, <2>2, <2>3, <2>4, <3>2, <3>3
    <3>4. CASE k = 2
      <4>1. k - 1 = 1
        BY <3>4
      <4> QED BY <1>1, <2>2, <2>4, <3>4, <4>1
    <3> QED BY <2>1, <3>3, <3>4
  <2>5. CASE l # NDIRECT
    <3>1. ~(l - 1 < NDIRECT) /\ l - 1 < NDIRECT + PER
      BY <1>1, <1>4, <2>5
    <3>2. Path(l - 1) = <<IND, (l - 1) - NDIRECT>>
      BY <3>1 DEF Path
    <3>3. Leaf(l - 1) = (l - 1) + 2
      BY <3>1, <3>2 DEF Leaf, Stop
    <3>4. CASE k = 1
      BY <1>1, <1>4, <2>2, <2>3, <3>3, <3>4
    <3>5. CASE k = 2
      BY <1>1, <1>4, <2>2, <2>3, <3>3, <3>5
    <3> QED BY <2>1, <3>4, <3>5
  <2> QED BY <2>4, <2>5
<1>5. CASE ~(l < NDIRECT) /\ ~(l < NDIRECT + PER)
  <2> DEFINE q == Beyond(l) \div PER
             j == Beyond(l) % PER
             p == TablePlace(q)
             x == q * Wide
  <2>1. /\ q \in 0 .. PER - 1 /\ j \in 0 .. PER - 1 /\ l = Beyond(l) + NDIRECT + PER
        /\ Beyond(l) = (PER * q) + j /\ Beyond(l) \in Nat
    BY <1>5, BeyondParts
  <2>2. Path(l) = <<DIND, q, j>>
    BY <1>5 DEF Path, Beyond
  <2>3. Len(Path(l)) = 3 /\ Stop(l, 1) = Base /\ Stop(l, 2) = p /\ Stop(l, 3) = p + (j + 1)
    BY <1>5, <2>2 DEF Stop
  <2>4. l > 0 /\ l - 1 \in LogicalRange /\ l - 1 \in Nat
    BY <1>1, <1>2, <1>5
  <2>a. q \in Nat /\ Wide \in Nat /\ Base \in Nat
    BY <1>1, <2>1
  <2> HIDE DEF q, j
  <2>5. p = Base + 1 + x /\ x \in Nat
    BY <2>a DEF TablePlace
  <2> HIDE DEF p, x
  <2>6. CASE q = 0 /\ j = 0
    <3>1. l = NDIRECT + PER
      BY <1>1, <2>1, <2>6
    <3>2. Leaf(l - 1) = (l - 1) + 2
      <4>1. ~(l - 1 < NDIRECT) /\ l - 1 < NDIRECT + PER
        BY <1>1, <3>1
      <4>2. Path(l - 1) = <<IND, (l - 1) - NDIRECT>>
        BY <4>1 DEF Path
      <4> QED BY <4>1, <4>2 DEF Leaf, Stop
    <3>3. x = 0
      BY <1>1, <2>6 DEF x
    <3>4. CASE k = 1
      BY <1>1, <2>3, <2>4, <3>1, <3>2, <3>4
    <3>5. CASE k = 2
      <4>1. k - 1 = 1
        BY <3>5
      <4> QED BY <1>1, <2>3, <2>5, <3>3, <3>5, <4>1
    <3>6. CASE k = 3
      <4>1. k - 1 = 2
        BY <3>6
      <4> QED BY <1>1, <2>3, <2>5, <2>6, <3>6, <4>1
    <3> QED BY <2>3, <3>4, <3>5, <3>6
  <2>7. CASE ~(q = 0 /\ j = 0)
    <3> DEFINE q1 == Beyond(l - 1) \div PER
               j1 == Beyond(l - 1) % PER
    <3>1. Beyond(l) > 0
      <4>1. CASE q = 0
        BY <1>1, <2>1, <2>7, <4>1
      <4>2. CASE q # 0
        <5>1. q \in Nat /\ 1 <= q
          BY <1>1, <2>1, <4>2
        <5>2. 1 * PER <= q * PER /\ q * PER \in Nat /\ 1 * PER = PER
          BY <1>1, <5>1, Times
        <5>3. PER * q = q * PER
          BY <1>1, <5>1
        <5> QED BY <1>1, <2>1, <5>2, <5>3
      <4> QED BY <4>1, <4>2
    <3>2. /\ ~(l - 1 < NDIRECT) /\ ~(l - 1 < NDIRECT + PER)
          /\ Beyond(l - 1) = Beyond(l) - 1 /\ Beyond(l - 1) \in Nat
      BY <1>1, <2>1, <3>1 DEF Beyond
    <3>3. Path(l - 1) = <<DIND, q1, j1>>
      BY <3>2 DEF Path, Beyond
    <3>4. Leaf(l - 1) = TablePlace(q1) + (j1 + 1)
      <4>1. Len(Path(l - 1)) = 3
        BY <3>3
      <4>2. Leaf(l - 1) = Stop(l - 1, 3)
        BY <4>1 DEF Leaf
      <4>3. Stop(l - 1, 3) = TablePlace(Beyond(l - 1) \div PER) + ((Beyond(l - 1) % PER) + 1)
        <5>1. 3 # 1 /\ 3 # 2
          OBVIOUS
        <5> QED BY <3>2, <5>1, Zenon DEF Stop
      <4> QED BY <4>2, <4>3
    <3>a. PER \in Nat \ {0}
      BY <1>1
    <3>5. CASE j # 0
      <4>1. q \in Nat /\ j - 1 \in 0 .. PER - 1 /\ Beyond(l - 1) = (q * PER) + (j - 1)
        <5>1. q \in Nat /\ PER * q = q * PER /\ q * PER \in Nat
          BY <1>1, <2>1
        <5> QED BY <1>1, <2>1, <3>2, <3>5, <5>1
      <4>2. q1 = q /\ j1 = j - 1
        <5> DEFINE b == Beyond(l - 1)
                   u == j - 1
        <5>1. b = (q * PER) + u /\ q \in Nat /\ u \in 0 .. PER - 1
          BY <4>1
        <5> HIDE DEF b, u
        <5>2. b \div PER = q /\ b % PER = u
          BY <3>a, <5>1, DividedBy
        <5> QED BY <5>2 DEF b, u
      <4> HIDE DEF q1, j1
      <4>3. Leaf(l - 1) = p + j
        BY <1>1, <2>1, <2>5, <3>4, <4>2 DEF p
      <4>4. CASE k = 1
        BY <1>1, <2>1, <2>3, <2>4, <2>5, <4>3, <4>4
      <4>5. CASE k = 2
        BY <1>1, <2>1, <2>3, <2>4, <2>5, <4>3, <4>5
      <4>6. CASE k = 3
        BY <1>1, <2>1, <2>3, <2>4, <2>5, <4>3, <4>6
      <4> QED BY <2>3, <4>4, <4>5, <4>6
    <3>6. CASE j = 0
      <4>1. /\ q - 1 \in Nat /\ PER - 1 \in 0 .. PER - 1 /\ Beyond(l - 1) = ((q - 1) * PER) + (PER - 1)
        <5>1. q - 1 \in Nat /\ q = (q - 1) + 1
          BY <1>1, <2>1, <2>7, <3>6
        <5>2. ((q - 1) + 1) * PER = ((q - 1) * PER) + PER /\ (q - 1) * PER \in Nat
          BY <1>1, <5>1, Times
        <5>3. PER * q = q * PER /\ q \in Nat /\ q * PER \in Nat
          BY <1>1, <2>1
        <5> DEFINE y == (q - 1) * PER
                   z == q * PER
        <5>4. y \in Nat /\ z = y + PER /\ Beyond(l) = z /\ z \in Nat
          BY <1>1, <2>1, <3>6, <5>1, <5>2, <5>3
        <5> HIDE DEF y, z
        <5>5. Beyond(l - 1) = y + (PER - 1)
          BY <1>1, <3>2, <5>4
        <5> QED BY <1>1, <5>1, <5>5 DEF y
      <4>2. q1 = q - 1 /\ j1 = PER - 1
        <5> DEFINE b == Beyond(l - 1)
                   t == q - 1
                   u == PER - 1
        <5>1. b = (t * PER) + u /\ t \in Nat /\ u \in 0 .. PER - 1
          BY <4>1
        <5> HIDE DEF b, t, u
        <5>2. b \div PER = t /\ b % PER = u
          BY <3>a, <5>1, DividedBy
        <5> QED BY <5>2 DEF b, t, u
      <4> HIDE DEF q1, j1
      <4>3. x = ((q - 1) * Wide) + Wide
        <5>1. ((q - 1) + 1) * Wide = ((q - 1) * Wide) + Wide /\ q = (q - 1) + 1
          BY <1>1, <4>1, <2>1, Times
        <5> QED BY <5>1 DEF x
      <4>4. Leaf(l - 1) + 1 = p
        <5> DEFINE y == (q - 1) * Wide
        <5>1. y \in Nat /\ x = y + Wide
          BY <1>1, <4>1, <4>3
        <5>2. Leaf(l - 1) = (Base + 1 + y) + ((PER - 1) + 1)
          BY <3>4, <4>2 DEF TablePlace
        <5> HIDE DEF y
        <5> QED BY <1>1, <2>5, <5>1, <5>2
      <4>5. Leaf(l - 1) \in Int
        BY <2>4, LeafRange
      <4>6. CASE k = 1
        BY <1>1, <2>3, <2>4, <2>5, <4>4, <4>5, <4>6
      <4>7. CASE k = 2
        BY <1>1, <2>3, <2>4, <2>5, <4>4, <4>5, <4>7
      <4>8. CASE k = 3
        <5>1. k - 1 = 2
          BY <4>8
        <5> QED BY <1>1, <2>3, <2>5, <3>6, <4>8, <5>1
      <4> QED BY <2>3, <4>6, <4>7, <4>8
    <3> QED BY <3>5, <3>6
  <2> QED BY <2>6, <2>7
<1> QED BY <1>3, <1>4, <1>5

\* No two logical blocks have the same place.
LEMMA LeavesDiffer ==
    ASSUME NEW l \in LogicalRange, NEW m \in LogicalRange, Leaf(l) = Leaf(m)
    PROVE  l = m
<1>1. /\ NDIRECT \in Nat \ {0} /\ PER \in Nat \ {0} /\ Base \in Nat \ {0} /\ Wide = PER + 1 /\ Wide \in Nat \ {0}
      /\ Base = NDIRECT + PER + 2
  BY PlaceNumbers
<1>2. ASSUME NEW n \in LogicalRange, ~(n < NDIRECT), ~(n < NDIRECT + PER)
      PROVE  /\ Leaf(n) > Base
             /\ n = (PER * (Within(Leaf(n)) \div Wide)) + ((Within(Leaf(n)) % Wide) - 1) + NDIRECT + PER
  <2> DEFINE q == Beyond(n) \div PER
             j == Beyond(n) % PER
             r == (q * Wide) + (j + 1)
             x == q * Wide
             y == PER * q
  <2>1. /\ q \in 0 .. PER - 1 /\ j \in 0 .. PER - 1 /\ n = Beyond(n) + NDIRECT + PER
        /\ Beyond(n) = y + j /\ Beyond(n) \in Nat
    BY <1>2, BeyondParts
  <2>2. Path(n) = <<DIND, q, j>>
    BY <1>2 DEF Path, Beyond
  <2>3. Leaf(n) = TablePlace(q) + (j + 1)
    BY <1>2, <2>2 DEF Leaf, Stop
  <2> HIDE DEF q, j
  <2>4. q \in Nat /\ j + 1 \in 0 .. Wide - 1 /\ x \in Nat /\ y \in Nat /\ j \in Nat
    BY <1>1, <2>1
  <2>5. r \div Wide = q /\ r % Wide = j + 1
    <3> DEFINE t == j + 1
    <3>1. r = (q * Wide) + t /\ t \in 0 .. Wide - 1 /\ q \in Nat /\ Wide \in Nat \ {0}
      BY <1>1, <2>4
    <3> HIDE DEF r, t
    <3>2. r \div Wide = q /\ r % Wide = t
      BY <3>1, DividedBy
    <3> QED BY <3>2 DEF t
  <2>6. Leaf(n) = Base + 1 + x + (j + 1)
    BY <1>1, <2>3, <2>4 DEF TablePlace
  <2>7. r = x + (j + 1)
    OBVIOUS
  <2> HIDE DEF x, r
  <2>8. Within(Leaf(n)) = r /\ Leaf(n) > Base
    BY <1>1, <2>4, <2>6, <2>7 DEF Within
  <2>9. n = y + ((j + 1) - 1) + NDIRECT + PER
    <3> HIDE DEF y
    <3> QED BY <1>1, <2>1, <2>4
  <2> QED BY <2>5, <2>8, <2>9
<1>3. ASSUME NEW n \in LogicalRange, ~(n < NDIRECT), n < NDIRECT + PER
      PROVE  Leaf(n) = n + 2 /\ n \in Nat
  <2>1. Path(n) = <<IND, n - NDIRECT>>
    BY <1>3 DEF Path
  <2> QED BY <1>3, <2>1 DEF Leaf, Stop, LogicalRange
<1>4. ASSUME NEW n \in LogicalRange, n < NDIRECT PROVE Leaf(n) = n + 1 /\ n \in Nat
  BY <1>4 DEF Leaf, Stop, LogicalRange
<1>5. CASE Leaf(l) > Base
  <2>1. ASSUME NEW n \in LogicalRange, Leaf(n) > Base PROVE ~(n < NDIRECT) /\ ~(n < NDIRECT + PER)
    BY <1>1, <1>3, <1>4, <2>1
  <2> DEFINE At(p) == (PER * (Within(p) \div Wide)) + ((Within(p) % Wide) - 1) + NDIRECT + PER
  <2>2. \A n \in LogicalRange : Leaf(n) > Base => n = At(Leaf(n))
    BY <1>2, <2>1, Zenon
  <2> HIDE DEF At
  <2> QED BY <1>5, <2>2
<1>6. CASE ~(Leaf(l) > Base)
  <2>1. ASSUME NEW n \in LogicalRange, ~(Leaf(n) > Base)
        PROVE  n \in Nat /\ Leaf(n) = IF n < NDIRECT THEN n + 1 ELSE n + 2
    BY <1>1, <1>2, <1>3, <1>4, <2>1
  <2>2. /\ l \in Nat /\ Leaf(l) = IF l < NDIRECT THEN l + 1 ELSE l + 2
        /\ m \in Nat /\ Leaf(m) = IF m < NDIRECT THEN m + 1 ELSE m + 2
    BY <1>6, <2>1
  <2>3. l \in Nat /\ m \in Nat /\ NDIRECT \in Nat
    BY <1>1, <2>2
  <2>4. (IF l < NDIRECT THEN l + 1 ELSE l + 2) = (IF m < NDIRECT THEN m + 1 ELSE m + 2)
    BY <2>2
  <2>5. CASE l < NDIRECT
    BY <2>3, <2>4, <2>5
  <2>6. CASE ~(l < NDIRECT)
    BY <2>3, <2>4, <2>6
  <2> QED BY <2>5, <2>6
<1> QED BY <1>5, <1>6

-------------------------------------------------------------------------------
\* What is kept of the disk, and the assignments once more: what they change besides the sizes.

\* The places of f that hold a block are the first ones, as many as i_blocks counts.
Packed(d, f) ==
    /\ NumBlocks(d, f) \in 0 .. NumPlaces /\ d.inode[f].i_blocks = 2 * NumBlocks(d, f)
    /\ \A m \in 1 .. NumPlaces : Value(d, f, m) # NoBlock <=> m <= NumBlocks(d, f)

\* No two of these places, of one file or of two, hold the same block.
Apart(d, fs) ==
    \A f, g \in fs : \A m \in 1 .. NumBlocks(d, f), n \in 1 .. NumBlocks(d, g) :
        Value(d, f, m) = Value(d, g, n) => f = g /\ m = n

OwnedBy(d, f) == {Value(d, f, m) : m \in 1 .. NumBlocks(d, f)}

Shape(d, fs) ==
    /\ d.table[NoBlock] = NoEntries
    /\ \A f \in fs : Packed(d, f)
    /\ Apart(d, fs)
    /\ \A b \in d.used : \E f \in fs : b \in OwnedBy(d, f)

\* The bytes of the files are the front of t, each in the block at the place of its logical block.
Contents(d, fs, t) ==
    \A f \in fs :
        /\ d.inode[f].i_size <= Len(t[f]) /\ Len(t[f]) <= MaxSize
        /\ \A i \in 0 .. d.inode[f].i_size - 1 :
            /\ Leaf(i \div BLKSIZE) \in 1 .. NumBlocks(d, f)
            /\ d.bytes[Value(d, f, Leaf(i \div BLKSIZE))][i % BLKSIZE] = t[f][i + 1]

\* What a new block for entry k of the table at (of i_block[] where at is NoBlock) changes.
Extended(d, r, f, at, k, b) ==
    /\ r \in Good /\ b \in Blocks \ d.used /\ r.used = d.used \cup {b}
    /\ \A x \in 0 .. NBLOCKS : x # b => r.bytes[x] = d.bytes[x]
    /\ r.table[b] = NoEntries
    /\ \A x \in 0 .. NBLOCKS : x # b =>
        \A j \in 0 .. PER - 1 :
            r.table[x][j] = IF x = at /\ at # NoBlock /\ j = k THEN b ELSE d.table[x][j]
    /\ \A g \in Files : \A j \in 0 .. DIND :
            r.inode[g].i_block[j] = IF g = f /\ at = NoBlock /\ j = k THEN b ELSE d.inode[g].i_block[j]
    /\ \A g \in Files :
        /\ r.inode[g].i_blocks = IF g = f THEN d.inode[g].i_blocks + 2 ELSE d.inode[g].i_blocks
        /\ r.inode[g].i_size = d.inode[g].i_size

LEMMA BallocParts ==
    ASSUME NEW d \in Good, ~Full(d), NEW r, r = balloc(d), NEW b, b = FreeBlock(d)
    PROVE  /\ r \in Good /\ b \in Blocks \ d.used /\ r.used = d.used \cup {b} /\ r.inode = d.inode
           /\ r.table = [d.table EXCEPT ![b] = NoEntries]
           /\ r.bytes = [d.bytes EXCEPT ![b] = NoBytes]
<1>1. r \in Good /\ r.inode = d.inode
  BY BallocGood
<1>2. b \in Blocks \ d.used
  BY FreeBlockIsFree
<1> DEFINE u == Use(d, b)
           v == [d.table EXCEPT ![b] = NoEntries]
           w == [d.bytes EXCEPT ![b] = NoBytes]
           x == [u EXCEPT !.table = [u.table EXCEPT ![b] = NoEntries]]
<1>3. d \in Disk
  BY DEF Good
<1>4. /\ u.used = d.used \cup {b} /\ u.table = d.table /\ u.bytes = d.bytes /\ u \in Disk
  <2>1. u \in Good
    BY <1>2, UseGood
  <2>2. u.used = d.used \cup {b} /\ u.table = d.table /\ u.bytes = d.bytes
    BY <1>3 DEF Use, Disk
  <2> QED BY <2>1, <2>2 DEF Good
<1>5. r = [x EXCEPT !.bytes = [x.bytes EXCEPT ![b] = NoBytes]]
  BY Zenon DEF balloc, SetBytes, SetTable
<1> HIDE DEF u
<1>6. x.used = u.used /\ x.table = [u.table EXCEPT ![b] = NoEntries] /\ x.bytes = u.bytes /\ x \in Disk
  <2> DEFINE e == [u.table EXCEPT ![b] = NoEntries]
  <2>1. NoEntries \in Table
    BY DEF NoEntries, Table
  <2>2. e \in [0 .. NBLOCKS -> Table]
    BY <1>4, <2>1, DiskTypes
  <2> HIDE DEF e
  <2>3. x = [u EXCEPT !.table = e]
    BY DEF e
  <2> HIDE DEF x
  <2>4. x.used = u.used /\ x.table = e /\ x.bytes = u.bytes /\ x \in Disk
    BY <1>4, <2>2, <2>3 DEF Disk
  <2> QED BY <2>4 DEF e
<1> HIDE DEF x
<1>7. r.used = x.used /\ r.table = x.table /\ r.bytes = [x.bytes EXCEPT ![b] = NoBytes]
  <2> DEFINE e == [x.bytes EXCEPT ![b] = NoBytes]
  <2> HIDE DEF e
  <2>1. r = [x EXCEPT !.bytes = e]
    BY <1>5 DEF e
  <2>2. r.used = x.used /\ r.table = x.table /\ r.bytes = e
    BY <1>6, <2>1 DEF Disk
  <2> QED BY <2>2 DEF e
<1> QED BY <1>1, <1>2, <1>4, <1>6, <1>7

\* An entry, pointwise.
LEMMA SetEntryParts ==
    ASSUME NEW d \in Good, NEW f \in Files, NEW at \in Places,
           NEW k \in IF at = NoBlock THEN 0 .. DIND ELSE 0 .. PER - 1, NEW b \in Blocks,
           NEW r, r = SetEntry(d, f, at, k, b)
    PROVE  /\ r \in Good /\ r.used = d.used /\ r.bytes = d.bytes
           /\ \A x \in 0 .. NBLOCKS : \A j \in 0 .. PER - 1 :
                r.table[x][j] = IF x = at /\ at # NoBlock /\ j = k THEN b ELSE d.table[x][j]
           /\ \A x \in 0 .. NBLOCKS : x # at => r.table[x] = d.table[x]
           /\ \A g \in Files : \A j \in 0 .. DIND :
                r.inode[g].i_block[j] = IF g = f /\ at = NoBlock /\ j = k THEN b ELSE d.inode[g].i_block[j]
           /\ \A g \in Files : /\ r.inode[g].i_blocks = d.inode[g].i_blocks
                               /\ r.inode[g].i_size = d.inode[g].i_size
<1>1. r \in Good /\ d \in Disk /\ d.inode \in [Files -> Inode] /\ d.table \in [0 .. NBLOCKS -> Table]
      /\ at \in 0 .. NBLOCKS
  BY SetEntryGood, Constants, DiskTypes DEF Good
<1>2. CASE at = NoBlock
  <2> DEFINE entries == [d.inode[f].i_block EXCEPT ![k] = b]
             node == [d.inode[f] EXCEPT !.i_block = entries]
             all == [d.inode EXCEPT ![f] = node]
  <2>1. r = [d EXCEPT !.inode = all]
    BY <1>2 DEF SetEntry, SetBlock, SetInode
  <2>2. d.inode[f].i_block \in [0 .. DIND -> Places] /\ k \in 0 .. DIND
    BY <1>1, <1>2, InodeTypes
  <2>3. \A j \in 0 .. DIND : entries[j] = IF j = k THEN b ELSE d.inode[f].i_block[j]
    BY <2>2
  <2> HIDE DEF entries
  <2>4. /\ node.i_block = entries /\ node.i_blocks = d.inode[f].i_blocks
        /\ node.i_size = d.inode[f].i_size
    BY <1>1 DEF Inode
  <2> HIDE DEF node
  <2>5. all[f] = node /\ \A g \in Files : g # f => all[g] = d.inode[g]
    BY <1>1
  <2> HIDE DEF all
  <2>6. r.used = d.used /\ r.bytes = d.bytes /\ r.table = d.table /\ r.inode = all
    BY <1>1, <2>1 DEF Disk
  <2>7. \A g \in Files : \A j \in 0 .. DIND :
            r.inode[g].i_block[j] = IF g = f /\ j = k THEN b ELSE d.inode[g].i_block[j]
    BY <2>3, <2>4, <2>5, <2>6
  <2>8. \A g \in Files : /\ r.inode[g].i_blocks = d.inode[g].i_blocks
                         /\ r.inode[g].i_size = d.inode[g].i_size
    BY <2>4, <2>5, <2>6
  <2> QED BY <1>1, <1>2, <2>6, <2>7, <2>8
<1>3. CASE at # NoBlock
  <2> DEFINE entries == [d.table[at] EXCEPT ![k] = b]
             all == [d.table EXCEPT ![at] = entries]
  <2>1. r = [d EXCEPT !.table = all]
    BY <1>3 DEF SetEntry, SetTable
  <2>2. d.table[at] \in [0 .. PER - 1 -> Places] /\ k \in 0 .. PER - 1
    BY <1>1, <1>3 DEF Table, Places
  <2>3. \A j \in 0 .. PER - 1 : entries[j] = IF j = k THEN b ELSE d.table[at][j]
    BY <2>2
  <2> HIDE DEF entries
  <2>4. all[at] = entries /\ \A x \in 0 .. NBLOCKS : x # at => all[x] = d.table[x]
    BY <1>1
  <2> HIDE DEF all
  <2>5. r.used = d.used /\ r.bytes = d.bytes /\ r.table = all /\ r.inode = d.inode
    BY <1>1, <2>1 DEF Disk
  <2>6. \A x \in 0 .. NBLOCKS : \A j \in 0 .. PER - 1 :
                r.table[x][j] = IF x = at /\ j = k THEN b ELSE d.table[x][j]
    BY <2>3, <2>4, <2>5
  <2>7. \A x \in 0 .. NBLOCKS : x # at => r.table[x] = d.table[x]
    BY <2>4, <2>5
  <2> QED BY <1>1, <1>3, <2>5, <2>6, <2>7
<1> QED BY <1>2, <1>3

\* r is d with another number of blocks of f.
Counted(d, r, f, n) ==
    /\ r \in Good /\ r.used = d.used /\ r.bytes = d.bytes /\ r.table = d.table
    /\ \A g \in Files : /\ r.inode[g].i_block = d.inode[g].i_block
                        /\ g # f => r.inode[g].i_blocks = d.inode[g].i_blocks
                        /\ r.inode[g].i_size = d.inode[g].i_size
    /\ r.inode[f].i_blocks = n

LEMMA SetCountParts ==
    ASSUME NEW d \in Good, NEW f \in Files, NEW n \in Nat, NEW r, r = SetCount(d, f, n)
    PROVE  Counted(d, r, f, n)
<1> DEFINE node == [d.inode[f] EXCEPT !.i_blocks = n]
<1>1. r \in Good /\ d \in Disk /\ d.inode \in [Files -> Inode]
  BY SetCountGood, DiskTypes DEF Good
<1>2. /\ node.i_block = d.inode[f].i_block /\ node.i_blocks = n /\ node.i_size = d.inode[f].i_size
      /\ node \in Inode
  BY <1>1 DEF Inode
<1>3. r = SetInode(d, f, node)
  BY DEF SetCount
<1> HIDE DEF node
<1>4. SameBits(d, r) /\ r.table = d.table /\ r.bytes = d.bytes /\ r.inode = [d.inode EXCEPT ![f] = node]
  BY <1>1, <1>2, <1>3, SetInodeParts
<1>5. r.inode[f] = node /\ \A g \in Files : g # f => r.inode[g] = d.inode[g]
  BY <1>1, <1>4
<1> QED BY <1>1, <1>2, <1>4, <1>5 DEF SameBits, Counted

LEMMA SetSizeParts ==
    ASSUME NEW d \in Good, NEW f \in Files, NEW n \in Nat, NEW r, r = SetSize(d, f, n)
    PROVE  /\ r \in Good /\ r.used = d.used /\ r.bytes = d.bytes /\ r.table = d.table
           /\ \A g \in Files : /\ r.inode[g].i_block = d.inode[g].i_block
                               /\ r.inode[g].i_blocks = d.inode[g].i_blocks
                               /\ g # f => r.inode[g].i_size = d.inode[g].i_size
           /\ r.inode[f].i_size = n
<1> DEFINE node == [d.inode[f] EXCEPT !.i_size = n]
<1>1. r \in Good /\ d \in Disk /\ d.inode \in [Files -> Inode]
  BY SetSizeGood, DiskTypes DEF Good
<1>2. /\ node.i_block = d.inode[f].i_block /\ node.i_blocks = d.inode[f].i_blocks /\ node.i_size = n
      /\ node \in Inode
  BY <1>1 DEF Inode
<1>3. r = SetInode(d, f, node)
  BY DEF SetSize
<1> HIDE DEF node
<1>4. SameBits(d, r) /\ r.table = d.table /\ r.bytes = d.bytes /\ r.inode = [d.inode EXCEPT ![f] = node]
  BY <1>1, <1>2, <1>3, SetInodeParts
<1>5. r.inode[f] = node /\ \A g \in Files : g # f => r.inode[g] = d.inode[g]
  BY <1>1, <1>4
<1> QED BY <1>1, <1>2, <1>4, <1>5 DEF SameBits

LEMMA ExtendParts ==
    ASSUME NEW d \in Good, ~Full(d), NEW f \in Files, NEW at \in Places,
           NEW k \in IF at = NoBlock THEN 0 .. DIND ELSE 0 .. PER - 1,
           NEW b, b = FreeBlock(d), b # at,
           NEW r, r = Extend(d, f, at, k)
    PROVE  Extended(d, r, f, at, k, b)
<1> DEFINE p == balloc(d)
           q == SetEntry(p, f, at, k, b)
           n == q.inode[f].i_blocks + 2
<1>1. r = SetCount(q, f, n)
  BY DEF Extend
<1>2. /\ p \in Good /\ b \in Blocks \ d.used /\ p.used = d.used \cup {b} /\ p.inode = d.inode
      /\ p.table = [d.table EXCEPT ![b] = NoEntries]
      /\ p.bytes = [d.bytes EXCEPT ![b] = NoBytes]
  BY BallocParts
<1>3. b \in 0 .. NBLOCKS /\ d \in Disk
  BY <1>2 DEF Blocks, Good
<1>4. /\ p.table[b] = NoEntries
      /\ \A x \in 0 .. NBLOCKS : x # b => p.table[x] = d.table[x] /\ p.bytes[x] = d.bytes[x]
  BY <1>2, <1>3, DiskTypes
<1>a. p \in Good /\ b \in Blocks
  BY <1>2
<1>b. q = SetEntry(p, f, at, k, b)
  OBVIOUS
<1> HIDE DEF p, q
<1>5. /\ q \in Good /\ q.used = p.used /\ q.bytes = p.bytes
      /\ \A x \in 0 .. NBLOCKS : \A j \in 0 .. PER - 1 :
           q.table[x][j] = IF x = at /\ at # NoBlock /\ j = k THEN b ELSE p.table[x][j]
      /\ \A x \in 0 .. NBLOCKS : x # at => q.table[x] = p.table[x]
      /\ \A g \in Files : \A j \in 0 .. DIND :
           q.inode[g].i_block[j] = IF g = f /\ at = NoBlock /\ j = k THEN b ELSE p.inode[g].i_block[j]
      /\ \A g \in Files : /\ q.inode[g].i_blocks = p.inode[g].i_blocks
                          /\ q.inode[g].i_size = p.inode[g].i_size
  BY <1>a, <1>b, SetEntryParts
<1>c. q \in Good
  BY <1>5
<1>6. n \in Nat
  BY <1>5, InodeTypes DEF Good
<1> HIDE DEF n
<1>7. /\ r \in Good /\ r.used = q.used /\ r.bytes = q.bytes /\ r.table = q.table
      /\ \A g \in Files : /\ r.inode[g].i_block = q.inode[g].i_block
                          /\ g # f => r.inode[g].i_blocks = q.inode[g].i_blocks
                          /\ r.inode[g].i_size = q.inode[g].i_size
      /\ r.inode[f].i_blocks = n
  <2>1. Counted(q, r, f, n)
    BY <1>1, <1>c, <1>6, SetCountParts
  <2> QED BY <2>1 DEF Counted
<1>8. r.table[b] = NoEntries
  BY <1>3, <1>4, <1>5, <1>7
<1>9. \A x \in 0 .. NBLOCKS : x # b =>
        \A j \in 0 .. PER - 1 :
            r.table[x][j] = IF x = at /\ at # NoBlock /\ j = k THEN b ELSE d.table[x][j]
  BY <1>4, <1>5, <1>7
<1>10. \A g \in Files : \A j \in 0 .. DIND :
            r.inode[g].i_block[j] = IF g = f /\ at = NoBlock /\ j = k THEN b ELSE d.inode[g].i_block[j]
  BY <1>2, <1>5, <1>7
<1>11. \A g \in Files :
        /\ r.inode[g].i_blocks = IF g = f THEN d.inode[g].i_blocks + 2 ELSE d.inode[g].i_blocks
        /\ r.inode[g].i_size = d.inode[g].i_size
  BY <1>2, <1>5, <1>7 DEF n
<1>12. \A x \in 0 .. NBLOCKS : x # b => r.bytes[x] = d.bytes[x]
  BY <1>4, <1>5, <1>7
<1>13. r.used = d.used \cup {b}
  BY <1>2, <1>5, <1>7
<1> QED BY <1>2, <1>7, <1>8, <1>9, <1>10, <1>11, <1>12, <1>13 DEF Extended

-------------------------------------------------------------------------------
\* A new block for the entry of the next place, and for no other.

LEMMA ValueIs ==
    ASSUME NEW d \in Disk, NEW f \in Files, NEW m \in 1 .. NumPlaces
    PROVE  /\ Value(d, f, m) \in Places /\ Value(d, f, m) \in 0 .. NBLOCKS
           /\ Parent(m) = 0 => Value(d, f, m) = d.inode[f].i_block[Index(m)]
           /\ Parent(m) # 0 => Value(d, f, m) = d.table[Value(d, f, Parent(m))][Index(m)]
BY WalkIs, Constants DEF Found

LEMMA CountedIs ==
    ASSUME NEW d \in Disk, NEW f \in Files, Packed(d, f)
    PROVE  /\ NumBlocks(d, f) \in 0 .. NumPlaces /\ NumBlocks(d, f) \in Nat /\ NumPlaces \in Nat
           /\ d.inode[f].i_blocks = 2 * NumBlocks(d, f)
           /\ \A m \in 1 .. NumBlocks(d, f) : /\ m \in 1 .. NumPlaces /\ Value(d, f, m) \in Blocks
                                              /\ Value(d, f, m) \in OwnedBy(d, f)
           /\ \A m \in 1 .. NumPlaces : m > NumBlocks(d, f) => Value(d, f, m) = NoBlock
           /\ OwnedBy(d, f) \subseteq Blocks
<1>1. /\ NumBlocks(d, f) \in 0 .. NumPlaces /\ d.inode[f].i_blocks = 2 * NumBlocks(d, f)
      /\ \A m \in 1 .. NumPlaces : Value(d, f, m) # NoBlock <=> m <= NumBlocks(d, f)
  BY DEF Packed
<1>2. NumPlaces \in Nat
  BY PlaceNumbers
<1>3. \A m \in 1 .. NumPlaces : Value(d, f, m) \in Places
  BY ValueIs
<1> DEFINE N == NumBlocks(d, f)
<1>4. N \in Nat /\ \A m \in 1 .. N : m \in 1 .. NumPlaces /\ Value(d, f, m) \in Blocks
  BY <1>1, <1>2, <1>3 DEF Places
<1> QED BY <1>1, <1>2, <1>4 DEF OwnedBy

\* The table that place m is an entry of, NoBlock for i_block[].
TableOf(d, f, m) == IF Parent(m) = 0 THEN NoBlock ELSE Value(d, f, Parent(m))

\* On r the places of g are those on d, but for place m of f, which holds b.
OneMore(d, r, g, f, m, b) ==
    \A x \in 1 .. NumPlaces : Value(r, g, x) = IF g = f /\ x = m THEN b ELSE Value(d, g, x)

\* A new block for the next place of f changes no other place of any file.
LEMMA ExtendValues ==
    ASSUME NEW fs \in SUBSET Files, NEW d \in Disk, Shape(d, fs), NEW f \in fs,
           NEW m \in 1 .. NumPlaces, m = NumBlocks(d, f) + 1,
           NEW at, at = TableOf(d, f, m),
           NEW b, NEW r, Extended(d, r, f, at, Index(m), b),
           \A g \in fs : b \notin OwnedBy(d, g), NEW g \in fs
    PROVE  OneMore(d, r, g, f, m, b)
<1> DEFINE P(x) == Value(r, g, x) = IF g = f /\ x = m THEN b ELSE Value(d, g, x)
           T == {n \in 0 .. NumPlaces : \A x \in 1 .. n : P(x)}
           p == Parent(m)
           k == Index(m)
<1>1. r \in Disk /\ f \in Files /\ g \in Files /\ b \in Blocks /\ NumPlaces \in Nat /\ b # NoBlock
  BY PlaceNumbers, Constants DEF Extended, Good
<1>2. /\ r.table[b] = NoEntries
      /\ \A x \in 0 .. NBLOCKS : x # b =>
            \A j \in 0 .. PER - 1 :
                r.table[x][j] = IF x = at /\ at # NoBlock /\ j = k THEN b ELSE d.table[x][j]
      /\ \A j \in 0 .. DIND :
            r.inode[g].i_block[j] = IF g = f /\ at = NoBlock /\ j = k THEN b ELSE d.inode[g].i_block[j]
  BY <1>1 DEF Extended
<1>3. Packed(d, f) /\ Packed(d, g) /\ d.table[NoBlock] = NoEntries
  BY DEF Shape
<1>4. p \in 0 .. m - 1 /\ m \in Nat
  BY ParentBelow
<1>5. p # 0 => p \in 1 .. NumBlocks(d, f) /\ at \in Blocks /\ at = Value(d, f, p)
  <2> SUFFICES ASSUME p # 0 PROVE p \in 1 .. NumBlocks(d, f) /\ at \in Blocks /\ at = Value(d, f, p)
    OBVIOUS
  <2>1. NumBlocks(d, f) \in Nat /\ p \in 1 .. NumBlocks(d, f)
    BY <1>1, <1>3, <1>4, CountedIs
  <2>2. at = Value(d, f, p)
    BY DEF TableOf
  <2> HIDE DEF p
  <2> QED BY <1>1, <1>3, <2>1, <2>2, CountedIs
<1>6. p = 0 => at = NoBlock
  BY DEF TableOf
<1>7. at = NoBlock <=> p = 0
  BY <1>5, <1>6, Constants
<1> HIDE DEF P, T, p, k
<1>8. ASSUME NEW x \in 1 .. NumPlaces, Parent(x) # 0 => P(Parent(x)) PROVE P(x)
  <2> DEFINE y == Parent(x)
             j == Index(x)
  <2>1. /\ y \in 0 .. x - 1 /\ x \in Nat /\ j \in IF y = 0 THEN 0 .. DIND ELSE 0 .. PER - 1
    BY ParentBelow
  <2>2. x = m => y = p /\ j = k
    BY DEF p, k
  <2>3. y = p /\ j = k => x = m
    BY EntriesDiffer DEF p, k
  <2>4. CASE y = 0
    <3>1. Value(r, g, x) = r.inode[g].i_block[j] /\ Value(d, g, x) = d.inode[g].i_block[j]
      BY <1>1, <2>4, ValueIs
    <3>2. j \in 0 .. DIND
      BY <2>1, <2>4
    <3> HIDE DEF y, j
    <3>3. Value(r, g, x) = IF g = f /\ at = NoBlock /\ j = k THEN b ELSE Value(d, g, x)
      BY <1>2, <3>1, <3>2
    <3> QED BY <1>7, <2>2, <2>3, <2>4, <3>3 DEF P
  <2>5. CASE y # 0
    <3> DEFINE v == Value(r, g, y)
               u == Value(d, g, y)
    <3>1. /\ Value(r, g, x) = r.table[v][j] /\ Value(d, g, x) = d.table[u][j]
      BY <1>1, <2>5, ValueIs
    <3>2. y \in 1 .. NumPlaces /\ j \in 0 .. PER - 1
      BY <1>1, <2>1, <2>5
    <3>3. u \in 0 .. NBLOCKS
      BY <1>1, <3>2, ValueIs
    <3>4. P(y)
      BY <1>8, <2>5
    <3>5. CASE g = f /\ y = m
      <4>1. v = b
        BY <3>4, <3>5 DEF P
      <4> HIDE DEF v, j
      <4>2. Value(r, g, x) = NoBlock
        BY <1>2, <3>1, <3>2, <4>1 DEF NoEntries
      <4>3. x > NumBlocks(d, g) /\ x # m
        <5>1. NumBlocks(d, f) \in Nat
          BY <1>1, <1>3, CountedIs
        <5> QED BY <1>4, <2>1, <3>5, <5>1
      <4>4. Value(d, g, x) = NoBlock
        BY <1>1, <1>3, <4>3, CountedIs
      <4> QED BY <4>2, <4>3, <4>4 DEF P
    <3>6. CASE ~(g = f /\ y = m)
      <4>1. v = u
        BY <3>4, <3>6 DEF P
      <4>2. u # b
        <5>1. CASE y <= NumBlocks(d, g)
          <6>1. y \in 1 .. NumBlocks(d, g)
            BY <1>1, <1>3, <3>2, <5>1, CountedIs
          <6> QED BY <1>1, <1>3, <6>1, CountedIs
        <5>2. CASE ~(y <= NumBlocks(d, g))
          <6>1. NumBlocks(d, g) \in Nat /\ y > NumBlocks(d, g)
            BY <1>1, <1>3, <3>2, <5>2, CountedIs
          <6>2. u = NoBlock
            BY <1>1, <1>3, <3>2, <6>1, CountedIs
          <6> QED BY <1>1, <6>2
        <5> QED BY <5>1, <5>2
      <4>3. u = at /\ at # NoBlock => g = f /\ y = p
        <5> SUFFICES ASSUME u = at, at # NoBlock PROVE g = f /\ y = p
          OBVIOUS
        <5>1. p \in 1 .. NumBlocks(d, f) /\ Value(d, g, y) = Value(d, f, p)
          BY <1>5, <1>7
        <5>2. y \in 1 .. NumBlocks(d, g)
          <6>1. NumBlocks(d, g) \in Nat /\ (y <= NumBlocks(d, g) \/ u = NoBlock)
            BY <1>1, <1>3, <3>2, CountedIs
          <6> QED BY <3>2, <6>1
        <5> HIDE DEF y
        <5> QED BY <5>1, <5>2 DEF Shape, Apart
      <4>4. g = f /\ y = p => u = at
        <5>1. p # 0 => at = Value(d, f, p)
          BY <1>5
        <5> HIDE DEF y
        <5> QED BY <2>5, <5>1
      <4> HIDE DEF v, u, y, j
      <4>5. Value(r, g, x) = IF u = at /\ at # NoBlock /\ j = k THEN b ELSE Value(d, g, x)
        BY <1>2, <3>1, <3>2, <3>3, <4>1, <4>2
      <4> QED BY <1>7, <2>2, <2>3, <2>5, <4>3, <4>4, <4>5 DEF P
    <3> QED BY <3>5, <3>6
  <2> QED BY <2>4, <2>5
<1>9. 0 \in T
  BY <1>1 DEF T
<1>10. ASSUME NEW n \in 0 .. NumPlaces - 1, n \in T PROVE n + 1 \in T
  <2>1. n \in Nat /\ n + 1 \in 0 .. NumPlaces /\ n + 1 \in 1 .. NumPlaces /\ \A x \in 1 .. n : P(x)
    BY <1>1, <1>10 DEF T
  <2>2. Parent(n + 1) \in 0 .. (n + 1) - 1
    BY <2>1, ParentBelow
  <2>3. Parent(n + 1) # 0 => P(Parent(n + 1))
    BY <2>1, <2>2
  <2>4. P(n + 1)
    BY <1>8, <2>1, <2>3
  <2>5. \A x \in 1 .. n + 1 : x = n + 1 \/ x \in 1 .. n
    BY <2>1
  <2> QED BY <2>1, <2>4, <2>5 DEF T
<1>11. 0 .. NumPlaces \subseteq T
  BY <1>1, <1>9, <1>10, SetInduction
<1>12. NumPlaces \in T
  BY <1>1, <1>11
<1> QED BY <1>12 DEF T, P, OneMore

-------------------------------------------------------------------------------
\* What a command has done since it began to write on the disk o.

\* The command that began on the disk o has been given no block that a file has.
Clean(o, d, fs) == \A f \in fs : OwnedBy(o, f) \cap (d.used \ o.used) = {}

\* What the files have that they did not have on o was given to them since.
Grown(o, d, fs) == \A f \in fs : OwnedBy(d, f) \subseteq OwnedBy(o, f) \cup (d.used \ o.used)

\* While a command writes, from the disk o to d, the files stay apart and hold the front of t.
Kept(o, d, fs, t) ==
    /\ d \in Good /\ o.used \subseteq d.used
    /\ Shape(d, fs) /\ Contents(d, fs, t) /\ Grown(o, d, fs)

LEMMA CleanBefore ==
    ASSUME NEW o, NEW d, NEW r, NEW fs, d.used \subseteq r.used, Clean(o, r, fs)
    PROVE  Clean(o, d, fs)
BY DEF Clean

\* A free block is no file's.
LEMMA FreeIsNew ==
    ASSUME NEW o, NEW d, NEW r, NEW fs, o.used \subseteq d.used, Grown(o, d, fs), Clean(o, r, fs),
           NEW b, b \notin d.used, b \in r.used, NEW g \in fs
    PROVE  b \notin OwnedBy(d, g)
BY DEF Clean, Grown

LEMMA ExtendCounts ==
    ASSUME NEW d \in Disk, NEW f \in Files, Packed(d, f), NEW at, NEW k, NEW b, NEW r, NEW g \in Files,
           Packed(d, g), Extended(d, r, f, at, k, b)
    PROVE  /\ NumBlocks(r, g) = IF g = f THEN NumBlocks(d, g) + 1 ELSE NumBlocks(d, g)
           /\ r.inode[g].i_blocks = 2 * NumBlocks(r, g)
<1> DEFINE n == NumBlocks(d, g)
           c == d.inode[g].i_blocks
<1>1. n \in Nat /\ c = 2 * n
  BY CountedIs
<1>2. r.inode[g].i_blocks = IF g = f THEN c + 2 ELSE c
  BY DEF Extended
<1>3. NumBlocks(r, g) = r.inode[g].i_blocks \div 2
  BY DEF NumBlocks
<1> HIDE DEF n, c
<1>4. CASE g = f
  <2>1. r.inode[g].i_blocks = (2 * n) + 2
    BY <1>1, <1>2, <1>4
  <2>2. ((2 * n) + 2) \div 2 = n + 1 /\ (2 * n) + 2 = 2 * (n + 1)
    BY <1>1
  <2> QED BY <1>3, <1>4, <2>1, <2>2 DEF n
<1>5. CASE g # f
  <2>1. r.inode[g].i_blocks = 2 * n
    BY <1>1, <1>2, <1>5
  <2>2. (2 * n) \div 2 = n
    BY <1>1
  <2> QED BY <1>3, <1>5, <2>1, <2>2 DEF n
<1> QED BY <1>4, <1>5

LEMMA ExtendKeeps ==
    ASSUME NEW fs \in SUBSET Files, NEW o, NEW t, NEW d, Kept(o, d, fs, t), NEW f \in fs,
           NEW m \in 1 .. NumPlaces, m = NumBlocks(d, f) + 1,
           NEW at, at = TableOf(d, f, m),
           NEW b, NEW r, Extended(d, r, f, at, Index(m), b), Clean(o, r, fs)
    PROVE  /\ Kept(o, r, fs, t) /\ NumBlocks(r, f) = m /\ Value(r, f, m) = b
           /\ \A g \in fs : NumBlocks(d, g) <= NumBlocks(r, g)
<1>1. /\ d \in Good /\ d \in Disk /\ o.used \subseteq d.used /\ Shape(d, fs) /\ Contents(d, fs, t)
      /\ Grown(o, d, fs)
  BY DEF Kept, Good
<1>2. /\ r \in Good /\ r \in Disk /\ b \in Blocks /\ b \notin d.used /\ r.used = d.used \cup {b}
      /\ b # NoBlock /\ NumPlaces \in Nat
  BY Constants, PlaceNumbers DEF Extended, Good
<1>3. \A g \in fs : b \notin OwnedBy(d, g)
  BY <1>1, <1>2, FreeIsNew
<1>4. \A g \in fs : Packed(d, g) /\ g \in Files
  BY <1>1 DEF Shape
<1>5. \A g \in fs : \A x \in 1 .. NumPlaces :
            Value(r, g, x) = IF g = f /\ x = m THEN b ELSE Value(d, g, x)
  <2>1. d \in Disk /\ Shape(d, fs)
    BY <1>1
  <2>2. \A g \in fs : OneMore(d, r, g, f, m, b)
    BY <1>3, <2>1, ExtendValues
  <2> QED BY <2>2 DEF OneMore
<1>6. \A g \in fs : /\ NumBlocks(r, g) = IF g = f THEN m ELSE NumBlocks(d, g)
                    /\ r.inode[g].i_blocks = 2 * NumBlocks(r, g)
  BY <1>1, <1>4, ExtendCounts
<1>7. \A g \in fs : /\ NumBlocks(d, g) \in Nat
                    /\ NumBlocks(r, g) \in 0 .. NumPlaces
                    /\ NumBlocks(d, g) <= NumBlocks(r, g)
  <2> SUFFICES ASSUME NEW g \in fs
               PROVE  /\ NumBlocks(d, g) \in Nat
                      /\ NumBlocks(r, g) \in 0 .. NumPlaces
                      /\ NumBlocks(d, g) <= NumBlocks(r, g)
    OBVIOUS
  <2>1. NumBlocks(d, g) \in 0 .. NumPlaces
    BY <1>1, <1>4, CountedIs
  <2> QED BY <1>2, <1>6, <2>1
<1>8. \A g \in fs : Packed(r, g)
  <2> SUFFICES ASSUME NEW g \in fs PROVE Packed(r, g)
    OBVIOUS
  <2>1. \A x \in 1 .. NumPlaces : Value(d, g, x) # NoBlock <=> x <= NumBlocks(d, g)
    BY <1>4 DEF Packed
  <2>2. ASSUME NEW x \in 1 .. NumPlaces
        PROVE  Value(r, g, x) # NoBlock <=> x <= NumBlocks(r, g)
    <3>1. Value(r, g, x) = IF g = f /\ x = m THEN b ELSE Value(d, g, x)
      BY <1>5
    <3>2. CASE g = f
      BY <1>2, <1>6, <1>7, <2>1, <3>1, <3>2
    <3>3. CASE g # f
      BY <1>6, <2>1, <3>1, <3>3
    <3> QED BY <3>2, <3>3
  <2> QED BY <1>6, <1>7, <2>2 DEF Packed
\* The places of the files on r.
<1>9. ASSUME NEW g \in fs, NEW x \in 1 .. NumBlocks(r, g)
      PROVE  \/ g = f /\ x = m /\ Value(r, g, x) = b
             \/ x \in 1 .. NumBlocks(d, g) /\ Value(r, g, x) = Value(d, g, x) /\ Value(r, g, x) # b
  <2>1. x \in 1 .. NumPlaces
    BY <1>2, <1>7
  <2>2. CASE g = f /\ x = m
    BY <1>5, <2>1, <2>2
  <2>3. CASE ~(g = f /\ x = m)
    <3>1. Value(r, g, x) = Value(d, g, x)
      BY <1>5, <2>1, <2>3
    <3>2. x \in 1 .. NumBlocks(d, g)
      BY <1>6, <1>7, <2>1, <2>3
    <3>3. Value(d, g, x) \in OwnedBy(d, g)
      BY <3>2 DEF OwnedBy
    <3> QED BY <1>3, <3>1, <3>2, <3>3
  <2> QED BY <2>2, <2>3
<1>10. Apart(r, fs)
  <2> SUFFICES ASSUME NEW g \in fs, NEW h \in fs, NEW x \in 1 .. NumBlocks(r, g), NEW y \in 1 .. NumBlocks(r, h),
                      Value(r, g, x) = Value(r, h, y)
               PROVE  g = h /\ x = y
    BY DEF Apart
  <2>1. CASE g = f /\ x = m /\ Value(r, g, x) = b
    BY <1>9, <2>1
  <2>2. CASE x \in 1 .. NumBlocks(d, g) /\ Value(r, g, x) = Value(d, g, x) /\ Value(r, g, x) # b
    <3>1. y \in 1 .. NumBlocks(d, h) /\ Value(d, g, x) = Value(d, h, y)
      BY <1>9, <2>2
    <3> QED BY <1>1, <2>2, <3>1 DEF Shape, Apart
  <2> QED BY <1>9, <2>1, <2>2
<1>11. m \in 1 .. NumBlocks(r, f) /\ b \in OwnedBy(r, f) /\ Value(r, f, m) = b
  <2>1. m \in 1 .. NumBlocks(r, f)
    BY <1>6
  <2> QED BY <1>5, <2>1 DEF OwnedBy
<1>12. \A g \in fs : OwnedBy(d, g) \subseteq OwnedBy(r, g)
  <2> SUFFICES ASSUME NEW g \in fs, NEW x \in 1 .. NumBlocks(d, g) PROVE Value(d, g, x) \in OwnedBy(r, g)
    BY DEF OwnedBy
  <2>1. x \in 1 .. NumPlaces /\ x \in 1 .. NumBlocks(r, g)
    BY <1>2, <1>7
  <2>2. ~(g = f /\ x = m)
    BY <1>7
  <2>3. Value(r, g, x) = Value(d, g, x)
    BY <1>5, <2>1, <2>2
  <2> QED BY <2>1, <2>3 DEF OwnedBy
<1>13. \A x \in r.used : \E g \in fs : x \in OwnedBy(r, g)
  BY <1>1, <1>2, <1>11, <1>12 DEF Shape
<1>14. r.table[NoBlock] = NoEntries
  <2>1. \A j \in 0 .. PER - 1 : r.table[NoBlock][j] = d.table[NoBlock][j]
    <3>1. NoBlock \in 0 .. NBLOCKS
      BY Constants DEF NoBlock
    <3> QED BY <1>2, <3>1 DEF Extended
  <2>2. d.table[NoBlock] = NoEntries
    BY <1>1 DEF Shape
  <2>3. r.table[NoBlock] \in Table
    BY <1>2, Constants, DiskTypes DEF NoBlock
  <2>4. \A j \in 0 .. PER - 1 : r.table[NoBlock][j] = NoBlock
    BY <2>1, <2>2 DEF NoEntries
  <2> QED BY <2>3, <2>4 DEF Table, NoEntries
<1>15. Shape(r, fs)
  BY <1>8, <1>10, <1>13, <1>14 DEF Shape
<1>16. Grown(o, r, fs)
  <2> SUFFICES ASSUME NEW g \in fs, NEW x \in 1 .. NumBlocks(r, g)
               PROVE  Value(r, g, x) \in OwnedBy(o, g) \cup (r.used \ o.used)
    BY DEF Grown, OwnedBy
  <2>1. CASE Value(r, g, x) = b
    BY <1>1, <1>2, <2>1
  <2>2. CASE x \in 1 .. NumBlocks(d, g) /\ Value(r, g, x) = Value(d, g, x)
    <3>1. Value(d, g, x) \in OwnedBy(d, g)
      BY <2>2 DEF OwnedBy
    <3> QED BY <1>1, <1>2, <2>2, <3>1 DEF Grown
  <2> QED BY <1>9, <2>1, <2>2
<1>17. Contents(r, fs, t)
  <2> SUFFICES ASSUME NEW g \in fs
               PROVE  /\ r.inode[g].i_size <= Len(t[g]) /\ Len(t[g]) <= MaxSize
                      /\ \A i \in 0 .. r.inode[g].i_size - 1 :
                            /\ Leaf(i \div BLKSIZE) \in 1 .. NumBlocks(r, g)
                            /\ r.bytes[Value(r, g, Leaf(i \div BLKSIZE))][i % BLKSIZE] = t[g][i + 1]
    BY DEF Contents
  <2>1. r.inode[g].i_size = d.inode[g].i_size
    BY <1>4 DEF Extended
  <2>2. /\ d.inode[g].i_size <= Len(t[g]) /\ Len(t[g]) <= MaxSize
        /\ \A i \in 0 .. d.inode[g].i_size - 1 :
            /\ Leaf(i \div BLKSIZE) \in 1 .. NumBlocks(d, g)
            /\ d.bytes[Value(d, g, Leaf(i \div BLKSIZE))][i % BLKSIZE] = t[g][i + 1]
    BY <1>1 DEF Contents
  <2>3. ASSUME NEW x \in 1 .. NumBlocks(d, g)
        PROVE  x \in 1 .. NumBlocks(r, g) /\ r.bytes[Value(r, g, x)] = d.bytes[Value(d, g, x)]
    <3>1. x \in 1 .. NumPlaces /\ x \in 1 .. NumBlocks(r, g) /\ ~(g = f /\ x = m)
      BY <1>2, <1>7
    <3>2. Value(r, g, x) = Value(d, g, x)
      BY <1>5, <3>1
    <3>3. Value(d, g, x) # b /\ Value(d, g, x) \in 0 .. NBLOCKS
      <4>1. Value(d, g, x) \in OwnedBy(d, g) /\ Value(d, g, x) \in Blocks
        BY <1>1, <1>4, CountedIs
      <4> QED BY <1>3, <4>1 DEF Blocks
    <3>4. r.bytes[Value(d, g, x)] = d.bytes[Value(d, g, x)]
      BY <3>3 DEF Extended
    <3> QED BY <3>1, <3>2, <3>4
  <2> QED BY <2>1, <2>2, <2>3
<1> QED BY <1>1, <1>2, <1>6, <1>7, <1>11, <1>15, <1>16, <1>17 DEF Kept

-------------------------------------------------------------------------------
\* The way of writeToFile to a logical block, one entry after the other.

LEMMA ExtendUsed ==
    ASSUME NEW d \in Good, ~Full(d), NEW f \in Files, NEW at \in Places,
           NEW k \in IF at = NoBlock THEN 0 .. DIND ELSE 0 .. PER - 1,
           NEW r, r = Extend(d, f, at, k)
    PROVE  r.used = d.used \cup {FreeBlock(d)}
<1> DEFINE b == FreeBlock(d)
           p == balloc(d)
           q == SetEntry(p, f, at, k, b)
           n == q.inode[f].i_blocks + 2
<1>1. r = SetCount(q, f, n)
  BY DEF Extend
<1>2. p \in Good /\ b \in Blocks /\ p.used = d.used \cup {b}
  BY BallocParts
<1>3. q = SetEntry(p, f, at, k, b)
  OBVIOUS
<1> HIDE DEF p, q, b
<1>4. q \in Good /\ q.used = p.used
  BY <1>2, <1>3, SetEntryParts
<1>5. n \in Nat
  BY <1>4, InodeTypes DEF Good
<1> HIDE DEF n
<1>6. r.used = q.used
  <2>1. Counted(q, r, f, n)
    BY <1>1, <1>4, <1>5, SetCountParts
  <2> QED BY <2>1 DEF Counted
<1> QED BY <1>2, <1>4, <1>6 DEF b

\* Where writeToFile is after k entries on the way to logical block l, having begun on the disk p
\* of a command that began on o.
Reached(o, fs, t, f, l, k, a) ==
    /\ Kept(o, a.disk, fs, t)
    /\ l > 0 => Leaf(l - 1) \in 1 .. NumBlocks(a.disk, f)
    /\ a.ok = TRUE => \/ k = 0
                      \/ /\ Stop(l, k) \in 1 .. NumBlocks(a.disk, f)
                         /\ a.at = Value(a.disk, f, Stop(l, k))
    /\ a.ok # TRUE => Full(a.disk) /\ NumBlocks(a.disk, f) < Leaf(l)

OnWay(o, p, fs, t, f, l, k, a) ==
    /\ p.used \subseteq a.disk.used
    /\ Full(p) => a.disk = p
    /\ Clean(o, a.disk, fs) => Reached(o, fs, t, f, l, k, a)

\* The next entry on the way.
LEMMA NextEntry ==
    ASSUME NEW fs \in SUBSET Files, NEW o, NEW t, NEW f \in fs, NEW l \in LogicalRange,
           NEW k \in 0 .. Len(Path(l)) - 1, NEW p \in Good, NEW a \in Level(p, k), a.ok = TRUE,
           Reached(o, fs, t, f, l, k, a), NEW m, m = Stop(l, k + 1)
    PROVE  /\ Entry(a.disk, f, a.at, Path(l)[k + 1]) = Value(a.disk, f, m)
           /\ a.at = TableOf(a.disk, f, m) /\ Index(m) = Path(l)[k + 1]
           /\ m \in 1 .. NumPlaces /\ m <= Leaf(l) /\ m <= NumBlocks(a.disk, f) + 1
           /\ a.at = NoBlock \/ a.at \in OwnedBy(a.disk, f)
<1>1. Len(Path(l)) \in 1 .. 3 /\ k + 1 \in 1 .. Len(Path(l)) /\ k \in Nat /\ k + 1 - 1 = k
  BY PathRange
<1>2. /\ m \in 1 .. NumPlaces /\ m <= Leaf(l) /\ Index(m) = Path(l)[k + 1]
      /\ Parent(m) = IF k = 0 THEN 0 ELSE Stop(l, k)
  BY <1>1, StopsOf
<1>3. a.disk \in Disk /\ f \in Files /\ Packed(a.disk, f)
  BY DEF Reached, Kept, Good, Shape
<1>4. NumBlocks(a.disk, f) \in Nat
  BY <1>3, CountedIs
<1>5. m <= NumBlocks(a.disk, f) + 1
  <2>1. CASE m = 1
    BY <1>4, <2>1
  <2>2. CASE k + 1 > 1 /\ m <= Stop(l, k) + 1
    <3>1. Stop(l, k) \in 1 .. NumBlocks(a.disk, f)
      BY <1>1, <2>2 DEF Reached
    <3> QED BY <1>2, <1>4, <2>2, <3>1
  <2>3. CASE l > 0 /\ m <= Leaf(l - 1) + 1
    <3>1. Leaf(l - 1) \in 1 .. NumBlocks(a.disk, f)
      BY <2>3 DEF Reached
    <3> QED BY <1>2, <1>4, <2>3, <3>1
  <2> QED BY <1>1, <2>1, <2>2, <2>3, NoGap
<1>6. CASE k = 0
  <2>1. a.at = NoBlock
    BY <1>6 DEF Level
  <2>2. Entry(a.disk, f, a.at, Path(l)[k + 1]) = a.disk.inode[f].i_block[Index(m)]
    BY <1>2, <2>1 DEF Entry
  <2>3. Value(a.disk, f, m) = a.disk.inode[f].i_block[Index(m)]
    BY <1>2, <1>3, <1>6, ValueIs
  <2>4. TableOf(a.disk, f, m) = NoBlock
    BY <1>2, <1>6 DEF TableOf
  <2> QED BY <1>2, <1>5, <2>1, <2>2, <2>3, <2>4
<1>7. CASE k # 0
  <2>1. /\ a.at \in Blocks /\ Stop(l, k) \in 1 .. NumBlocks(a.disk, f)
        /\ a.at = Value(a.disk, f, Stop(l, k))
    BY <1>7 DEF Level, Reached
  <2>2. a.at # NoBlock /\ Parent(m) = Stop(l, k) /\ Parent(m) # 0
    BY <1>2, <1>7, <2>1, Constants
  <2>3. Entry(a.disk, f, a.at, Path(l)[k + 1]) = a.disk.table[a.at][Index(m)]
    BY <1>2, <2>2 DEF Entry
  <2>4. Value(a.disk, f, m) = a.disk.table[a.at][Index(m)]
    BY <1>2, <1>3, <2>1, <2>2, ValueIs
  <2>5. TableOf(a.disk, f, m) = a.at
    BY <2>1, <2>2 DEF TableOf
  <2>6. a.at \in OwnedBy(a.disk, f)
    BY <2>1 DEF OwnedBy
  <2> QED BY <1>2, <1>5, <2>3, <2>4, <2>5, <2>6
<1> QED BY <1>6, <1>7

LEMMA DescendOn ==
    ASSUME NEW fs \in SUBSET Files, NEW o, NEW t, NEW f \in fs, NEW l \in LogicalRange,
           NEW k \in 0 .. Len(Path(l)) - 1, NEW p \in Good, NEW a \in Level(p, k),
           OnWay(o, p, fs, t, f, l, k, a), NEW r, r = Descend(f, a, Path(l)[k + 1])
    PROVE  OnWay(o, p, fs, t, f, l, k + 1, r)
<1> DEFINE e == Path(l)[k + 1]
           b == Entry(a.disk, f, a.at, e)
           m == Stop(l, k + 1)
<1>1. /\ a.disk \in Good /\ a.at \in Places /\ a.ok \in BOOLEAN /\ k \in Nat /\ f \in Files
      /\ p.used \subseteq a.disk.used
      /\ Full(p) => a.disk = p
      /\ Clean(o, a.disk, fs) => Reached(o, fs, t, f, l, k, a)
  BY PathRange DEF Level, Levels, OnWay
<1>2. CASE a.ok # TRUE
  <2>1. a.ok = FALSE /\ r = a
    BY <1>1, <1>2 DEF Descend
  <2> QED BY <1>1, <2>1 DEF OnWay, Reached
<1>3. CASE a.ok = TRUE
  <2>1. r = IF b # NoBlock THEN [disk |-> a.disk, at |-> b, ok |-> TRUE]
            ELSE IF Full(a.disk) THEN [disk |-> a.disk, at |-> a.at, ok |-> FALSE]
            ELSE [disk |-> Extend(a.disk, f, a.at, e), at |-> FreeBlock(a.disk), ok |-> TRUE]
    BY <1>3 DEF Descend
  <2>2. ASSUME Clean(o, a.disk, fs)
        PROVE  /\ b = Value(a.disk, f, m) /\ a.at = TableOf(a.disk, f, m) /\ Index(m) = e
               /\ m \in 1 .. NumPlaces /\ m <= Leaf(l) /\ m <= NumBlocks(a.disk, f) + 1
               /\ a.at = NoBlock \/ a.at \in OwnedBy(a.disk, f)
               /\ a.disk \in Disk /\ Packed(a.disk, f) /\ NumBlocks(a.disk, f) \in Nat
               /\ Value(a.disk, f, m) # NoBlock <=> m <= NumBlocks(a.disk, f)
    <3>1. Reached(o, fs, t, f, l, k, a)
      BY <1>1, <2>2
    <3>2. a.disk \in Disk /\ Packed(a.disk, f)
      BY <3>1 DEF Reached, Kept, Good, Shape
    <3>3. NumBlocks(a.disk, f) \in Nat
      BY <1>1, <3>2, CountedIs
    <3>4. /\ b = Value(a.disk, f, m) /\ a.at = TableOf(a.disk, f, m) /\ Index(m) = e
          /\ m \in 1 .. NumPlaces /\ m <= Leaf(l) /\ m <= NumBlocks(a.disk, f) + 1
          /\ a.at = NoBlock \/ a.at \in OwnedBy(a.disk, f)
      BY <1>3, <3>1, NextEntry
    <3> QED BY <3>2, <3>3, <3>4 DEF Packed
  <2>3. e \in IF a.at = NoBlock THEN 0 .. DIND ELSE 0 .. PER - 1
    <3>1. a.at = NoBlock <=> k = 0
      BY <1>3, Constants DEF Level
    <3>2. k = 0 => e \in 0 .. DIND
      BY PathRange
    <3>3. k # 0 => e \in 0 .. PER - 1
      <4>1. k # 0 => k + 1 \in 2 .. Len(Path(l))
        BY <1>1, PathRange
      <4> QED BY <4>1, PathRange
    <3> QED BY <3>1, <3>2, <3>3
  <2> HIDE DEF b, m, e
  <2>4. CASE b # NoBlock
    <3>1. r = [disk |-> a.disk, at |-> b, ok |-> TRUE]
      BY <2>1, <2>4
    <3>2. r.disk = a.disk /\ r.at = b /\ r.ok = TRUE
      BY <3>1
    <3>3. ASSUME Clean(o, r.disk, fs) PROVE Reached(o, fs, t, f, l, k + 1, r)
      <4>1. Clean(o, a.disk, fs) /\ Reached(o, fs, t, f, l, k, a)
        BY <1>1, <3>2, <3>3
      <4>2. m \in 1 .. NumBlocks(a.disk, f) /\ b = Value(a.disk, f, m)
        BY <2>2, <2>4, <4>1
      <4> QED BY <3>2, <4>1, <4>2 DEF Reached, m
    <3> QED BY <1>1, <3>2, <3>3 DEF OnWay
  <2>5. CASE b = NoBlock /\ Full(a.disk)
    <3>1. r = [disk |-> a.disk, at |-> a.at, ok |-> FALSE]
      BY <2>1, <2>5
    <3>2. r.disk = a.disk /\ r.ok = FALSE
      BY <3>1
    <3>3. ASSUME Clean(o, r.disk, fs) PROVE Reached(o, fs, t, f, l, k + 1, r)
      <4>1. Clean(o, a.disk, fs) /\ Reached(o, fs, t, f, l, k, a)
        BY <1>1, <3>2, <3>3
      <4>2. NumBlocks(a.disk, f) < Leaf(l)
        <5>1. ~(m <= NumBlocks(a.disk, f)) /\ m <= Leaf(l) /\ m \in Nat /\ NumBlocks(a.disk, f) \in Nat
          BY <2>2, <2>5, <4>1
        <5>2. Leaf(l) \in Nat
          BY LeafRange
        <5> QED BY <5>1, <5>2
      <4> QED BY <2>5, <3>2, <4>1, <4>2 DEF Reached
    <3> QED BY <1>1, <3>2, <3>3 DEF OnWay
  <2>6. CASE b = NoBlock /\ ~Full(a.disk)
    <3> DEFINE x == Extend(a.disk, f, a.at, e)
               new == FreeBlock(a.disk)
    <3>1. r = [disk |-> x, at |-> new, ok |-> TRUE]
      BY <2>1, <2>6
    <3>2. x.used = a.disk.used \cup {new} /\ new \in Blocks \ a.disk.used
      BY <1>1, <2>3, <2>6, ExtendUsed, FreeBlockIsFree
    <3>3. new # a.at => Extended(a.disk, x, f, a.at, e, new)
      BY <1>1, <2>3, <2>6, ExtendParts
    <3> HIDE DEF x, new
    <3>4. r.disk = x /\ r.at = new /\ r.ok = TRUE
      BY <3>1
    <3>5. ASSUME Clean(o, x, fs) PROVE Reached(o, fs, t, f, l, k + 1, r)
      <4>1. Clean(o, a.disk, fs)
        BY <3>2, <3>5 DEF Clean
      <4>2. Reached(o, fs, t, f, l, k, a) /\ Kept(o, a.disk, fs, t)
        BY <1>1, <4>1 DEF Reached
      <4>3. new \notin OwnedBy(a.disk, f)
        <5>1. o.used \subseteq a.disk.used /\ Grown(o, a.disk, fs)
          BY <4>2 DEF Kept
        <5> QED BY <3>2, <3>5, <5>1, FreeIsNew
      <4>4. new # a.at
        BY <2>2, <3>2, <4>1, <4>3, Constants
      <4>5. m = NumBlocks(a.disk, f) + 1 /\ m \in 1 .. NumPlaces /\ NumBlocks(a.disk, f) \in Nat
        BY <2>2, <2>6, <4>1
      <4>6. Extended(a.disk, x, f, a.at, Index(m), new) /\ a.at = TableOf(a.disk, f, m)
        BY <2>2, <3>3, <4>1, <4>4
      <4>7. /\ Kept(o, x, fs, t) /\ NumBlocks(x, f) = m /\ Value(x, f, m) = new
            /\ NumBlocks(a.disk, f) <= NumBlocks(x, f)
        BY <3>5, <4>2, <4>5, <4>6, ExtendKeeps
      <4>8. l > 0 => Leaf(l - 1) \in 1 .. NumBlocks(x, f)
        BY <4>2, <4>5, <4>7 DEF Reached
      <4>9. Stop(l, k + 1) \in 1 .. NumBlocks(x, f) /\ new = Value(x, f, Stop(l, k + 1))
        BY <4>5, <4>7 DEF m
      <4> QED BY <3>4, <4>7, <4>8, <4>9 DEF Reached
    <3>6. Full(p) => FALSE
      BY <1>1, <2>6
    <3> QED BY <1>1, <3>2, <3>4, <3>5, <3>6 DEF OnWay
  <2> QED BY <2>4, <2>5, <2>6
<1> QED BY <1>1, <1>2, <1>3

\* Locate, from the disk p of a command that began on o.
LEMMA LocateOn ==
    ASSUME NEW fs \in SUBSET Files, NEW o, NEW t, NEW f \in fs, NEW l \in LogicalRange, NEW p \in Good,
           Clean(o, p, fs) => /\ Kept(o, p, fs, t)
                              /\ l > 0 => Leaf(l - 1) \in 1 .. NumBlocks(p, f),
           NEW r, r = Locate(p, f, l)
    PROVE  OnWay(o, p, fs, t, f, l, Len(Path(l)), r)
<1> DEFINE N == Len(Path(l))
<1>1. f \in Files /\ N \in 1 .. 3
  BY PathRange
<1>2. PICK h : Levelled(p, f, l, h)
  BY <1>1, LocateLoop
<1>3. /\ h[0] = [disk |-> p, at |-> NoBlock, ok |-> TRUE]
      /\ \A n \in 1 .. N : h[n] = Descend(f, h[n - 1], Path(l)[n])
      /\ \A n \in 0 .. N : h[n] \in Level(p, n)
      /\ r = h[N]
  BY <1>2 DEF Levelled
<1> DEFINE T == {n \in 0 .. N : OnWay(o, p, fs, t, f, l, n, h[n])}
<1>4. 0 \in T
  <2>1. h[0].disk = p /\ h[0].ok = TRUE
    BY <1>3
  <2>2. OnWay(o, p, fs, t, f, l, 0, h[0])
    BY <2>1 DEF OnWay, Reached
  <2> QED BY <1>1, <2>2
<1>5. ASSUME NEW n \in 0 .. N - 1, n \in T PROVE n + 1 \in T
  <2>1. n + 1 \in 1 .. N /\ n \in 0 .. N /\ n + 1 \in 0 .. N /\ (n + 1) - 1 = n
    BY <1>1
  <2>2. h[n + 1] = Descend(f, h[n], Path(l)[n + 1]) /\ h[n] \in Level(p, n)
    BY <1>3, <2>1
  <2>3. OnWay(o, p, fs, t, f, l, n, h[n])
    BY <1>5
  <2>4. OnWay(o, p, fs, t, f, l, n + 1, h[n + 1])
    BY <2>2, <2>3, DescendOn
  <2> QED BY <2>1, <2>4
<1> HIDE DEF T
<1>6. 0 .. N \subseteq T
  BY <1>1, <1>4, <1>5, SetInduction
<1>7. N \in T
  BY <1>1, <1>6
<1> QED BY <1>3, <1>7 DEF T

-------------------------------------------------------------------------------
\* The places of a file are those of its i_block[] and of the tables, whatever else changes.
SamePlaces(d, r, f) ==
    /\ r.table = d.table /\ r.inode[f].i_block = d.inode[f].i_block
    /\ r.inode[f].i_blocks = d.inode[f].i_blocks

LEMMA PlacesStay ==
    ASSUME NEW d \in Disk, NEW r \in Disk, NEW f \in Files, SamePlaces(d, r, f)
    PROVE  /\ \A m \in 1 .. NumPlaces : Value(r, f, m) = Value(d, f, m)
           /\ NumBlocks(r, f) = NumBlocks(d, f)
           /\ Packed(d, f) => OwnedBy(r, f) = OwnedBy(d, f) /\ Packed(r, f)
<1> DEFINE T == {n \in 0 .. NumPlaces : \A m \in 1 .. n : Value(r, f, m) = Value(d, f, m)}
<1>1. NumPlaces \in Nat
  BY PlaceNumbers
<1>2. 0 \in T
  BY <1>1
<1>3. ASSUME NEW n \in 0 .. NumPlaces - 1, n \in T PROVE n + 1 \in T
  <2>1. n \in Nat /\ n + 1 \in 0 .. NumPlaces /\ n + 1 \in 1 .. NumPlaces
        /\ \A m \in 1 .. n : Value(r, f, m) = Value(d, f, m)
    BY <1>1, <1>3
  <2>2. Parent(n + 1) \in 0 .. (n + 1) - 1
    BY <2>1, ParentBelow
  <2>3. Value(r, f, n + 1) = Value(d, f, n + 1)
    <3>1. CASE Parent(n + 1) = 0
      BY <2>1, <3>1, ValueIs DEF SamePlaces
    <3>2. CASE Parent(n + 1) # 0
      <4>1. Parent(n + 1) \in 1 .. n
        BY <2>1, <2>2, <3>2
      <4>2. Value(r, f, Parent(n + 1)) = Value(d, f, Parent(n + 1))
        BY <2>1, <4>1
      <4> QED BY <2>1, <3>2, <4>2, ValueIs DEF SamePlaces
    <3> QED BY <3>1, <3>2
  <2>4. \A m \in 1 .. n + 1 : m = n + 1 \/ m \in 1 .. n
    BY <2>1
  <2> QED BY <2>1, <2>3, <2>4
<1> HIDE DEF T
<1>4. 0 .. NumPlaces \subseteq T
  BY <1>1, <1>2, <1>3, SetInduction
<1>5. NumPlaces \in T
  BY <1>1, <1>4
<1>6. \A m \in 1 .. NumPlaces : Value(r, f, m) = Value(d, f, m)
  BY <1>5 DEF T
<1>7. NumBlocks(r, f) = NumBlocks(d, f)
  BY DEF NumBlocks, SamePlaces
<1>8. Packed(d, f) => OwnedBy(r, f) = OwnedBy(d, f)
  <2> SUFFICES ASSUME Packed(d, f) PROVE OwnedBy(r, f) = OwnedBy(d, f)
    OBVIOUS
  <2>1. \A m \in 1 .. NumBlocks(d, f) : m \in 1 .. NumPlaces
    BY CountedIs
  <2> QED BY <1>6, <1>7, <2>1 DEF OwnedBy
<1>9. Packed(d, f) => Packed(r, f)
  BY <1>6, <1>7 DEF Packed, SamePlaces
<1> QED BY <1>6, <1>7, <1>8, <1>9

LEMMA ShapeStays ==
    ASSUME NEW d \in Disk, NEW r \in Disk, NEW fs \in SUBSET Files, Shape(d, fs),
           \A f \in fs : SamePlaces(d, r, f), r.table = d.table,
           \A b \in r.used : \E f \in fs : b \in OwnedBy(d, f)
    PROVE  /\ Shape(r, fs)
           /\ \A f \in fs : /\ OwnedBy(r, f) = OwnedBy(d, f) /\ NumBlocks(r, f) = NumBlocks(d, f)
                            /\ \A m \in 1 .. NumPlaces : Value(r, f, m) = Value(d, f, m)
<1>1. \A f \in fs : f \in Files /\ Packed(d, f)
  BY DEF Shape
<1>2. \A f \in fs : /\ OwnedBy(r, f) = OwnedBy(d, f) /\ NumBlocks(r, f) = NumBlocks(d, f) /\ Packed(r, f)
                    /\ \A m \in 1 .. NumPlaces : Value(r, f, m) = Value(d, f, m)
  BY <1>1, PlacesStay
<1>3. Apart(r, fs)
  <2> SUFFICES ASSUME NEW g \in fs, NEW h \in fs, NEW x \in 1 .. NumBlocks(r, g), NEW y \in 1 .. NumBlocks(r, h),
                      Value(r, g, x) = Value(r, h, y)
               PROVE  g = h /\ x = y
    BY DEF Apart
  <2>1. x \in 1 .. NumBlocks(d, g) /\ y \in 1 .. NumBlocks(d, h)
    BY <1>2
  <2>2. x \in 1 .. NumPlaces /\ y \in 1 .. NumPlaces
    BY <1>1, <2>1, CountedIs
  <2>3. Value(d, g, x) = Value(d, h, y)
    BY <1>2, <2>2
  <2> QED BY <2>1, <2>3 DEF Shape, Apart
<1>4. r.table[NoBlock] = NoEntries /\ \A b \in r.used : \E f \in fs : b \in OwnedBy(r, f)
  BY <1>2 DEF Shape
<1> QED BY <1>2, <1>3, <1>4 DEF Shape

-------------------------------------------------------------------------------
\* r is d with another size of f.
Sized(d, r, f, n) ==
    /\ r \in Good /\ r.used = d.used /\ r.bytes = d.bytes /\ r.table = d.table
    /\ \A g \in Files : /\ r.inode[g].i_block = d.inode[g].i_block
                        /\ r.inode[g].i_blocks = d.inode[g].i_blocks
                        /\ g # f => r.inode[g].i_size = d.inode[g].i_size
    /\ r.inode[f].i_size = n

LEMMA SizedBySetSize ==
    ASSUME NEW d \in Good, NEW f \in Files, NEW n \in Nat
    PROVE  Sized(d, SetSize(d, f, n), f, n)
BY SetSizeParts DEF Sized

\* A round that has the first n bytes of what is left to write in the block at.
CanPut(f, a, e, at, n) ==
    /\ a.offset \in Nat /\ a.left \in Seq(Byte)
    /\ e \in Good /\ e.inode[f].i_size = a.offset /\ at \in 0 .. NBLOCKS /\ n \in 0 .. Len(a.left)

IsPut(f, a, e, at, n, r) ==
    /\ r.disk \in Good /\ r.disk.used = e.used /\ \A g \in Files : SamePlaces(e, r.disk, g)
    /\ r.disk.bytes = [e.bytes EXCEPT ![at] = Overlay(e.bytes[at], a.offset % BLKSIZE, n, a.left)]
    /\ r.disk.inode[f].i_size = a.offset + n
    /\ \A g \in Files : g # f => r.disk.inode[g].i_size = e.inode[g].i_size
    /\ r.offset = a.offset + n /\ r.left = SubSeq(a.left, n + 1, Len(a.left)) /\ r.ok = TRUE

\* The bytes of a write go where they are read.
LEMMA PutParts ==
    ASSUME NEW f \in Files, NEW a, NEW e, NEW at, NEW n, CanPut(f, a, e, at, n),
           NEW r, r = Put(f, a, e, at, n)
    PROVE  IsPut(f, a, e, at, n, r)
<1> DEFINE bytes == Overlay(e.bytes[at], a.offset % BLKSIZE, n, a.left)
           filled == SetBytes(e, at, bytes)
           size == Most(e.inode[f].i_size, a.offset + n)
           to == SetSize(filled, f, size)
<1>0. /\ a.offset \in Nat /\ a.left \in Seq(Byte)
      /\ e \in Good /\ e.inode[f].i_size = a.offset /\ at \in 0 .. NBLOCKS /\ n \in 0 .. Len(a.left)
  BY DEF CanPut
<1>1. e \in Disk /\ n \in Nat
  BY <1>0 DEF Good
<1>2. bytes \in [0 .. BLKSIZE - 1 -> Byte]
  <2>1. e.bytes[at] \in [0 .. BLKSIZE - 1 -> Byte]
    BY <1>0, <1>1, DiskTypes
  <2>2. a.offset % BLKSIZE \in 0 .. BLKSIZE - 1
    BY <1>0, Constants, Division
  <2> QED BY <1>0, <2>1, <2>2, OverlayBytes
<1>3. size = a.offset + n /\ size \in Nat
  BY <1>0, <1>1 DEF Most
<1>4. r = [disk |-> to, offset |-> a.offset + n, left |-> SubSeq(a.left, n + 1, Len(a.left)), ok |-> TRUE]
  BY DEF Put
<1> HIDE DEF bytes
<1>5. /\ filled \in Good /\ filled.inode = e.inode /\ filled.used = e.used /\ filled.table = e.table
      /\ filled.bytes = [e.bytes EXCEPT ![at] = bytes]
  <2> DEFINE m == [e.bytes EXCEPT ![at] = bytes]
  <2>1. filled \in Disk /\ SameBits(e, filled) /\ filled.inode = e.inode
    BY <1>0, <1>1, <1>2, SetBytesParts
  <2>2. filled = [e EXCEPT !.bytes = m]
    BY DEF SetBytes
  <2> HIDE DEF m, filled
  <2>3. filled.table = e.table /\ filled.bytes = m
    BY <1>1, <2>2 DEF Disk
  <2> QED BY <1>0, <2>1, <2>3 DEF m, Good, SameBits
<1> HIDE DEF filled, size
<1>6. size \in Nat /\ filled \in Good
  BY <1>1, <1>3, <1>5
<1>a. Sized(filled, SetSize(filled, f, size), f, size)
  BY Zenon, <1>6, SizedBySetSize
<1>b. Sized(filled, to, f, size)
  BY <1>a
<1> HIDE DEF to
<1>7. /\ to \in Good /\ to.used = filled.used /\ to.bytes = filled.bytes /\ to.table = filled.table
      /\ \A g \in Files : /\ to.inode[g].i_block = filled.inode[g].i_block
                          /\ to.inode[g].i_blocks = filled.inode[g].i_blocks
                          /\ g # f => to.inode[g].i_size = filled.inode[g].i_size
      /\ to.inode[f].i_size = size
  BY <1>b DEF Sized
<1>8. /\ r.disk = to /\ r.offset = a.offset + n /\ r.left = SubSeq(a.left, n + 1, Len(a.left))
      /\ r.ok = TRUE
  BY <1>0, <1>1, <1>4
<1> QED BY <1>3, <1>5, <1>7, <1>8 DEF SamePlaces, bytes, IsPut

\* One byte at a position of a file, and where in its block it is.
LEMMA PositionOf ==
    ASSUME NEW i \in Nat
    PROVE  /\ i \div BLKSIZE \in Nat /\ i % BLKSIZE \in 0 .. BLKSIZE - 1
           /\ i = (BLKSIZE * (i \div BLKSIZE)) + (i % BLKSIZE)
           /\ i < MaxSize => i \div BLKSIZE \in LogicalRange
<1> DEFINE m == NDIRECT + PER + PER * PER
<1>1. BLKSIZE \in Nat \ {0} /\ MaxSize \in Nat /\ m \in Nat /\ MaxSize <= BLKSIZE * m
  BY Constants
<1>2. LogicalRange = 0 .. m - 1
  BY DEF LogicalRange
<1> HIDE DEF m
<1>3. /\ i \div BLKSIZE \in Nat /\ i % BLKSIZE \in 0 .. BLKSIZE - 1
      /\ i = (BLKSIZE * (i \div BLKSIZE)) + (i % BLKSIZE)
  BY <1>1, Division
<1>4. ASSUME i < MaxSize PROVE i \div BLKSIZE < m
  <2>1. i < BLKSIZE * m
    BY <1>1, <1>4
  <2> QED BY <1>1, <2>1, QuotientBelow
<1> DEFINE q == i \div BLKSIZE
<1>5. q \in Nat /\ (i < MaxSize => q < m)
  BY <1>3, <1>4
<1> HIDE DEF q
<1>6. i < MaxSize => q \in 0 .. m - 1
  BY <1>1, <1>5
<1> QED BY <1>2, <1>3, <1>6 DEF q

LEMMA InBlock ==
    ASSUME NEW i \in Nat
    PROVE  i % BLKSIZE \in 0 .. BLKSIZE - 1
BY PositionOf

LEMMA LogicalOf ==
    ASSUME NEW i \in Nat, i < MaxSize
    PROVE  i \div BLKSIZE \in LogicalRange
BY PositionOf

\* The positions from offset on that are in the same block.
LEMMA SameBlock ==
    ASSUME NEW offset \in Nat, NEW n \in Nat, (offset % BLKSIZE) + n <= BLKSIZE,
           NEW i \in Nat, offset <= i, i < offset + n
    PROVE  i \div BLKSIZE = offset \div BLKSIZE /\ i % BLKSIZE = (offset % BLKSIZE) + (i - offset)
<1> DEFINE q == offset \div BLKSIZE
           s == offset % BLKSIZE
           x == q * BLKSIZE
           j == s + (i - offset)
<1>1. BLKSIZE \in Nat \ {0}
  BY Constants
<1>2. q \in Nat /\ s \in 0 .. BLKSIZE - 1 /\ offset = (BLKSIZE * q) + s
  BY PositionOf
<1>3. s + n <= BLKSIZE
  OBVIOUS
<1> HIDE DEF q, s
<1>4. x \in Nat /\ x = BLKSIZE * q
  BY <1>1, <1>2
<1>5. i = x + j /\ j \in 0 .. BLKSIZE - 1
  <2> HIDE DEF x
  <2> QED BY <1>1, <1>2, <1>3, <1>4
<1> HIDE DEF j
<1>6. i \div BLKSIZE = q /\ i % BLKSIZE = j
  BY <1>1, <1>2, <1>5, DividedBy
<1> QED BY <1>6 DEF q, j, s

\* A position before offset in the same block is in front of it.
LEMMA BeforeInBlock ==
    ASSUME NEW offset \in Nat, NEW i \in Nat, i < offset, i \div BLKSIZE = offset \div BLKSIZE
    PROVE  i % BLKSIZE < offset % BLKSIZE
<1> DEFINE q == offset \div BLKSIZE
           s == offset % BLKSIZE
           k == i % BLKSIZE
           x == BLKSIZE * q
<1>1. q \in Nat /\ s \in 0 .. BLKSIZE - 1 /\ offset = x + s /\ BLKSIZE \in Nat
  BY PositionOf, Constants
<1>2. k \in 0 .. BLKSIZE - 1 /\ i = x + k
  BY PositionOf
<1> HIDE DEF q, s, k
<1>3. x \in Nat
  BY <1>1
<1> HIDE DEF x
<1>4. k < s
  BY <1>1, <1>2, <1>3
<1> QED BY <1>4 DEF k, s

\* The byte at position i after a round that wrote positions offset to offset + n - 1.
LEMMA WrittenByte ==
    ASSUME NEW block, NEW offset \in Nat, NEW s \in Seq(Byte), NEW n \in Nat, n <= Len(s),
           (offset % BLKSIZE) + n <= BLKSIZE, NEW i \in Nat, offset <= i, i < offset + n,
           NEW over, over = Overlay(block, offset % BLKSIZE, n, s)
    PROVE  /\ i \div BLKSIZE = offset \div BLKSIZE
           /\ over[i % BLKSIZE] = s[i - offset + 1]
           /\ i - offset + 1 \in 1 .. Len(s) /\ offset + (i - offset + 1) = i + 1
<1> DEFINE start == offset % BLKSIZE
           k == i % BLKSIZE
<1>1. i \div BLKSIZE = offset \div BLKSIZE /\ k = start + (i - offset)
  BY SameBlock
<1>2. k \in 0 .. BLKSIZE - 1 /\ start \in 0 .. BLKSIZE - 1 /\ BLKSIZE \in Nat
  BY InBlock, Constants
<1>3. over[k] = IF k \in start .. start + n - 1 THEN s[k - start + 1] ELSE block[k]
  BY <1>2 DEF Overlay
<1> HIDE DEF start, k
<1>4. Len(s) \in Nat
  OBVIOUS
<1>5. k = start + (i - offset)
  BY <1>1
<1> DEFINE len == Len(s)
<1>6. len \in Nat /\ n <= len
  BY <1>4
<1> HIDE DEF len
<1>7. /\ k \in start .. start + n - 1 /\ k - start + 1 = i - offset + 1
      /\ i - offset + 1 \in 1 .. len /\ offset + (i - offset + 1) = i + 1
  BY <1>2, <1>5, <1>6
<1> QED BY <1>1, <1>3, <1>7 DEF start, k, len

\* The place at of f is where its next bytes go.
PutsIn(f, a, e, place, at, n) ==
    /\ a.offset \in Nat /\ a.left \in Seq(Byte) /\ e.inode[f].i_size = a.offset /\ a.offset < MaxSize
    /\ place = Leaf(a.offset \div BLKSIZE) /\ place \in 1 .. NumBlocks(e, f) /\ at = Value(e, f, place)
    /\ n \in Nat /\ n <= Len(a.left) /\ (a.offset % BLKSIZE) + n <= BLKSIZE

\* What is left to write of the text t of f.
LeftOf(t, f, a) ==
    /\ \A i \in 1 .. Len(a.left) : a.left[i] = t[f][a.offset + i]
    /\ a.offset + Len(a.left) <= Len(t[f])

LEMMA PutOn ==
    ASSUME NEW fs \in SUBSET Files, NEW o, NEW t, NEW f \in fs, NEW e, Kept(o, e, fs, t),
           NEW a, LeftOf(t, f, a), NEW place, NEW at, NEW n, PutsIn(f, a, e, place, at, n),
           NEW r, r = Put(f, a, e, at, n)
    PROVE  Kept(o, r.disk, fs, t) /\ r.disk.used = e.used
<1> DEFINE over == Overlay(e.bytes[at], a.offset % BLKSIZE, n, a.left)
           d == r.disk
           size == a.offset + n
<1>0. /\ a.offset \in Nat /\ a.left \in Seq(Byte) /\ e.inode[f].i_size = a.offset /\ a.offset < MaxSize
      /\ place = Leaf(a.offset \div BLKSIZE) /\ place \in 1 .. NumBlocks(e, f) /\ at = Value(e, f, place)
      /\ n \in Nat /\ n <= Len(a.left) /\ (a.offset % BLKSIZE) + n <= BLKSIZE
      /\ \A i \in 1 .. Len(a.left) : a.left[i] = t[f][a.offset + i]
      /\ a.offset + Len(a.left) <= Len(t[f])
  BY DEF PutsIn, LeftOf
<1>b. /\ a.offset \in Nat /\ a.left \in Seq(Byte) /\ n \in Nat /\ n <= Len(a.left)
      /\ (a.offset % BLKSIZE) + n <= BLKSIZE
  BY <1>0
<1>d. a.offset < MaxSize
  BY <1>0
<1>c. /\ a.offset \in Nat /\ Len(a.left) \in Nat /\ n \in Nat /\ n <= Len(a.left)
  BY <1>0
<1>1. /\ e \in Good /\ e \in Disk /\ o.used \subseteq e.used /\ Shape(e, fs) /\ Contents(e, fs, t)
      /\ Grown(o, e, fs) /\ f \in Files
  BY DEF Kept, Good
<1>2. \A g \in fs : Packed(e, g) /\ g \in Files
  BY <1>1 DEF Shape
<1>3. at \in 0 .. NBLOCKS /\ at \in Blocks
  <2>1. at \in Blocks
    BY <1>0, <1>1, <1>2, CountedIs
  <2> QED BY <2>1 DEF Blocks
<1>4. Len(a.left) \in Nat /\ n \in 0 .. Len(a.left)
  BY <1>c
<1>a. e \in Good /\ f \in Files
  BY <1>1
<1>5. /\ d \in Good /\ d.used = e.used /\ \A g \in Files : SamePlaces(e, d, g)
      /\ d.bytes = [e.bytes EXCEPT ![at] = over]
      /\ d.inode[f].i_size = size
      /\ \A g \in Files : g # f => d.inode[g].i_size = e.inode[g].i_size
  <2>1. CanPut(f, a, e, at, n)
    BY <1>0, <1>1, <1>3, <1>4 DEF CanPut
  <2>2. IsPut(f, a, e, at, n, r)
    BY Zenon, <1>a, <2>1, PutParts
  <2> QED BY <2>2 DEF IsPut
<1>6. d \in Disk /\ d.table = e.table /\ \A b \in d.used : \E g \in fs : b \in OwnedBy(e, g)
  BY <1>1, <1>5 DEF Good, SamePlaces, Shape
<1>7. d.bytes[at] = over /\ \A x \in 0 .. NBLOCKS : x # at => d.bytes[x] = e.bytes[x]
  BY <1>1, <1>3, <1>5, DiskTypes
<1> HIDE DEF d, over
<1>8. /\ Shape(d, fs)
      /\ \A g \in fs : /\ OwnedBy(d, g) = OwnedBy(e, g) /\ NumBlocks(d, g) = NumBlocks(e, g)
                       /\ \A m \in 1 .. NumPlaces : Value(d, g, m) = Value(e, g, m)
  BY <1>1, <1>2, <1>5, <1>6, ShapeStays
<1>9. Grown(o, d, fs)
  BY <1>1, <1>5, <1>8 DEF Grown
\* A place of a file other than the one that was written to is left alone.
<1>10. ASSUME NEW g \in fs, NEW m \in 1 .. NumBlocks(e, g)
       PROVE  /\ m \in 1 .. NumBlocks(d, g) /\ Value(d, g, m) = Value(e, g, m)
              /\ ~(g = f /\ m = place) => d.bytes[Value(d, g, m)] = e.bytes[Value(e, g, m)]
  <2>1. m \in 1 .. NumPlaces /\ m \in 1 .. NumBlocks(d, g) /\ Value(e, g, m) \in Blocks
    BY <1>1, <1>2, <1>8, CountedIs
  <2>2. Value(d, g, m) = Value(e, g, m) /\ Value(e, g, m) \in 0 .. NBLOCKS
    BY <1>8, <2>1 DEF Blocks
  <2>3. ~(g = f /\ m = place) => Value(e, g, m) # at
    BY <1>0, <1>1 DEF Shape, Apart
  <2> QED BY <1>7, <2>1, <2>2, <2>3
<1>11. Contents(d, fs, t)
  <2> SUFFICES ASSUME NEW g \in fs
               PROVE  /\ d.inode[g].i_size <= Len(t[g]) /\ Len(t[g]) <= MaxSize
                      /\ \A i \in 0 .. d.inode[g].i_size - 1 :
                            /\ Leaf(i \div BLKSIZE) \in 1 .. NumBlocks(d, g)
                            /\ d.bytes[Value(d, g, Leaf(i \div BLKSIZE))][i % BLKSIZE] = t[g][i + 1]
    BY DEF Contents
  <2>1. /\ e.inode[g].i_size <= Len(t[g]) /\ Len(t[g]) <= MaxSize
        /\ \A i \in 0 .. e.inode[g].i_size - 1 :
            /\ Leaf(i \div BLKSIZE) \in 1 .. NumBlocks(e, g)
            /\ e.bytes[Value(e, g, Leaf(i \div BLKSIZE))][i % BLKSIZE] = t[g][i + 1]
    BY <1>1 DEF Contents
  <2>2. CASE g # f
    <3>1. d.inode[g].i_size = e.inode[g].i_size
      BY <1>2, <1>5, <2>2
    <3> QED BY <1>10, <2>1, <2>2, <3>1
  <2>3. CASE g = f
    <3>1. d.inode[g].i_size = size /\ e.inode[g].i_size = a.offset /\ size \in Nat
      BY <1>0, <1>5, <2>3
    <3>2. size <= Len(t[g])
      BY <1>0, <1>c, <2>1, <2>3
    <3>3. ASSUME NEW i \in 0 .. size - 1
          PROVE  /\ Leaf(i \div BLKSIZE) \in 1 .. NumBlocks(d, g)
                 /\ d.bytes[Value(d, g, Leaf(i \div BLKSIZE))][i % BLKSIZE] = t[g][i + 1]
      <4>a. i \in Nat /\ i < size
        BY <3>1
      <4>b. i % BLKSIZE \in 0 .. BLKSIZE - 1
        BY <4>a, InBlock
      <4>1. i \in Nat /\ i < size /\ i % BLKSIZE \in 0 .. BLKSIZE - 1
        BY <4>a, <4>b
      <4>2. CASE i < a.offset
        <5>1. /\ Leaf(i \div BLKSIZE) \in 1 .. NumBlocks(e, g)
              /\ e.bytes[Value(e, g, Leaf(i \div BLKSIZE))][i % BLKSIZE] = t[g][i + 1]
          BY <1>c, <2>1, <3>1, <4>1, <4>2
        <5>2. CASE i \div BLKSIZE = a.offset \div BLKSIZE
          <6>1. i % BLKSIZE < a.offset % BLKSIZE
            BY <1>b, <4>1, <4>2, <5>2, BeforeInBlock
          <6>2. over[i % BLKSIZE] = e.bytes[at][i % BLKSIZE]
            <7> DEFINE k == i % BLKSIZE
                       start == a.offset % BLKSIZE
            <7>a. start \in 0 .. BLKSIZE - 1
              BY <1>b, InBlock
            <7>b. k \in 0 .. BLKSIZE - 1 /\ k < start
              BY <4>1, <6>1
            <7>1. start \in Nat /\ k \in 0 .. BLKSIZE - 1 /\ k < start
              <8> HIDE DEF k, start
              <8> QED BY <7>a, <7>b
            <7>2. over[k] = IF k \in start .. start + n - 1 THEN a.left[k - start + 1] ELSE e.bytes[at][k]
              BY <7>1 DEF over, Overlay
            <7> HIDE DEF k, start
            <7>3. over[k] = e.bytes[at][k]
              BY <7>1, <7>2
            <7> QED BY <7>3 DEF k
          <6> QED BY <1>0, <1>7, <1>10, <2>3, <5>1, <5>2, <6>2
        <5>3. CASE i \div BLKSIZE # a.offset \div BLKSIZE
          <6>1. i \div BLKSIZE \in LogicalRange /\ a.offset \div BLKSIZE \in LogicalRange
            <7>1. i < MaxSize
              BY <1>c, <1>d, <4>a, <4>2, Constants
            <7> QED BY <1>0, <4>1, <7>1, LogicalOf
          <6>2. Leaf(i \div BLKSIZE) # place
            BY <1>0, <5>3, <6>1, LeavesDiffer
          <6> QED BY <1>10, <5>1, <6>2
        <5> QED BY <5>2, <5>3
      <4>3. CASE ~(i < a.offset)
        <5>1. a.offset <= i /\ i < a.offset + n
          BY <1>b, <4>a, <4>3
        <5>2. /\ i \div BLKSIZE = a.offset \div BLKSIZE
              /\ over[i % BLKSIZE] = a.left[i - a.offset + 1]
              /\ i - a.offset + 1 \in 1 .. Len(a.left) /\ a.offset + (i - a.offset + 1) = i + 1
          <6>1. over = Overlay(e.bytes[at], a.offset % BLKSIZE, n, a.left)
            BY DEF over
          <6>2. i \div BLKSIZE = a.offset \div BLKSIZE
            BY <1>b, <4>a, <5>1, SameBlock
          <6>3. over[i % BLKSIZE] = a.left[i - a.offset + 1]
            BY <1>b, <4>a, <5>1, <6>1, WrittenByte
          <6>4. i - a.offset + 1 \in 1 .. Len(a.left) /\ a.offset + (i - a.offset + 1) = i + 1
            BY Zenon, <1>b, <4>a, <5>1, <6>1, WrittenByte
          <6> QED BY <6>2, <6>3, <6>4
        <5>5. over[i % BLKSIZE] = t[f][i + 1]
          BY <1>0, <5>2
        <5>6. d.bytes[Value(d, f, place)] = over /\ place \in 1 .. NumBlocks(d, f)
          BY <1>0, <1>7, <1>10
        <5> QED BY <1>0, <2>3, <5>2, <5>5, <5>6
      <4> QED BY <4>2, <4>3
    <3> QED BY <2>1, <3>1, <3>2, <3>3
  <2> QED BY <2>2, <2>3
<1>12. o.used \subseteq d.used
  BY <1>1, <1>5
<1>13. Kept(o, d, fs, t) /\ d.used = e.used
  BY <1>5, <1>8, <1>9, <1>11, <1>12 DEF Kept
<1> QED BY <1>13 DEF d

-------------------------------------------------------------------------------
\* The logical block before the one that the end of a file is in has its place.
LEMMA LastLeaf ==
    ASSUME NEW fs, NEW d, NEW t, Contents(d, fs, t), NEW f \in fs, NEW offset \in Nat,
           d.inode[f].i_size = offset, NEW l, l = offset \div BLKSIZE, l > 0
    PROVE  Leaf(l - 1) \in 1 .. NumBlocks(d, f)
<1> DEFINE q == l - 1
           x == q * BLKSIZE
           s == offset % BLKSIZE
           y == BLKSIZE * l
<1>1. BLKSIZE \in Nat \ {0} /\ l \in Nat /\ s \in 0 .. BLKSIZE - 1 /\ offset = y + s
  BY PositionOf, Constants
<1>2. q \in Nat /\ l = q + 1 /\ 0 \in 0 .. BLKSIZE - 1
  BY <1>1
<1> HIDE DEF s, q
<1>3. x \in Nat /\ y = x + BLKSIZE
  BY <1>1, <1>2
<1>4. x \div BLKSIZE = q
  BY <1>1, <1>2, <1>3, DividedBy
<1> HIDE DEF x, y
<1>5. x \in 0 .. offset - 1
  BY <1>1, <1>3
<1>6. x \in 0 .. d.inode[f].i_size - 1
  BY <1>5
<1>7. Leaf(x \div BLKSIZE) \in 1 .. NumBlocks(d, f)
  BY <1>6 DEF Contents
<1>8. Leaf(q) \in 1 .. NumBlocks(d, f)
  BY <1>4, <1>7, Zenon
<1> QED BY <1>8 DEF q

-------------------------------------------------------------------------------
\* No block is free for the next logical block of f.
Stuck(d, f, offset) == Full(d) /\ NumBlocks(d, f) < Leaf(offset \div BLKSIZE)

\* Where a write that began at from on the disk p is, in a command that began on o.
WriteOn(o, p, fs, t, f, from, a) ==
    /\ Kept(o, a.disk, fs, t)
    /\ a.ok # TRUE => Stuck(a.disk, f, a.offset)
    /\ Stuck(p, f, from) => a.disk = p /\ a.offset = from
    /\ ~Stuck(p, f, from) => LeftOf(t, f, a)

Writing(o, p, fs, t, f, from, a) ==
    /\ p.used \subseteq a.disk.used
    /\ Clean(o, a.disk, fs) => WriteOn(o, p, fs, t, f, from, a)

LEMMA LeftAfter ==
    ASSUME NEW t, NEW f, NEW a, a.offset \in Nat, a.left \in Seq(Byte), LeftOf(t, f, a),
           NEW n \in 0 .. Len(a.left), NEW r, r.offset = a.offset + n,
           r.left = SubSeq(a.left, n + 1, Len(a.left)), Len(t[f]) \in Nat
    PROVE  LeftOf(t, f, r)
<1> DEFINE offset == a.offset
           s == a.left
           len == Len(s)
           size == Len(t[f])
           u == SubSeq(s, n + 1, len)
<1>1. offset \in Nat /\ s \in Seq(Byte) /\ len \in Nat /\ n \in 0 .. len /\ size \in Nat
  OBVIOUS
<1>2. (\A i \in 1 .. len : s[i] = t[f][offset + i]) /\ offset + len <= size
  BY DEF LeftOf
<1>3. r.offset = offset + n /\ r.left = u
  OBVIOUS
<1>4. Len(u) = len - n /\ \A i \in 1 .. len - n : u[i] = s[n + i]
  OBVIOUS
<1> HIDE DEF offset, s, size, u
<1> DEFINE more == len - n
<1> HIDE DEF len
<1>5. more \in Nat /\ (offset + n) + more = offset + len
  BY <1>1
<1>6. ASSUME NEW i \in 1 .. more PROVE u[i] = t[f][(offset + n) + i]
  <2>1. n + i \in 1 .. len /\ offset + (n + i) = (offset + n) + i
    BY <1>1
  <2> QED BY <1>2, <1>4, <2>1
<1>7. Len(u) = more
  BY <1>4
<1> HIDE DEF more
<1>8. LeftOf(t, f, r)
  BY <1>2, <1>3, <1>5, <1>6, <1>7 DEF LeftOf, size
<1> QED BY <1>8

LEMMA RestLength ==
    ASSUME NEW s \in Seq(Byte), NEW n \in 0 .. Len(s)
    PROVE  Len(SubSeq(s, n + 1, Len(s))) = Len(s) - n
OBVIOUS

LEMMA RoundOn ==
    ASSUME NEW fs \in SUBSET Files, NEW o, NEW t, NEW f \in fs, Len(t[f]) \in Nat,
           NEW p \in Good, NEW from \in Nat, NEW total \in 0 .. MaxSize,
           NEW a \in Round(p, f, from, total), Writing(o, p, fs, t, f, from, a),
           NEW r, r = WriteRound(f, a)
    PROVE  /\ Writing(o, p, fs, t, f, from, r)
           /\ r.ok = TRUE => a.ok = TRUE /\ (r.left = <<>> \/ Len(r.left) < Len(a.left))
<1> DEFINE l == a.offset \div BLKSIZE
           s == a.offset % BLKSIZE
           to == Locate(a.disk, f, l)
           n == Least(BLKSIZE - s, Len(a.left))
           N == Len(Path(l))
<1>1. /\ a.disk \in Good /\ a.offset \in Nat /\ a.left \in Seq(Byte) /\ a.ok \in BOOLEAN
      /\ SizeBecomes(p, a.disk, f, a.offset) /\ a.offset + Len(a.left) = total
      /\ total \in Nat /\ total <= MaxSize /\ f \in Files /\ MaxSize \in Nat
  BY Constants DEF Round, Rounds
<1>2. /\ p.used \subseteq a.disk.used
      /\ Clean(o, a.disk, fs) => WriteOn(o, p, fs, t, f, from, a)
  BY DEF Writing
<1>3. CASE a.left = <<>> \/ a.ok # TRUE
  <2>1. r = a
    BY <1>1, <1>3 DEF WriteRound
  <2>2. r.ok = TRUE => a.ok = TRUE /\ r.left = <<>>
    BY <1>3, <2>1
  <2>3. Writing(o, p, fs, t, f, from, r)
    BY <2>1
  <2> QED BY <2>2, <2>3
<1>4. CASE a.left # <<>> /\ a.ok = TRUE
  <2>1. Len(a.left) \in Nat \ {0}
    BY <1>1, <1>4
  <2>2. a.offset < MaxSize
    BY <1>1, <2>1
  <2>3. l \in LogicalRange
    BY <1>1, <2>2, LogicalOf
  <2>4. s \in 0 .. BLKSIZE - 1
    BY <1>1, InBlock
  <2>5. r = IF ~to.ok THEN [disk |-> to.disk, offset |-> a.offset, left |-> a.left, ok |-> FALSE]
            ELSE Put(f, a, to.disk, to.at, n)
    BY <1>4 DEF WriteRound
  <2>6. n \in Nat /\ n \in 0 .. Len(a.left) /\ n <= Len(a.left) /\ n # 0 /\ s + n <= BLKSIZE
    <3> HIDE DEF s
    <3> QED BY <2>1, <2>4, Constants DEF Least
  <2>7. a.disk.inode[f].i_size = a.offset
    BY <1>1 DEF SizeBecomes
  <2>8. ASSUME Clean(o, a.disk, fs)
        PROVE  /\ Kept(o, a.disk, fs, t)
               /\ l > 0 => Leaf(l - 1) \in 1 .. NumBlocks(a.disk, f)
    <3>1. Kept(o, a.disk, fs, t)
      BY <1>2, <2>8 DEF WriteOn
    <3>2. Contents(a.disk, fs, t)
      BY <3>1 DEF Kept
    <3> HIDE DEF l
    <3>3. l > 0 => Leaf(l - 1) \in 1 .. NumBlocks(a.disk, f)
      BY <1>1, <2>7, <3>2, LastLeaf DEF l
    <3> QED BY <3>1, <3>3
  <2>9. /\ to \in Levels /\ SameSizes(a.disk, to.disk)
        /\ to.ok = TRUE => to.at \in Blocks
    BY <1>1, <2>3, LocateGood
  <2> HIDE DEF n, s
  <2>a. to = Locate(a.disk, f, l)
    OBVIOUS
  <2>b. l = a.offset \div BLKSIZE
    OBVIOUS
  <2> HIDE DEF to, l
  <2>10. OnWay(o, a.disk, fs, t, f, l, N, to)
    BY <1>1, <2>3, <2>8, <2>a, LocateOn
  <2>11. /\ a.disk.used \subseteq to.disk.used
         /\ Full(a.disk) => to.disk = a.disk
         /\ Clean(o, to.disk, fs) => Reached(o, fs, t, f, l, N, to)
    BY <2>10 DEF OnWay
  <2>12. N # 0 /\ Leaf(l) = Stop(l, N) /\ Leaf(l) \in Nat
    BY <2>3, PathRange, LeafRange DEF Leaf
  <2> HIDE DEF N
  <2>13. to.disk \in Good /\ to.ok \in BOOLEAN
    BY <2>9 DEF Levels
  <2>14. CASE to.ok # TRUE
    <3>1. r = [disk |-> to.disk, offset |-> a.offset, left |-> a.left, ok |-> FALSE]
      BY <2>5, <2>13, <2>14
    <3>2. r.disk = to.disk /\ r.offset = a.offset /\ r.left = a.left /\ r.ok = FALSE
      BY <3>1
    <3>3. p.used \subseteq r.disk.used
      BY <1>2, <2>11, <3>2
    <3>4. ASSUME Clean(o, r.disk, fs) PROVE WriteOn(o, p, fs, t, f, from, r)
      <4>1. Clean(o, to.disk, fs) /\ Clean(o, a.disk, fs)
        BY <2>11, <3>2, <3>4, CleanBefore
      <4>2. WriteOn(o, p, fs, t, f, from, a) /\ Reached(o, fs, t, f, l, N, to)
        BY <1>2, <2>11, <4>1
      <4>3. Kept(o, r.disk, fs, t) /\ Stuck(r.disk, f, r.offset)
        BY <2>14, <2>b, <3>2, <4>2 DEF Reached, Stuck
      <4>4. Stuck(p, f, from) => r.disk = p /\ r.offset = from
        BY <2>11, <3>2, <4>2 DEF WriteOn, Stuck
      <4>5. ~Stuck(p, f, from) => LeftOf(t, f, r)
        BY <3>2, <4>2 DEF WriteOn, LeftOf
      <4> QED BY <4>3, <4>4, <4>5 DEF WriteOn
    <3> QED BY <3>2, <3>3, <3>4 DEF Writing
  <2>15. CASE to.ok = TRUE
    <3>1. r = Put(f, a, to.disk, to.at, n) /\ to.at \in Blocks /\ to.at \in 0 .. NBLOCKS
      BY <2>5, <2>9, <2>15 DEF Blocks
    <3>2. to.disk.inode[f].i_size = a.offset
      BY <1>1, <2>7, <2>9 DEF SameSizes
    <3>3. CanPut(f, a, to.disk, to.at, n)
      BY <1>1, <2>6, <2>13, <3>1, <3>2 DEF CanPut
    <3>4. IsPut(f, a, to.disk, to.at, n, r)
      BY Zenon, <1>1, <3>1, <3>3, PutParts
    <3>5. /\ r.disk.used = to.disk.used /\ r.ok = TRUE
          /\ r.offset = a.offset + n /\ r.left = SubSeq(a.left, n + 1, Len(a.left))
      BY <3>4 DEF IsPut
    <3>6. Len(r.left) = Len(a.left) - n
      BY <1>1, <2>6, <3>5, RestLength
    <3>7. Len(r.left) < Len(a.left)
      BY <2>1, <2>6, <3>6
    <3>8. p.used \subseteq r.disk.used
      BY <1>2, <2>11, <3>5
    <3>9. ASSUME Clean(o, r.disk, fs) PROVE WriteOn(o, p, fs, t, f, from, r)
      <4>1. Clean(o, to.disk, fs) /\ Clean(o, a.disk, fs)
        BY <2>11, <3>5, <3>9, CleanBefore
      <4>2. WriteOn(o, p, fs, t, f, from, a) /\ Reached(o, fs, t, f, l, N, to)
        BY <1>2, <2>11, <4>1
      <4>3. /\ Kept(o, to.disk, fs, t) /\ Leaf(l) \in 1 .. NumBlocks(to.disk, f)
            /\ to.at = Value(to.disk, f, Leaf(l))
        BY <2>12, <2>15, <4>2 DEF Reached
      <4>4. (a.offset % BLKSIZE) + n <= BLKSIZE
        BY <2>6 DEF s
      <4>5. PutsIn(f, a, to.disk, Leaf(l), to.at, n)
        BY <1>1, <2>2, <2>6, <2>b, <3>2, <4>3, <4>4 DEF PutsIn
      <4>7. Stuck(p, f, from) => FALSE
        <5> SUFFICES ASSUME Stuck(p, f, from) PROVE FALSE
          OBVIOUS
        <5>1. a.disk = p /\ a.offset = from /\ Full(p)
          BY <4>2 DEF WriteOn, Stuck
        <5>2. to.disk = p /\ NumBlocks(p, f) < Leaf(l)
          BY <2>11, <2>b, <5>1 DEF Stuck
        <5>3. NumBlocks(p, f) \in Nat
          BY <1>1, InodeTypes DEF NumBlocks, Good
        <5> QED BY <2>12, <4>3, <5>2, <5>3
      <4>8. LeftOf(t, f, a)
        BY <4>2, <4>7 DEF WriteOn
      <4>6. Kept(o, r.disk, fs, t)
        BY <3>1, <4>3, <4>5, <4>8, PutOn
      <4>9. LeftOf(t, f, r)
        BY <1>1, <2>6, <3>5, <4>8, LeftAfter
      <4> QED BY <3>5, <4>6, <4>7, <4>9 DEF WriteOn
    <3> QED BY <1>4, <3>5, <3>6, <3>7, <3>8, <3>9 DEF Writing
  <2> QED BY <1>4, <2>13, <2>14, <2>15
<1> QED BY <1>3, <1>4

\* Bytes that writeToFile may be asked to write behind the end of f: a part of its text t.
MayWrite(o, p, fs, t, f, from, s) ==
    /\ p \in Good /\ from \in Nat /\ p.inode[f].i_size = from /\ Len(t[f]) \in Nat
    /\ s \in Seq(Byte) /\ from + Len(s) <= MaxSize
    /\ Clean(o, p, fs) =>
        /\ Kept(o, p, fs, t)
        /\ ~Stuck(p, f, from) => /\ from + Len(s) <= Len(t[f])
                                 /\ \A i \in 1 .. Len(s) : s[i] = t[f][from + i]

Wrote(o, p, fs, t, f, from, r) ==
    Writing(o, p, fs, t, f, from, r) /\ (r.ok = TRUE => r.left = <<>>)

\* writeToFile stops early only when the disk is full.
LEMMA WriteIs ==
    ASSUME NEW fs \in SUBSET Files, NEW o, NEW t, NEW f \in fs, NEW p, NEW from, NEW s,
           MayWrite(o, p, fs, t, f, from, s), NEW r, r = writeToFile(p, f, from, s)
    PROVE  Wrote(o, p, fs, t, f, from, r)
<1> DEFINE N == Len(s)
           total == from + N
<1>0. /\ p \in Good /\ from \in Nat /\ p.inode[f].i_size = from /\ Len(t[f]) \in Nat
      /\ s \in Seq(Byte) /\ from + Len(s) <= MaxSize
      /\ Clean(o, p, fs) =>
            /\ Kept(o, p, fs, t)
            /\ ~Stuck(p, f, from) => /\ from + Len(s) <= Len(t[f])
                                     /\ \A i \in 1 .. Len(s) : s[i] = t[f][from + i]
  BY DEF MayWrite
<1>1. /\ f \in Files /\ N \in Nat /\ total \in 0 .. MaxSize /\ MaxSize \in Nat
      /\ p \in Good /\ from \in Nat /\ Len(t[f]) \in Nat
  BY <1>0, Constants
<1>2. PICK h : RoundsOf(p, f, from, s, h)
  BY <1>0, <1>1, WriteLoop
<1>3. /\ h[0] = [disk |-> p, offset |-> from, left |-> s, ok |-> TRUE]
      /\ \A n \in 1 .. N : h[n] = WriteRound(f, h[n - 1])
      /\ \A n \in 0 .. N : h[n] \in Round(p, f, from, total)
      /\ r = h[N]
  BY <1>2 DEF RoundsOf
<1> DEFINE On(n) == /\ Writing(o, p, fs, t, f, from, h[n])
                    /\ h[n].ok = TRUE => Len(h[n].left) <= N - n
           T == {n \in 0 .. N : On(n)}
<1>4. On(0)
  <2>1. h[0].disk = p /\ h[0].offset = from /\ h[0].left = s /\ h[0].ok = TRUE
    BY <1>3
  <2>2. Clean(o, p, fs) /\ ~Stuck(p, f, from) => LeftOf(t, f, h[0])
    BY <1>0, <2>1 DEF LeftOf
  <2>3. Writing(o, p, fs, t, f, from, h[0])
    BY <1>0, <2>1, <2>2 DEF Writing, WriteOn
  <2> QED BY <1>1, <2>1, <2>3
<1>a. \A n \in 0 .. N : Len(h[n].left) \in Nat /\ h[n].left \in Seq(Byte)
  BY <1>3 DEF Round, Rounds
<1> HIDE DEF total
<1>5. ASSUME NEW n \in 0 .. N - 1, On(n) PROVE On(n + 1)
  <2>1. n + 1 \in 1 .. N /\ n \in 0 .. N /\ n + 1 \in 0 .. N /\ (n + 1) - 1 = n
    BY <1>1
  <2>2. h[n + 1] = WriteRound(f, h[n]) /\ h[n] \in Round(p, f, from, total)
    BY <1>3, <2>1
  <2>3. Writing(o, p, fs, t, f, from, h[n])
    BY <1>5
  <2>4. /\ Writing(o, p, fs, t, f, from, h[n + 1])
        /\ h[n + 1].ok = TRUE =>
            h[n].ok = TRUE /\ (h[n + 1].left = <<>> \/ Len(h[n + 1].left) < Len(h[n].left))
    <3> DEFINE a == h[n]
               b == h[n + 1]
    <3>1. b = WriteRound(f, a) /\ a \in Round(p, f, from, total) /\ Writing(o, p, fs, t, f, from, a)
      BY <2>2, <2>3
    <3> HIDE DEF a, b
    <3>2. /\ Writing(o, p, fs, t, f, from, b)
          /\ b.ok = TRUE => a.ok = TRUE /\ (b.left = <<>> \/ Len(b.left) < Len(a.left))
      BY <1>1, <3>1, RoundOn
    <3> QED BY <3>2 DEF a, b
  <2>5. ASSUME h[n + 1].ok = TRUE PROVE Len(h[n + 1].left) <= N - (n + 1)
    <3>1. Len(h[n].left) <= N - n
      BY <1>5, <2>4, <2>5
    <3>2. CASE h[n + 1].left = <<>>
      <4>1. Len(h[n + 1].left) = 0
        BY <3>2
      <4> QED BY <1>1, <2>1, <4>1
    <3>3. CASE Len(h[n + 1].left) < Len(h[n].left)
      <4>1. Len(h[n + 1].left) \in Nat /\ Len(h[n].left) \in Nat
        BY <1>a, <2>1
      <4> QED BY <1>1, <2>1, <3>1, <3>3, <4>1
    <3> QED BY <2>4, <2>5, <3>2, <3>3
  <2> QED BY <2>4, <2>5
<1> HIDE DEF N, On
<1>6. 0 \in T
  BY <1>1, <1>4
<1>7. \A n \in 0 .. N - 1 : n \in T => n + 1 \in T
  <2> SUFFICES ASSUME NEW n \in 0 .. N - 1, n \in T PROVE n + 1 \in T
    OBVIOUS
  <2>1. n + 1 \in 0 .. N /\ On(n)
    BY <1>1
  <2> QED BY <1>5, <2>1
<1> HIDE DEF T
<1>8. 0 .. N \subseteq T
  BY <1>1, <1>6, <1>7, SetInduction
<1>9. On(N)
  BY <1>1, <1>8 DEF T
<1>10. Writing(o, p, fs, t, f, from, r) /\ (r.ok = TRUE => Len(r.left) <= N - N)
  BY <1>3, <1>9 DEF On
<1>11. Len(r.left) \in Nat /\ r.left \in Seq(Byte)
  BY <1>1, <1>3, <1>a
<1> QED BY <1>1, <1>10, <1>11 DEF Wrote

-------------------------------------------------------------------------------
\* readFromFile finds the block at the place of the logical block.
LEMMA PhysicalIs ==
    ASSUME NEW d \in Disk, NEW f \in Files, NEW l \in LogicalRange
    PROVE  Physical(d, f, l) = Value(d, f, Leaf(l))
<1> DEFINE N == Len(Path(l))
<1>1. N \in 1 .. 3
  BY PathRange
<1>2. PICK h : Finding(d, f, l, h)
  BY PhysicalLoop
<1>3. /\ h[1] = d.inode[f].i_block[Path(l)[1]]
      /\ \A k \in 2 .. N : h[k] = d.table[h[k - 1]][Path(l)[k]]
      /\ Physical(d, f, l) = h[N]
  BY <1>2 DEF Finding
<1>4. h[1] = Value(d, f, Stop(l, 1))
  <2>1. 1 \in 1 .. N
    BY <1>1
  <2>2. /\ Stop(l, 1) \in 1 .. NumPlaces /\ Parent(Stop(l, 1)) = 0
        /\ Index(Stop(l, 1)) = Path(l)[1]
    BY <2>1, StopsOf
  <2> QED BY <1>3, <2>2, ValueIs
<1>5. ASSUME NEW k \in 2 .. N, h[k - 1] = Value(d, f, Stop(l, k - 1))
      PROVE  h[k] = Value(d, f, Stop(l, k))
  <2>1. k \in 1 .. N /\ k - 1 \in 1 .. N /\ k # 1
    BY <1>1
  <2>2. /\ Stop(l, k) \in 1 .. NumPlaces /\ Parent(Stop(l, k)) = Stop(l, k - 1)
        /\ Index(Stop(l, k)) = Path(l)[k]
    BY <2>1, StopsOf
  <2>3. Stop(l, k - 1) \in 1 .. NumPlaces
    BY <2>1, StopsOf
  <2>4. Parent(Stop(l, k)) # 0
    BY <2>2, <2>3
  <2>5. Value(d, f, Stop(l, k)) = d.table[Value(d, f, Stop(l, k - 1))][Path(l)[k]]
    BY <2>2, <2>4, ValueIs
  <2> QED BY <1>3, <1>5, <2>5
<1> HIDE DEF N
<1>6. h[N] = Value(d, f, Stop(l, N))
  <2>1. CASE N = 1
    BY <1>4, <2>1
  <2>2. CASE N = 2
    <3>1. 2 \in 2 .. N /\ 2 - 1 = 1
      BY <2>2
    <3> QED BY <1>4, <1>5, <2>2, <3>1
  <2>3. CASE N = 3
    <3>1. 2 \in 2 .. N /\ 2 - 1 = 1 /\ 3 \in 2 .. N /\ 3 - 1 = 2
      BY <2>3
    <3>2. h[2] = Value(d, f, Stop(l, 2))
      BY <1>4, <1>5, <3>1
    <3> QED BY <1>5, <2>3, <3>1, <3>2
  <2> QED BY <1>1, <2>1, <2>2, <2>3
<1> QED BY <1>3, <1>6 DEF Leaf, N

\* s is the part of u behind the first x elements.
IsPart(s, u, x) == \A i \in 1 .. Len(s) : s[i] = u[x + i]

\* A block that is read holds the bytes of the text at its place.
LEMMA ReadIs ==
    ASSUME NEW fs \in SUBSET Files, NEW d \in Disk, NEW t, Contents(d, fs, t), NEW f \in fs,
           NEW size \in 0 .. MaxSize, d.inode[f].i_size = size,
           NEW l \in 0 .. NumLogical(d, f) - 1, NEW s, s = readBlock(d, f, l)
    PROVE  IsPart(s, t[f], l * BLKSIZE)
<1> DEFINE x == l * BLKSIZE
           len == Least(BLKSIZE, size - x)
<1>1. BLKSIZE \in Nat \ {0} /\ size \in Nat /\ size <= MaxSize /\ MaxSize \in Nat /\ f \in Files /\ l \in Nat
  <2>1. l \in Nat
    <3>1. l \in 0 .. NumLogical(d, f) - 1
      OBVIOUS
    <3> HIDE DEF NumLogical
    <3> QED BY <3>1
  <2> QED BY <2>1, Constants
<1>2. s \in Seq(Byte) /\ Len(s) = len /\ x < size /\ x \in Nat
  BY <1>1, ReadGood
<1>3. s = [k \in 1 .. len |-> d.bytes[Physical(d, f, l)][k - 1]]
  BY DEF readBlock
<1> SUFFICES ASSUME NEW i \in 1 .. Len(s) PROVE s[i] = t[f][x + i]
  BY DEF IsPart
<1>4. i \in 1 .. len
  BY <1>2
<1>5. s[i] = d.bytes[Physical(d, f, l)][i - 1]
  BY <1>3, <1>4
<1> DEFINE j == i - 1
           y == x + j
<1>6. j \in 0 .. BLKSIZE - 1 /\ y \in 0 .. size - 1 /\ y + 1 = x + i /\ y \in Nat
  <2> HIDE DEF x
  <2> QED BY <1>1, <1>2, <1>4 DEF Least
<1>a. y = x + j
  OBVIOUS
<1> HIDE DEF j, y
<1>7. y \div BLKSIZE = l /\ y % BLKSIZE = j
  BY <1>1, <1>6, <1>a, DividedBy
<1>8. /\ Leaf(l) \in 1 .. NumBlocks(d, f)
      /\ d.bytes[Value(d, f, Leaf(l))][j] = t[f][y + 1]
  <2>1. y \in 0 .. d.inode[f].i_size - 1
    BY <1>6
  <2>2. /\ Leaf(y \div BLKSIZE) \in 1 .. NumBlocks(d, f)
        /\ d.bytes[Value(d, f, Leaf(y \div BLKSIZE))][y % BLKSIZE] = t[f][y + 1]
    BY <2>1 DEF Contents
  <2> QED BY Zenon, <1>7, <2>2
<1>9. Physical(d, f, l) = Value(d, f, Leaf(l))
  <2>1. y < MaxSize
    BY <1>1, <1>6
  <2>2. y \div BLKSIZE \in LogicalRange
    BY <1>6, <2>1, LogicalOf
  <2>3. l \in LogicalRange
    BY <1>7, <2>2, Zenon
  <2> QED BY <1>1, <2>3, PhysicalIs
<1> HIDE DEF x
<1>10. s[i] = d.bytes[Physical(d, f, l)][j]
  BY <1>5 DEF j
<1> QED BY <1>6, <1>8, <1>9, <1>10, Zenon

-------------------------------------------------------------------------------
\* cat, block after block.

LEMMA Join ==
    ASSUME NEW a \in Seq(Byte), NEW b \in Seq(Byte), NEW c, c = a \o b
    PROVE  /\ c \in Seq(Byte) /\ Len(c) = Len(a) + Len(b)
           /\ \A i \in 1 .. Len(a) : c[i] = a[i]
           /\ \A i \in 1 .. Len(b) : c[Len(a) + i] = b[i]
OBVIOUS

\* The first k logical blocks of a file of size bytes.
FrontLength(k, size) == Least(k * BLKSIZE, size)
IsFront(x, k, size, u) ==
    /\ x \in Seq(Byte) /\ Len(x) = FrontLength(k, size)
    /\ \A i \in 1 .. Len(x) : x[i] = u[i]

\* The lengths, as far as the last block that has data in it.
LEMMA FrontLengths ==
    ASSUME NEW d \in Disk, NEW f \in Files, NEW size \in 0 .. MaxSize, d.inode[f].i_size = size,
           NEW n, n = NumLogical(d, f)
    PROVE  n \in Nat /\ FrontLength(0, size) = 0 /\ FrontLength(n, size) = size
<1> DEFINE q == (size + BLKSIZE - 1) \div BLKSIZE
           r == (size + BLKSIZE - 1) % BLKSIZE
           x == BLKSIZE * q
<1>1. BLKSIZE \in Nat \ {0} /\ size \in Nat /\ size + BLKSIZE - 1 \in Nat
  BY Constants
<1>2. q \in Nat /\ r \in 0 .. BLKSIZE - 1 /\ size + BLKSIZE - 1 = x + r
  BY <1>1, Division
<1>3. n = q
  BY DEF NumLogical
<1> HIDE DEF q, r
<1>4. x \in Nat /\ x = q * BLKSIZE
  BY <1>1, <1>2
<1> HIDE DEF x
<1>5. size <= x
  BY <1>1, <1>2, <1>4
<1>6. FrontLength(n, size) = Least(x, size)
  BY <1>3, <1>4 DEF FrontLength
<1>7. Least(x, size) = size
  BY <1>1, <1>4, <1>5 DEF Least
<1>8. 0 * BLKSIZE = 0 /\ Least(0, size) = 0
  BY <1>1 DEF Least
<1>9. FrontLength(0, size) = 0
  BY <1>8 DEF FrontLength
<1> QED BY <1>2, <1>3, <1>6, <1>7, <1>9

\* The next block of a file follows.
LEMMA NextLength ==
    ASSUME NEW k \in Nat, NEW size \in Nat, k * BLKSIZE < size
    PROVE  /\ FrontLength(k, size) = k * BLKSIZE
           /\ FrontLength(k + 1, size) = (k * BLKSIZE) + Least(BLKSIZE, size - (k * BLKSIZE))
<1> DEFINE x == k * BLKSIZE
           y == (k + 1) * BLKSIZE
<1>1. BLKSIZE \in Nat \ {0}
  BY Constants
<1>2. x \in Nat /\ y = x + BLKSIZE
  BY <1>1
<1>3. FrontLength(k, size) = Least(x, size) /\ FrontLength(k + 1, size) = Least(y, size)
  BY DEF FrontLength
<1>4. x < size
  OBVIOUS
<1> HIDE DEF x, y
<1>5. Least(x, size) = x /\ Least(y, size) = x + Least(BLKSIZE, size - x)
  BY <1>1, <1>2, <1>4 DEF Least
<1> QED BY <1>3, <1>5 DEF x

LEMMA CatOneMore ==
    ASSUME NEW fs \in SUBSET Files, NEW d \in Disk, NEW t, Contents(d, fs, t), NEW f \in fs,
           NEW size \in 0 .. MaxSize, d.inode[f].i_size = size, NEW k \in 0 .. NumLogical(d, f) - 1,
           NEW x, IsFront(x, k, size, t[f]), NEW r, r = x \o readBlock(d, f, k)
    PROVE  IsFront(r, k + 1, size, t[f])
<1> DEFINE s == readBlock(d, f, k)
           v == k * BLKSIZE
<1>1. k \in Nat /\ f \in Files /\ size \in Nat
  <2>1. k \in 0 .. NumLogical(d, f) - 1
    OBVIOUS
  <2> HIDE DEF NumLogical
  <2> QED BY <2>1, Constants
<1>2. s \in Seq(Byte) /\ Len(s) = Least(BLKSIZE, size - v) /\ v < size
  BY <1>1, ReadGood
<1>3. \A i \in 1 .. Len(s) : s[i] = t[f][v + i]
  <2>1. IsPart(s, t[f], v)
    BY <1>1, ReadIs
  <2> QED BY <2>1 DEF IsPart
<1>4. FrontLength(k, size) = v /\ FrontLength(k + 1, size) = v + Len(s)
  BY <1>1, <1>2, NextLength
<1>5. x \in Seq(Byte) /\ Len(x) = v /\ \A i \in 1 .. v : x[i] = t[f][i]
  BY <1>4 DEF IsFront
<1> HIDE DEF s
<1>6. r = x \o s
  BY DEF s
<1>7. /\ r \in Seq(Byte) /\ Len(r) = Len(x) + Len(s)
      /\ \A i \in 1 .. Len(x) : r[i] = x[i]
      /\ \A i \in 1 .. Len(s) : r[Len(x) + i] = s[i]
  BY <1>2, <1>5, <1>6, Join
<1> DEFINE len == Len(s)
<1>8. len \in Nat /\ v \in Nat
  <2>1. Len(s) \in Nat /\ Len(x) \in Nat
    BY <1>2, <1>5
  <2> QED BY <1>5, <2>1
<1>9. /\ Len(r) = v + len
      /\ \A i \in 1 .. v : r[i] = x[i]
      /\ \A i \in 1 .. len : r[v + i] = s[i]
  BY <1>5, <1>7
<1>10. \A i \in 1 .. len : s[i] = t[f][v + i]
  BY <1>3
<1>11. FrontLength(k + 1, size) = v + len
  BY <1>4
<1> HIDE DEF len, v
<1>12. ASSUME NEW i \in 1 .. v + len PROVE r[i] = t[f][i]
  <2>1. CASE i \in 1 .. v
    BY <1>5, <1>9, <2>1
  <2>2. CASE i \notin 1 .. v
    <3> DEFINE j == i - v
    <3>1. j \in 1 .. len /\ i = v + j
      BY <1>8, <2>2
    <3> HIDE DEF j
    <3> QED BY <1>9, <1>10, <3>1
  <2> QED BY <2>1, <2>2
<1> QED BY <1>7, <1>9, <1>11, <1>12 DEF IsFront

\* cat prints the text.
LEMMA CatIs ==
    ASSUME NEW fs \in SUBSET Files, NEW d \in Disk, NEW t, Contents(d, fs, t), NEW f \in fs,
           NEW size \in 0 .. MaxSize, d.inode[f].i_size = size, t[f] \in Seq(Byte), Len(t[f]) = size
    PROVE  cat(d, f) = t[f]
<1> DEFINE N == NumLogical(d, f)
           g == [n \in 1 .. N |-> [x \in Seq(Byte) |-> x \o readBlock(d, f, n - 1)]]
           Loop(h) == [k \in 0 .. N |-> IF k = 0 THEN <<>> ELSE h[k - 1] \o readBlock(d, f, k - 1)]
           printed == CHOOSE h : h = Loop(h)
           start == <<>>
<1>1. N \in Nat /\ FrontLength(0, size) = 0 /\ FrontLength(N, size) = size /\ f \in Files
  BY FrontLengths
<1>2. cat(d, f) = printed[N]
  BY Zenon DEF cat
<1>3. \A n \in 1 .. N : readBlock(d, f, n - 1) \in Seq(Byte)
  <2> SUFFICES ASSUME NEW n \in 1 .. N PROVE readBlock(d, f, n - 1) \in Seq(Byte)
    OBVIOUS
  <2>1. n - 1 \in 0 .. NumLogical(d, f) - 1
    <3> HIDE DEF NumLogical
    <3> QED BY <1>1
  <2> QED BY <1>1, <2>1, ReadGood
<1>4. \A n \in 0 .. N - 1 : \A x : IsFront(x, n, size, t[f]) =>
            IsFront(x \o readBlock(d, f, n), n + 1, size, t[f])
  BY CatOneMore
<1> HIDE DEF N
<1>5. \E h : h = Loop(h)
  <2>1. g \in [1 .. N -> [Seq(Byte) -> Seq(Byte)]]
    BY <1>3, Join
  <2>a. start \in Seq(Byte)
    OBVIOUS
  <2> HIDE DEF g, start
  <2>2. HasRecursion(N, Seq(Byte), start, g)
    BY <1>1, <2>1, <2>a, RecursionExists
  <2>3. PICK h \in [0 .. N -> Seq(Byte)] : h[0] = start /\ \A n \in 1 .. N : h[n] = g[n][h[n - 1]]
    BY <2>2 DEF HasRecursion
  <2>4. \A n \in 1 .. N : h[n] = h[n - 1] \o readBlock(d, f, n - 1)
    <3> SUFFICES ASSUME NEW n \in 1 .. N PROVE h[n] = h[n - 1] \o readBlock(d, f, n - 1)
      OBVIOUS
    <3>1. n - 1 \in 0 .. N
      BY <1>1
    <3>2. h[n - 1] \in Seq(Byte)
      BY <3>1
    <3>3. g[n][h[n - 1]] = h[n - 1] \o readBlock(d, f, n - 1)
      BY <3>2 DEF g
    <3> QED BY <2>3, <3>3
  <2>5. 0 \in 0 .. N /\ \A n \in 0 .. N : n = 0 \/ n \in 1 .. N
    BY <1>1
  <2>6. \A n \in 0 .. N : h[n] = IF n = 0 THEN start ELSE h[n - 1] \o readBlock(d, f, n - 1)
    BY <2>3, <2>4, <2>5
  <2>7. h = Loop(h)
    BY <2>3, <2>6 DEF start
  <2> QED BY <2>7
<1>6. printed = Loop(printed)
  BY <1>5, Zenon
<1> HIDE DEF printed
<1>7. printed[0] = <<>> /\ \A n \in 1 .. N : printed[n] = printed[n - 1] \o readBlock(d, f, n - 1)
  <2>1. N \in Nat /\ 0 \in 0 .. N
    BY <1>1
  <2>2. printed[0] = <<>>
    BY <1>6, <2>1
  <2>3. ASSUME NEW n \in 1 .. N PROVE printed[n] = printed[n - 1] \o readBlock(d, f, n - 1)
    <3>1. n \in 0 .. N /\ n # 0
      BY <2>1
    <3> QED BY <1>6, <3>1
  <2> QED BY <2>2, <2>3
<1> DEFINE T == {n \in 0 .. N : IsFront(printed[n], n, size, t[f])}
<1>8. 0 \in T
  <2>1. IsFront(<<>>, 0, size, t[f])
    BY <1>1 DEF IsFront
  <2> QED BY <1>1, <1>7, <2>1
<1>9. ASSUME NEW n \in 0 .. N - 1, n \in T PROVE n + 1 \in T
  <2>1. n + 1 \in 1 .. N /\ n + 1 \in 0 .. N /\ (n + 1) - 1 = n
    BY <1>1
  <2>2. printed[n + 1] = printed[n] \o readBlock(d, f, n)
    BY <1>7, <2>1
  <2>3. IsFront(printed[n + 1], n + 1, size, t[f])
    BY <1>4, <1>9, <2>2
  <2> QED BY <2>1, <2>3
<1> HIDE DEF T
<1>10. 0 .. N \subseteq T
  BY <1>1, <1>8, <1>9, SetInduction
<1>11. IsFront(printed[N], N, size, t[f])
  BY <1>1, <1>10 DEF T
<1> DEFINE u == printed[N]
<1>12. u \in Seq(Byte) /\ Len(u) = size /\ \A i \in 1 .. size : u[i] = t[f][i]
  BY <1>1, <1>11 DEF IsFront
<1>13. cat(d, f) = u
  BY <1>2
<1> HIDE DEF u
<1>14. u = t[f]
  BY <1>12
<1> QED BY <1>13, <1>14

-------------------------------------------------------------------------------
\* cp, block after block.

\* Where tryCopy is after k blocks of f, of size bytes, in a command that began on o.
CopyOn(o, fs, t, g, size, k, a) ==
    /\ o.used \subseteq a.disk.used
    /\ Clean(o, a.disk, fs) => /\ Kept(o, a.disk, fs, t)
                               /\ a.offset = FrontLength(k, size) \/ Stuck(a.disk, g, a.offset)

LEMMA CopyBlockOn ==
    ASSUME NEW fs \in SUBSET Files, NEW o, NEW t, NEW d \in Good, NEW f \in fs, NEW g \in fs, f # g,
           NEW size \in 0 .. MaxSize, d.inode[f].i_size = size, Len(t[f]) = size, t[g] = t[f],
           NEW k \in 0 .. NumLogical(d, f) - 1, NEW a \in Copied(d, g, size, k),
           CopyOn(o, fs, t, g, size, k, a), NEW r, r = CopyBlock(f, g, a, k)
    PROVE  CopyOn(o, fs, t, g, size, k + 1, r)
<1> DEFINE s == readBlock(a.disk, f, k)
           from == a.offset
<1>1. /\ a.disk \in Good /\ a.disk \in Disk /\ from \in Nat /\ d \in Disk /\ f \in Files /\ g \in Files
  BY DEF Copied, Rounds, Good
<1>2. /\ a.disk.inode[f].i_size = size /\ a.disk.inode[g].i_size = from
      /\ NumLogical(a.disk, f) = NumLogical(d, f) /\ k \in Nat
      /\ s \in Seq(Byte) /\ Len(s) = Least(BLKSIZE, size - (k * BLKSIZE)) /\ k * BLKSIZE < size
      /\ from + Len(s) <= size /\ from + Len(s) <= MaxSize
  BY <1>1, CopyReads
<1>3. size \in Nat /\ Len(t[g]) = size
  BY Constants
<1>4. FrontLength(k, size) = k * BLKSIZE /\ FrontLength(k + 1, size) = (k * BLKSIZE) + Len(s)
  BY <1>2, <1>3, NextLength
<1>5. /\ o.used \subseteq a.disk.used
      /\ Clean(o, a.disk, fs) => /\ Kept(o, a.disk, fs, t)
                                 /\ from = FrontLength(k, size) \/ Stuck(a.disk, g, from)
  BY DEF CopyOn
<1>6. ASSUME Clean(o, a.disk, fs), ~Stuck(a.disk, g, from)
      PROVE  from + Len(s) <= Len(t[g]) /\ \A i \in 1 .. Len(s) : s[i] = t[g][from + i]
  <2>1. Contents(a.disk, fs, t) /\ from = k * BLKSIZE
    BY <1>4, <1>5, <1>6 DEF Kept
  <2>2. k \in 0 .. NumLogical(a.disk, f) - 1
    BY <1>2
  <2>3. \A i \in 1 .. Len(s) : s[i] = t[f][(k * BLKSIZE) + i]
    <3>1. IsPart(s, t[f], k * BLKSIZE)
      BY Zenon, <1>1, <1>2, <2>1, <2>2, ReadIs
    <3> QED BY <3>1 DEF IsPart
  <2> HIDE DEF s, from
  <2>4. from + Len(s) <= Len(t[g])
    BY <1>2, <1>3
  <2>5. ASSUME NEW i \in 1 .. Len(s) PROVE s[i] = t[g][from + i]
    BY <2>1, <2>3
  <2> QED BY <2>4, <2>5
<1>7. r = writeToFile(a.disk, g, from, s)
  BY DEF CopyBlock
<1> HIDE DEF s, from
<1>8. Writing(o, a.disk, fs, t, g, from, r) /\ (r.ok = TRUE => r.left = <<>>)
  <2>1. MayWrite(o, a.disk, fs, t, g, from, s)
    BY <1>1, <1>2, <1>3, <1>5, <1>6 DEF MayWrite
  <2>2. Wrote(o, a.disk, fs, t, g, from, r)
    BY Zenon, <1>7, <2>1, WriteIs
  <2> QED BY <2>2 DEF Wrote
<1>9. r \in Round(a.disk, g, from, from + Len(s))
  BY <1>1, <1>2, <1>7, WriteGood
<1>10. r.offset + Len(r.left) = from + Len(s) /\ r.offset \in Nat /\ Len(r.left) \in Nat /\ Len(s) \in Nat
  BY <1>2, <1>9 DEF Round, Rounds
<1>11. o.used \subseteq r.disk.used /\ a.disk.used \subseteq r.disk.used
  BY <1>5, <1>8 DEF Writing
<1>12. ASSUME Clean(o, r.disk, fs)
       PROVE  /\ Kept(o, r.disk, fs, t)
              /\ r.offset = FrontLength(k + 1, size) \/ Stuck(r.disk, g, r.offset)
  <2>1. WriteOn(o, a.disk, fs, t, g, from, r) /\ Clean(o, a.disk, fs)
    BY <1>8, <1>11, <1>12, CleanBefore DEF Writing
  <2>2. /\ Kept(o, r.disk, fs, t)
        /\ r.ok # TRUE => Stuck(r.disk, g, r.offset)
        /\ Stuck(a.disk, g, from) => r.disk = a.disk /\ r.offset = from
    BY <2>1 DEF WriteOn
  <2>3. CASE r.ok # TRUE \/ Stuck(a.disk, g, from)
    BY <2>2, <2>3
  <2>4. CASE r.ok = TRUE /\ ~Stuck(a.disk, g, from)
    <3>1. Len(r.left) = 0 /\ from = k * BLKSIZE
      BY <1>4, <1>5, <1>8, <2>1, <2>4
    <3>2. r.offset = from + Len(s)
      BY <1>1, <1>10, <3>1
    <3> QED BY <1>4, <2>2, <3>1, <3>2
  <2> QED BY <2>2, <2>3, <2>4
<1> QED BY <1>11, <1>12 DEF CopyOn

\* A copy, from the disk d it begins on.
LEMMA CopyIs ==
    ASSUME NEW fs \in SUBSET Files, NEW t, NEW d \in Good, Kept(d, d, fs, t), NEW f \in fs, NEW g \in fs,
           f # g, NEW size \in 0 .. MaxSize, d.inode[f].i_size = size, d.inode[g].i_size = 0,
           Len(t[f]) = size, t[g] = t[f], NEW r, r = CopyBlocks(d, f, g)
    PROVE  d.used \subseteq r.disk.used /\ (Clean(d, r.disk, fs) => Kept(d, r.disk, fs, t))
<1> DEFINE N == NumLogical(d, f)
<1>1. N \in Nat /\ FrontLength(0, size) = 0 /\ f \in Files /\ g \in Files /\ d \in Disk
  BY FrontLengths DEF Good
<1>2. PICK h : Copying(d, f, g, size, h)
  BY <1>1, CopyLoop
<1>3. /\ h[0] = [disk |-> d, offset |-> 0, left |-> <<>>, ok |-> TRUE]
      /\ \A n \in 1 .. N : h[n] = CopyBlock(f, g, h[n - 1], n - 1)
      /\ \A n \in 0 .. N : h[n] \in Copied(d, g, size, n)
      /\ r = h[N]
  BY <1>2 DEF Copying
<1> DEFINE T == {n \in 0 .. N : CopyOn(d, fs, t, g, size, n, h[n])}
<1>4. ASSUME NEW n \in 0 .. N - 1, n \in T PROVE n + 1 \in T
  <2> HIDE DEF N
  <2>1. n + 1 \in 1 .. N /\ n \in 0 .. N /\ n + 1 \in 0 .. N /\ (n + 1) - 1 = n
    BY <1>1
  <2> DEFINE a == h[n]
             b == h[n + 1]
  <2>2. b = CopyBlock(f, g, a, n) /\ a \in Copied(d, g, size, n) /\ CopyOn(d, fs, t, g, size, n, a)
    BY <1>3, <1>4, <2>1
  <2>3. n \in 0 .. NumLogical(d, f) - 1
    BY DEF N
  <2> HIDE DEF a, b, T
  <2>4. CopyOn(d, fs, t, g, size, n + 1, b)
    BY <1>1, <2>2, <2>3, CopyBlockOn
  <2> QED BY <2>1, <2>4 DEF b, T
<1> HIDE DEF N
<1>5. 0 \in T
  <2>1. h[0].disk = d /\ h[0].offset = 0
    BY <1>3
  <2>2. CopyOn(d, fs, t, g, size, 0, h[0])
    BY <1>1, <2>1 DEF CopyOn
  <2> QED BY <1>1, <2>2
<1> HIDE DEF T
<1>6. 0 .. N \subseteq T
  BY <1>1, <1>4, <1>5, SetInduction
<1>7. CopyOn(d, fs, t, g, size, N, r)
  BY <1>1, <1>3, <1>6 DEF T
<1> QED BY <1>7 DEF CopyOn

-------------------------------------------------------------------------------
\* truncate frees the blocks of the file's places, in their order.
LEMMA OwnedIs ==
    ASSUME NEW d \in Disk, NEW f \in Files, Packed(d, f)
    PROVE  /\ DOMAIN Owned(d, f) = 1 .. NumBlocks(d, f)
           /\ \A n \in 1 .. NumBlocks(d, f) : Owned(d, f)[n] = Value(d, f, n)
           /\ ToSet(Owned(d, f)) = OwnedBy(d, f)
<1> DEFINE w == WalkOrder(d, f)
           n == NumBlocks(d, f)
           s == SubSeq(w, 1, n)
<1>1. w \in Seq(Places) /\ Len(w) = NumPlaces /\ NumPlaces \in Nat /\ n \in 0 .. NumPlaces /\ n \in Nat
  BY WalkIs, CountedIs
<1>2. Owned(d, f) = s
  BY DEF Owned
<1>3. \A m \in 1 .. n : Value(d, f, m) = w[m]
  BY DEF Value
<1>4. OwnedBy(d, f) = {Value(d, f, m) : m \in 1 .. n}
  BY DEF OwnedBy
<1> HIDE DEF w, n
<1>5. DOMAIN s = 1 .. n /\ \A m \in 1 .. n : s[m] = w[m]
  BY <1>1
<1> HIDE DEF s
<1>6. ToSet(s) = {s[m] : m \in 1 .. n}
  BY <1>5 DEF ToSet
<1>7. ToSet(s) = OwnedBy(d, f)
  BY <1>3, <1>4, <1>5, <1>6
<1> QED BY <1>2, <1>3, <1>5, <1>7 DEF n

LEMMA BdallocParts ==
    ASSUME NEW d \in Disk, NEW b, NEW r, r = bdalloc(d, b)
    PROVE  r.used = d.used \ {b} /\ r.inode = d.inode /\ r.table = d.table /\ r.bytes = d.bytes
<1>1. CASE b \in d.used
  <2>1. r = [d EXCEPT !.used = d.used \ {b}, !.free = d.free + 1]
    BY <1>1 DEF bdalloc, Release
  <2> QED BY <2>1 DEF Disk
<1>2. CASE b \notin d.used
  BY <1>2 DEF bdalloc
<1> QED BY <1>1, <1>2

\* What truncate changes.
Truncated(d, r, f) ==
    /\ r \in Good /\ r.used = d.used \ OwnedBy(d, f) /\ r.table = d.table /\ r.bytes = d.bytes
    /\ \A g \in Files : SamePlaces(d, r, g)
    /\ r.inode[f].i_size = 0
    /\ \A g \in Files : g # f => r.inode[g].i_size = d.inode[g].i_size

LEMMA TruncateIs ==
    ASSUME NEW d \in Good, NEW f \in Files, Packed(d, f), NEW r, r = truncate(d, f)
    PROVE  Truncated(d, r, f)
<1> DEFINE N == NumBlocks(d, f)
           Freed(n) == {Value(d, f, m) : m \in 1 .. n}
<1>1. d \in Disk /\ N \in Nat /\ OwnedBy(d, f) = Freed(N)
  BY CountedIs DEF Good, OwnedBy
<1>2. PICK h : Freeing(d, f, h)
  BY TruncateLoop
<1>3. /\ h[0] = d
      /\ \A n \in 1 .. N : h[n] = bdalloc(h[n - 1], Owned(d, f)[n])
      /\ \A n \in 0 .. N : h[n] \in Good /\ h[n].inode = d.inode
      /\ r = SetSize(h[N], f, 0)
  BY <1>2 DEF Freeing
<1>4. \A n \in 1 .. N : Owned(d, f)[n] = Value(d, f, n)
  BY <1>1, OwnedIs
<1> DEFINE P(n) == h[n].used = d.used \ Freed(n) /\ h[n].table = d.table /\ h[n].bytes = d.bytes
           T == {n \in 0 .. N : P(n)}
<1>5. P(0)
  BY <1>3
<1> HIDE DEF N
<1>6. ASSUME NEW n \in 0 .. N - 1, n \in T PROVE n + 1 \in T
  <2> DEFINE m == n + 1
             v == Value(d, f, m)
  <2>1. m \in 1 .. N /\ n \in 0 .. N /\ m \in 0 .. N /\ m - 1 = n /\ n \in Nat /\ m = n + 1
    BY <1>1
  <2> HIDE DEF m
  <2>2. h[m] = bdalloc(h[n], v) /\ h[n] \in Disk
    BY <1>3, <1>4, <2>1 DEF Good
  <2>3. h[n].used = d.used \ Freed(n) /\ h[n].table = d.table /\ h[n].bytes = d.bytes
    BY <1>6
  <2>4. h[m].used = h[n].used \ {v} /\ h[m].table = h[n].table /\ h[m].bytes = h[n].bytes
    BY <2>2, BdallocParts
  <2>5. \A x \in 1 .. m : x \in 1 .. n \/ x = m
    BY <2>1
  <2>6. 1 .. n \subseteq 1 .. m /\ m \in 1 .. m
    BY <2>1
  <2>7. Freed(m) = Freed(n) \cup {v}
    BY <2>5, <2>6
  <2> HIDE DEF Freed, v
  <2>8. P(m)
    BY <2>3, <2>4, <2>7
  <2> QED BY <2>1, <2>8
<1>7. 0 \in T
  BY <1>1, <1>5
<1> HIDE DEF T
<1>8. 0 .. N \subseteq T
  BY <1>1, <1>6, <1>7, SetInduction
<1>9. N \in T /\ N \in 0 .. N
  BY <1>1, <1>8
<1>10. /\ h[N].used = d.used \ Freed(N) /\ h[N].table = d.table /\ h[N].bytes = d.bytes
       /\ h[N] \in Good /\ h[N].inode = d.inode
  BY <1>3, <1>9 DEF T
<1> DEFINE e == h[N]
<1>11. Sized(e, r, f, 0)
  <2>1. e \in Good /\ r = SetSize(e, f, 0)
    BY <1>3, <1>10
  <2> HIDE DEF e
  <2>2. 0 \in Nat
    OBVIOUS
  <2>3. Sized(e, SetSize(e, f, 0), f, 0)
    BY <2>1, <2>2, SizedBySetSize
  <2> QED BY <2>1, <2>3
<1>12. /\ e.used = d.used \ OwnedBy(d, f) /\ e.table = d.table /\ e.bytes = d.bytes /\ e.inode = d.inode
  BY <1>1, <1>10
<1> HIDE DEF e, Freed
<1> QED BY <1>11, <1>12 DEF Sized, Truncated, SamePlaces

\* u is t but for the text of f.
Retexts(fs, t, f, u) ==
    /\ \A g \in fs : g # f => u[g] = t[g]
    /\ Len(u[f]) \in Nat /\ Len(u[f]) <= MaxSize

\* A file that is truncated has its blocks and no text.
LEMMA TruncateKeeps ==
    ASSUME NEW fs \in SUBSET Files, NEW t, NEW d \in Good, Shape(d, fs), Contents(d, fs, t), NEW f \in fs,
           NEW r, r = truncate(d, f), NEW u, Retexts(fs, t, f, u)
    PROVE  Kept(r, r, fs, u) /\ Truncated(d, r, f) /\ \A g \in fs : OwnedBy(r, g) = OwnedBy(d, g)
<1>0. /\ \A g \in fs : g # f => u[g] = t[g]
      /\ Len(u[f]) \in Nat /\ Len(u[f]) <= MaxSize
  BY DEF Retexts
<1>1. d \in Disk /\ f \in Files /\ \A g \in fs : g \in Files /\ Packed(d, g)
  BY DEF Good, Shape
<1>2. Truncated(d, r, f)
  BY <1>1, TruncateIs
<1>3. /\ r \in Good /\ r \in Disk /\ r.used \subseteq d.used /\ r.table = d.table /\ r.bytes = d.bytes
      /\ \A g \in Files : SamePlaces(d, r, g)
      /\ r.inode[f].i_size = 0
      /\ \A g \in Files : g # f => r.inode[g].i_size = d.inode[g].i_size
  BY <1>2 DEF Truncated, Good
<1>4. \A b \in r.used : \E g \in fs : b \in OwnedBy(d, g)
  BY <1>3 DEF Shape
<1>5. /\ Shape(r, fs)
      /\ \A g \in fs : /\ OwnedBy(r, g) = OwnedBy(d, g) /\ NumBlocks(r, g) = NumBlocks(d, g)
                       /\ \A m \in 1 .. NumPlaces : Value(r, g, m) = Value(d, g, m)
  BY <1>1, <1>3, <1>4, ShapeStays
<1>6. Contents(r, fs, u)
  <2> SUFFICES ASSUME NEW g \in fs
               PROVE  /\ r.inode[g].i_size <= Len(u[g]) /\ Len(u[g]) <= MaxSize
                      /\ \A i \in 0 .. r.inode[g].i_size - 1 :
                            /\ Leaf(i \div BLKSIZE) \in 1 .. NumBlocks(r, g)
                            /\ r.bytes[Value(r, g, Leaf(i \div BLKSIZE))][i % BLKSIZE] = u[g][i + 1]
    BY DEF Contents
  <2>1. CASE g = f
    BY <1>0, <1>3, <2>1
  <2>2. CASE g # f
    <3>1. r.inode[g].i_size = d.inode[g].i_size /\ u[g] = t[g]
      BY <1>0, <1>1, <1>3, <2>2
    <3>2. /\ d.inode[g].i_size <= Len(t[g]) /\ Len(t[g]) <= MaxSize
          /\ \A i \in 0 .. d.inode[g].i_size - 1 :
                /\ Leaf(i \div BLKSIZE) \in 1 .. NumBlocks(d, g)
                /\ d.bytes[Value(d, g, Leaf(i \div BLKSIZE))][i % BLKSIZE] = t[g][i + 1]
      BY DEF Contents
    <3>3. \A m \in 1 .. NumBlocks(d, g) : m \in 1 .. NumPlaces
      BY <1>1, CountedIs
    <3> QED BY <1>3, <1>5, <3>1, <3>2, <3>3
  <2> QED BY <2>1, <2>2
<1>7. Grown(r, r, fs)
  BY DEF Grown
<1> QED BY <1>2, <1>3, <1>5, <1>6, <1>7 DEF Kept

\* unlink of the last name leaves nothing marked that is not another file's.
LEMMA UnlinkLeaves ==
    ASSUME NEW fs \in SUBSET Files, NEW t, NEW d, Shape(d, fs), Contents(d, fs, t), NEW f \in fs,
           NEW r, Kept(r, r, fs, t) \/ (Shape(r, fs) /\ Contents(r, fs, t)), Truncated(d, r, f),
           \A g \in fs : OwnedBy(r, g) = OwnedBy(d, g)
    PROVE  Shape(r, fs \ {f}) /\ Contents(r, fs \ {f}, t)
<1>1. Shape(r, fs) /\ Contents(r, fs, t) /\ r.used = d.used \ OwnedBy(d, f)
  BY DEF Kept, Truncated
<1>2. \A b \in r.used : \E g \in fs \ {f} : b \in OwnedBy(r, g)
  BY <1>1 DEF Shape
<1>3. Apart(r, fs \ {f})
  BY <1>1 DEF Shape, Apart
<1>4. Shape(r, fs \ {f})
  BY <1>1, <1>2, <1>3 DEF Shape
<1> QED BY <1>1, <1>4 DEF Contents

-------------------------------------------------------------------------------
\* An inode that was cleared has no block.
LEMMA ClearedIs ==
    ASSUME NEW r \in Disk, NEW f \in Files, r.inode[f] = NoInode, r.table[NoBlock] = NoEntries
    PROVE  Packed(r, f) /\ NumBlocks(r, f) = 0 /\ OwnedBy(r, f) = {} /\ r.inode[f].i_size = 0
<1> DEFINE T == {n \in 0 .. NumPlaces : \A m \in 1 .. n : Value(r, f, m) = NoBlock}
<1>1. NumPlaces \in Nat
  BY PlaceNumbers
<1>2. 0 \in T
  BY <1>1
<1>3. /\ \A k \in 0 .. DIND : r.inode[f].i_block[k] = NoBlock
      /\ \A k \in 0 .. PER - 1 : r.table[NoBlock][k] = NoBlock
      /\ r.inode[f].i_blocks = 0 /\ r.inode[f].i_size = 0
  BY DEF NoInode, NoEntries
<1>4. ASSUME NEW n \in 0 .. NumPlaces - 1, n \in T PROVE n + 1 \in T
  <2>1. n \in Nat /\ n + 1 \in 0 .. NumPlaces /\ n + 1 \in 1 .. NumPlaces
        /\ \A m \in 1 .. n : Value(r, f, m) = NoBlock
    BY <1>1, <1>4
  <2>2. /\ Parent(n + 1) \in 0 .. (n + 1) - 1
        /\ Index(n + 1) \in IF Parent(n + 1) = 0 THEN 0 .. DIND ELSE 0 .. PER - 1
    BY <2>1, ParentBelow
  <2>3. Value(r, f, n + 1) = NoBlock
    <3>1. CASE Parent(n + 1) = 0
      BY <1>3, <2>1, <2>2, <3>1, ValueIs
    <3>2. CASE Parent(n + 1) # 0
      <4>1. Parent(n + 1) \in 1 .. n
        BY <2>1, <2>2, <3>2
      <4>2. Value(r, f, Parent(n + 1)) = NoBlock
        BY <2>1, <4>1
      <4> QED BY <1>3, <2>1, <2>2, <3>2, <4>2, ValueIs
    <3> QED BY <3>1, <3>2
  <2>4. \A m \in 1 .. n + 1 : m = n + 1 \/ m \in 1 .. n
    BY <2>1
  <2> QED BY <2>1, <2>3, <2>4
<1> HIDE DEF T
<1>5. 0 .. NumPlaces \subseteq T
  BY <1>1, <1>2, <1>4, SetInduction
<1>6. NumPlaces \in T
  BY <1>1, <1>5
<1>7. \A m \in 1 .. NumPlaces : Value(r, f, m) = NoBlock
  BY <1>6 DEF T
<1>8. NumBlocks(r, f) = 0
  BY <1>3 DEF NumBlocks
<1>9. Packed(r, f)
  BY <1>1, <1>3, <1>7, <1>8 DEF Packed
<1>10. OwnedBy(r, f) = {}
  BY <1>8 DEF OwnedBy
<1> QED BY <1>3, <1>8, <1>9, <1>10

\* u says what t says, of the bytes there are.
Agrees(d, fs, t, u) ==
    \A g \in fs : /\ d.inode[g].i_size \in Nat /\ d.inode[g].i_size <= Len(u[g]) /\ Len(u[g]) <= MaxSize
                  /\ \A i \in 1 .. d.inode[g].i_size : u[g][i] = t[g][i]

LEMMA SameContents ==
    ASSUME NEW fs, NEW d, NEW t, Contents(d, fs, t), NEW u, Agrees(d, fs, t, u)
    PROVE  Contents(d, fs, u)
<1> SUFFICES ASSUME NEW g \in fs
             PROVE  /\ d.inode[g].i_size <= Len(u[g]) /\ Len(u[g]) <= MaxSize
                    /\ \A i \in 0 .. d.inode[g].i_size - 1 :
                        /\ Leaf(i \div BLKSIZE) \in 1 .. NumBlocks(d, g)
                        /\ d.bytes[Value(d, g, Leaf(i \div BLKSIZE))][i % BLKSIZE] = u[g][i + 1]
  BY DEF Contents
<1> DEFINE size == d.inode[g].i_size
<1>1. size \in Nat /\ size <= Len(u[g]) /\ Len(u[g]) <= MaxSize /\ \A i \in 1 .. size : u[g][i] = t[g][i]
  BY DEF Agrees
<1>2. \A i \in 0 .. size - 1 :
        /\ Leaf(i \div BLKSIZE) \in 1 .. NumBlocks(d, g)
        /\ d.bytes[Value(d, g, Leaf(i \div BLKSIZE))][i % BLKSIZE] = t[g][i + 1]
  BY DEF Contents
<1> HIDE DEF size
<1>3. \A i \in 0 .. size - 1 : i + 1 \in 1 .. size
  BY <1>1
<1>4. \A i \in 0 .. size - 1 :
        /\ Leaf(i \div BLKSIZE) \in 1 .. NumBlocks(d, g)
        /\ d.bytes[Value(d, g, Leaf(i \div BLKSIZE))][i % BLKSIZE] = u[g][i + 1]
  BY <1>1, <1>2, <1>3
<1> QED BY <1>1, <1>4 DEF size

\* t goes on where text ends.
Extends(t, fs) ==
    \A g \in fs : /\ Len(text[g]) <= Len(t[g]) /\ Len(t[g]) <= MaxSize
                  /\ \A i \in 1 .. Len(text[g]) : t[g][i] = text[g][i]

\* open_file, of a file that is there or is not.
LEMMA OpenedKeeps ==
    ASSUME IInv, Shape(disk, files), Contents(disk, files, text), NEW f \in Files,
           NEW fs, fs = files \cup {f}, NEW b, b = Opened(f), NEW t, Extends(t, fs)
    PROVE  /\ Kept(b, b, fs, t) /\ b.used = disk.used /\ fs \in SUBSET Files
           /\ \A g \in files : OwnedBy(b, g) = OwnedBy(disk, g)
           /\ f \notin files => OwnedBy(b, f) = {}
<1>1. /\ disk \in Good /\ disk \in Disk /\ files \in SUBSET Files /\ text \in [Files -> Seq(Byte)]
      /\ \A g \in Files : /\ disk.inode[g].i_size = Len(text[g]) /\ Len(text[g]) \in Nat
                          /\ g \notin files => Len(text[g]) = 0
  <2>1. /\ disk \in Good /\ disk \in Disk /\ files \in SUBSET Files /\ text \in [Files -> Seq(Byte)]
    BY DEF IInv, TypeOK, CountersAgree, Good
  <2> QED BY <2>1 DEF IInv, Sizes
<1>2. b \in Good /\ b \in Disk /\ SameSizes(disk, b) /\ fs \in SUBSET Files
  BY <1>1, OpenedGood DEF Good
<1>3. Grown(b, b, fs)
  BY DEF Grown
<1>4. CASE f \in files
  <2>1. b = disk /\ fs = files
    BY <1>4 DEF Opened
  <2>2. Contents(b, fs, t)
    <3>1. \A g \in files : /\ disk.inode[g].i_size \in Nat /\ disk.inode[g].i_size <= Len(t[g])
                           /\ Len(t[g]) <= MaxSize
                           /\ \A i \in 1 .. disk.inode[g].i_size : t[g][i] = text[g][i]
      BY <1>1, <2>1 DEF Extends
    <3>2. Agrees(disk, files, text, t)
      BY <3>1 DEF Agrees
    <3>3. Contents(disk, files, t)
      BY <3>2, SameContents
    <3> QED BY <2>1, <3>3
  <2> QED BY <1>2, <1>3, <1>4, <2>1, <2>2 DEF Kept
<1>5. CASE f \notin files
  <2>1. b = SetInode(disk, f, NoInode) /\ NoInode \in Inode
    BY <1>5 DEF Opened, NoInode, Inode
  <2>2. SameBits(disk, b) /\ b.table = disk.table /\ b.bytes = disk.bytes
        /\ b.inode = [disk.inode EXCEPT ![f] = NoInode]
    BY <1>1, <2>1, SetInodeParts
  <2>3. /\ b.used = disk.used /\ b.inode[f] = NoInode
        /\ \A g \in Files : g # f => b.inode[g] = disk.inode[g]
    BY <1>1, <2>2, DiskTypes DEF SameBits
  <2>4. b.table[NoBlock] = NoEntries
    BY <2>2 DEF Shape
  <2>5. Packed(b, f) /\ NumBlocks(b, f) = 0 /\ OwnedBy(b, f) = {}
    BY <1>2, <2>3, <2>4, ClearedIs
  <2>6. \A g \in files : g # f /\ g \in Files /\ SamePlaces(disk, b, g)
    BY <1>1, <1>5, <2>2, <2>3 DEF SamePlaces
  <2>7. \A x \in b.used : \E g \in files : x \in OwnedBy(disk, g)
    BY <2>3 DEF Shape
  <2>8. /\ Shape(b, files)
        /\ \A g \in files : /\ OwnedBy(b, g) = OwnedBy(disk, g) /\ NumBlocks(b, g) = NumBlocks(disk, g)
                            /\ \A m \in 1 .. NumPlaces : Value(b, g, m) = Value(disk, g, m)
    BY <1>1, <1>2, <2>2, <2>6, <2>7, ShapeStays
  <2>9. Apart(b, fs)
    <3> SUFFICES ASSUME NEW g \in fs, NEW h \in fs, NEW x \in 1 .. NumBlocks(b, g), NEW y \in 1 .. NumBlocks(b, h),
                        Value(b, g, x) = Value(b, h, y)
                 PROVE  g = h /\ x = y
      BY DEF Apart
    <3>1. 1 .. NumBlocks(b, f) = {}
      BY <2>5
    <3>2. g # f /\ h # f
      BY <3>1
    <3>3. g \in files /\ h \in files
      BY <3>2
    <3> QED BY <2>8, <3>3 DEF Shape, Apart
  <2>10. Shape(b, fs)
    BY <2>4, <2>5, <2>8, <2>9 DEF Shape
  <2>11. Contents(b, fs, t)
    <3> SUFFICES ASSUME NEW g \in fs
                 PROVE  /\ b.inode[g].i_size <= Len(t[g]) /\ Len(t[g]) <= MaxSize
                        /\ \A i \in 0 .. b.inode[g].i_size - 1 :
                            /\ Leaf(i \div BLKSIZE) \in 1 .. NumBlocks(b, g)
                            /\ b.bytes[Value(b, g, Leaf(i \div BLKSIZE))][i % BLKSIZE] = t[g][i + 1]
      BY DEF Contents
    <3>1. b.inode[g].i_size = Len(text[g]) /\ Len(text[g]) \in Nat
      BY <1>1, <1>2 DEF SameSizes
    <3>2. Len(text[g]) <= Len(t[g]) /\ Len(t[g]) <= MaxSize
      BY DEF Extends
    <3>3. CASE g = f
      <4>1. Len(text[g]) = 0
        BY <1>1, <1>5, <3>3
      <4> QED BY <3>1, <3>2, <4>1
    <3>4. CASE g # f
      <4>1. g \in files
        BY <3>4
      <4>2. \A i \in 0 .. Len(text[g]) - 1 :
                /\ Leaf(i \div BLKSIZE) \in 1 .. NumBlocks(disk, g)
                /\ disk.bytes[Value(disk, g, Leaf(i \div BLKSIZE))][i % BLKSIZE] = text[g][i + 1]
        BY <1>1, <4>1 DEF Contents
      <4>3. \A m \in 1 .. NumBlocks(disk, g) : m \in 1 .. NumPlaces
        BY <1>1, <4>1, CountedIs DEF Shape
      <4>4. \A i \in 0 .. Len(text[g]) - 1 : t[g][i + 1] = text[g][i + 1]
        <5>1. \A i \in 0 .. Len(text[g]) - 1 : i + 1 \in 1 .. Len(text[g])
          BY <3>1
        <5> QED BY <5>1 DEF Extends
      <4> QED BY <2>2, <2>8, <3>1, <3>2, <4>1, <4>2, <4>3, <4>4
    <3> QED BY <3>3, <3>4
  <2> QED BY <1>2, <1>3, <1>5, <2>3, <2>5, <2>8, <2>10, <2>11 DEF Kept
<1> QED BY <1>4, <1>5

-------------------------------------------------------------------------------
\* No command is carried out on a disk where files share blocks.
BInv == intact => Shape(disk, files) /\ Contents(disk, files, text)

\* What a command leaves that began to write on the disk o.
Settled(o) ==
    /\ o \in Disk /\ o.used \subseteq disk'.used
    /\ \A g \in files' : Packed(o, g)
    /\ intact' = \A g \in files' : ToSet(Owned(o, g)) \cap (disk'.used \ o.used) = {}
    /\ Clean(o, disk', files') => Kept(o, disk', files', text')

LEMMA SettledSound ==
    ASSUME IInv', NEW o, Settled(o)
    PROVE  BInv'
<1>1. files' \subseteq Files
  BY DEF IInv, TypeOK
<1>2. \A g \in files' : ToSet(Owned(o, g)) = OwnedBy(o, g)
  BY <1>1, OwnedIs DEF Settled
<1>3. ASSUME intact' PROVE Clean(o, disk', files')
  BY <1>2, <1>3 DEF Settled, Clean
<1>4. ASSUME intact' PROVE Shape(disk', files') /\ Contents(disk', files', text')
  BY <1>3, <1>4 DEF Settled, Kept
<1> QED BY <1>4 DEF BInv

\* Every block of the files is marked.
Holds(d, fs) == \A g \in fs : OwnedBy(d, g) \subseteq d.used

LEMMA MarkedIs ==
    ASSUME NEW d \in Disk, NEW fs \in SUBSET Files, \A g \in fs : Packed(d, g)
    PROVE  Marked(d, fs) <=> Holds(d, fs)
<1>1. \A g \in fs : ToSet(Owned(d, g)) = OwnedBy(d, g)
  BY OwnedIs
<1> QED BY <1>1 DEF Marked, Holds

\* Where every block was marked when the command began to write, every block is when it ends.
LEMMA SettledMarked ==
    ASSUME IInv', NEW o, Settled(o), Holds(o, files')
    PROVE  Marked(disk', files')
<1>1. files' \in SUBSET Files /\ disk' \in Disk
  BY DEF IInv, TypeOK
<1>2. Clean(o, disk', files')
  BY DEF Holds, Clean
<1>3. Kept(o, disk', files', text') /\ o.used \subseteq disk'.used
  BY <1>2 DEF Settled
<1>4. Shape(disk', files') /\ Grown(o, disk', files')
  BY <1>3 DEF Kept
<1>5. \A g \in files' : Packed(disk', g)
  BY <1>4 DEF Shape
<1>6. Holds(disk', files')
  BY <1>3, <1>4 DEF Holds, Grown
<1> QED BY <1>1, <1>5, <1>6, MarkedIs

\* The files after a command say the front of t.
LEMMA SettledText ==
    ASSUME IInv', NEW o, NEW t, Kept(o, disk', files', t),
           \A g \in files' : \A i \in 1 .. Len(text'[g]) : text'[g][i] = t[g][i]
    PROVE  Kept(o, disk', files', text')
<1>1. \A g \in files' : /\ disk'.inode[g].i_size = Len(text'[g]) /\ disk'.inode[g].i_size \in Nat
                        /\ disk'.inode[g].i_size <= MaxSize
  <2>1. \A g \in files' : g \in Files
    BY DEF IInv, TypeOK
  <2>2. disk' \in Disk
    BY DEF IInv, TypeOK
  <2> QED BY <2>1, <2>2, InodeTypes DEF IInv, Sizes
<1>2. Agrees(disk', files', t, text')
  BY <1>1 DEF Agrees
<1>3. Contents(disk', files', t)
  BY DEF Kept
<1>4. Contents(disk', files', text')
  BY <1>2, <1>3, SameContents
<1> QED BY <1>4 DEF Kept

-------------------------------------------------------------------------------
\* A file that is opened holds what it held, and more room for what is appended.
LEMMA AppendToSettles ==
    ASSUME IInv, IInv', BInv, NEW f \in Files, NEW n \in WriteSizes, AppendTo(f, n)
    PROVE  Settled(Opened(f)) /\ (Marked(disk, files) => Holds(Opened(f), files'))
<1> DEFINE b == Opened(f)
           fs == files \cup {f}
           size == b.inode[f].i_size
           s == Input(f, size, n)
           w == writeToFile(b, f, size, s)
           t == [text EXCEPT ![f] = text[f] \o s]
<1>1. /\ intact /\ size + n <= MaxSize /\ Settle(b, w.disk, fs)
      /\ text' = [text EXCEPT ![f] = text[f] \o Written(s, w)]
  BY DEF AppendTo
<1>2. /\ disk' = w.disk /\ files' = fs
      /\ intact' = \A g \in fs : ToSet(Owned(b, g)) \cap (disk'.used \ b.used) = {}
  BY <1>1 DEF Settle
<1>3. Shape(disk, files) /\ Contents(disk, files, text)
  BY <1>1 DEF BInv
<1>4. /\ b \in Good /\ SameSizes(disk, b) /\ size = Len(text[f]) /\ size \in Nat /\ n \in Nat
      /\ text \in [Files -> Seq(Byte)] /\ files \in SUBSET Files /\ MaxSize \in Nat /\ disk \in Disk
      /\ \A g \in Files : Len(text[g]) \in Nat /\ Len(text[g]) <= MaxSize
  <2>1. b \in Good /\ SameSizes(disk, b)
    BY OpenedGood
  <2>2. text \in [Files -> Seq(Byte)] /\ files \in SUBSET Files /\ disk \in Disk
    BY DEF IInv, TypeOK
  <2>3. n \in Nat /\ MaxSize \in Nat
    BY Constants
  <2>4. \A g \in Files : disk.inode[g].i_size = Len(text[g]) /\ disk.inode[g].i_size <= MaxSize
    BY DEF IInv, Sizes
  <2> HIDE DEF b
  <2> QED BY <2>1, <2>2, <2>3, <2>4 DEF SameSizes
<1>5. b = Opened(f) /\ fs = files \cup {f} /\ f \in fs
  OBVIOUS
<1> HIDE DEF b, fs
<1>6. s \in Seq(Byte) /\ Len(s) = n
  BY <1>1, <1>4, InputBytes
<1>7. w = writeToFile(b, f, size, s)
  OBVIOUS
<1>8. /\ t[f] = text[f] \o s
      /\ \A g \in Files : g # f => t[g] = text[g]
  BY <1>4
<1> HIDE DEF s, w, t
<1> DEFINE z == t[f]
<1>9. /\ z \in Seq(Byte) /\ Len(z) = size + n
      /\ \A i \in 1 .. size : z[i] = text[f][i]
      /\ \A i \in 1 .. n : z[size + i] = s[i]
  <2> DEFINE c == text[f]
  <2>1. c \in Seq(Byte) /\ z = c \o s /\ size = Len(c)
    BY <1>4, <1>8
  <2> HIDE DEF z, c, size
  <2>2. /\ z \in Seq(Byte) /\ Len(z) = Len(c) + Len(s)
        /\ \A i \in 1 .. Len(c) : z[i] = c[i]
        /\ \A i \in 1 .. Len(s) : z[Len(c) + i] = s[i]
    BY <1>6, <2>1, Join
  <2> QED BY <1>6, <2>1, <2>2 DEF c
<1>10. Extends(t, fs)
  <2> SUFFICES ASSUME NEW g \in fs
               PROVE  /\ Len(text[g]) <= Len(t[g]) /\ Len(t[g]) <= MaxSize
                      /\ \A i \in 1 .. Len(text[g]) : t[g][i] = text[g][i]
    BY DEF Extends
  <2>1. CASE g = f
    <3>1. Len(z) <= MaxSize /\ Len(text[f]) <= Len(z)
      BY <1>1, <1>4, <1>9
    <3> QED BY <1>4, <1>9, <2>1, <3>1
  <2>2. CASE g # f
    <3>1. g \in Files
      BY <1>4, <1>5
    <3> QED BY <1>4, <1>8, <2>2, <3>1
  <2> QED BY <2>1, <2>2
<1>11. /\ Kept(b, b, fs, t) /\ b.used = disk.used /\ fs \in SUBSET Files
       /\ \A g \in files : OwnedBy(b, g) = OwnedBy(disk, g)
       /\ f \notin files => OwnedBy(b, f) = {}
  BY <1>3, <1>5, <1>10, OpenedKeeps
<1>12. MayWrite(b, b, fs, t, f, size, s)
  <2>1. Len(t[f]) = size + n /\ \A i \in 1 .. n : s[i] = t[f][size + i]
    BY <1>9
  <2>2. size + Len(s) <= MaxSize /\ size + Len(s) <= Len(t[f]) /\ Len(t[f]) \in Nat
    BY <1>1, <1>4, <1>6, <2>1
  <2>3. b.inode[f].i_size = size
    OBVIOUS
  <2> HIDE DEF size
  <2> QED BY <1>4, <1>6, <1>11, <2>1, <2>2, <2>3 DEF MayWrite
<1> HIDE DEF size
<1>13. Wrote(b, b, fs, t, f, size, w)
  BY <1>5, <1>7, <1>11, <1>12, WriteIs
<1>14. b.used \subseteq disk'.used /\ (Clean(b, disk', fs) => Kept(b, disk', fs, t))
  BY <1>2, <1>13 DEF Wrote, Writing, WriteOn
<1>15. \A g \in fs : \A i \in 1 .. Len(text'[g]) : text'[g][i] = t[g][i]
  <2> DEFINE e == Written(s, w)
             y == text'[f]
  <2>1. y = text[f] \o e
    BY <1>1, <1>4
  <2>2. Len(y) <= MaxSize /\ y \in Seq(Byte)
    <3>1. text' \in [Files -> Seq(Byte)] /\ Len(y) = disk'.inode[f].i_size /\ disk'.inode[f].i_size <= MaxSize
      BY DEF IInv, TypeOK, Sizes
    <3> QED BY <3>1
  <2>3. ASSUME NEW g \in fs, g # f PROVE text'[g] = t[g]
    <3>1. g \in Files
      BY <1>4, <1>5, <2>3
    <3> QED BY <1>1, <1>4, <1>8, <2>3, <3>1
  <2>4. e = SubSeq(s, 1, Len(s) - Len(w.left))
    BY DEF Written
  <2> DEFINE m == Len(s) - Len(w.left)
  <2>5. m \in 0 .. Len(s)
    <3>1. w \in Round(b, f, size, size + n)
      <4>1. b.inode[f].i_size = size
        BY DEF size
      <4> QED BY <1>1, <1>4, <1>6, <1>7, <4>1, WriteGood
    <3>2. w.offset \in Nat /\ w.offset + Len(w.left) = size + n /\ size <= w.offset /\ Len(w.left) \in Nat
      BY <3>1 DEF Round, Rounds
    <3> QED BY <1>4, <1>6, <3>2
  <2>6. e \in Seq(Byte) /\ Len(e) = m /\ \A i \in 1 .. m : e[i] = s[i]
    <3> HIDE DEF m
    <3>1. e = SubSeq(s, 1, m)
      BY <2>4 DEF m
    <3> HIDE DEF e
    <3> QED BY <1>6, <2>5, <3>1
  <2> HIDE DEF e, m, y
  <2>7. /\ Len(y) = size + m
        /\ \A i \in 1 .. size : y[i] = text[f][i]
        /\ \A i \in 1 .. m : y[size + i] = e[i]
    <3> DEFINE c == text[f]
    <3>1. c \in Seq(Byte) /\ y = c \o e /\ size = Len(c)
      BY <1>4, <2>1
    <3> HIDE DEF c
    <3>2. /\ Len(y) = Len(c) + Len(e)
          /\ \A i \in 1 .. Len(c) : y[i] = c[i]
          /\ \A i \in 1 .. Len(e) : y[Len(c) + i] = e[i]
      BY <2>6, <3>1, Join
    <3> QED BY <2>6, <3>1, <3>2 DEF c
  <2>8. \A i \in 1 .. Len(y) : y[i] = z[i]
    <3> SUFFICES ASSUME NEW i \in 1 .. Len(y) PROVE y[i] = z[i]
      OBVIOUS
    <3>1. m \in 0 .. n /\ size \in Nat /\ n \in Nat /\ m \in Nat
      BY <1>4, <1>6, <2>5
    <3>2. CASE i <= size
      <4>1. i \in 1 .. size
        BY <2>7, <3>1, <3>2
      <4> QED BY <1>9, <2>7, <4>1
    <3>3. CASE ~(i <= size)
      <4>1. i - size \in 1 .. m /\ i - size \in 1 .. n /\ size + (i - size) = i
        BY <2>7, <3>1, <3>3
      <4> DEFINE k == i - size
      <4>2. k \in 1 .. m /\ k \in 1 .. n /\ size + k = i
        BY <4>1
      <4> HIDE DEF k
      <4>3. y[size + k] = e[k] /\ e[k] = s[k] /\ z[size + k] = s[k]
        BY <1>9, <2>6, <2>7, <4>2
      <4> QED BY <4>2, <4>3
    <3> QED BY <3>2, <3>3
  <2> QED BY <2>3, <2>8 DEF y, z
<1>16. Clean(b, disk', files') => Kept(b, disk', files', text')
  BY <1>2, <1>14, <1>15, SettledText
<1>17. b \in Disk /\ \A g \in files' : Packed(b, g)
  BY <1>2, <1>4, <1>11 DEF Good, Kept, Shape
<1>18. Settled(b)
  BY <1>2, <1>14, <1>16, <1>17 DEF Settled
<1>19. ASSUME Marked(disk, files) PROVE Holds(b, files')
  <2>1. \A g \in files : Packed(disk, g)
    BY <1>3 DEF Shape
  <2>2. Holds(disk, files)
    BY <1>4, <1>19, <2>1, MarkedIs
  <2>3. \A g \in files' : g \in files \/ (g = f /\ f \notin files)
    BY <1>2, <1>5
  <2> QED BY <1>11, <2>2, <2>3 DEF Holds
<1> QED BY <1>18, <1>19 DEF b

-------------------------------------------------------------------------------
\* A file that is opened for writing keeps its places and loses its bytes.
LEMMA RewriteBegins ==
    ASSUME IInv, BInv, intact, NEW f \in Files, NEW fs, fs = files \cup {f},
           NEW d, d = truncate(Opened(f), f), NEW u, Retexts(fs, text, f, u)
    PROVE  /\ fs \in SUBSET Files /\ d \in Good /\ d \in Disk /\ d.inode[f].i_size = 0
           /\ \A g \in Files : g # f => d.inode[g].i_size = Len(text[g])
           /\ Kept(d, d, fs, u)
           /\ Marked(disk, files) /\ ~Rewrites(f) => Holds(d, fs)
<1> DEFINE b == Opened(f)
<1>1. /\ text \in [Files -> Seq(Byte)] /\ files \in SUBSET Files /\ disk \in Disk /\ MaxSize \in Nat
      /\ \A g \in Files : /\ Len(text[g]) \in Nat /\ Len(text[g]) <= MaxSize
                          /\ disk.inode[g].i_size = Len(text[g])
  <2>1. text \in [Files -> Seq(Byte)] /\ files \in SUBSET Files /\ disk \in Disk
    BY DEF IInv, TypeOK
  <2>2. \A g \in Files : disk.inode[g].i_size = Len(text[g]) /\ disk.inode[g].i_size <= MaxSize
    BY DEF IInv, Sizes
  <2> QED BY <2>1, <2>2, Constants
<1>2. Shape(disk, files) /\ Contents(disk, files, text)
  BY DEF BInv
<1>3. b = Opened(f) /\ d = truncate(b, f)
  OBVIOUS
<1> HIDE DEF b
<1>4. Extends(text, fs)
  <2>1. \A g \in fs : g \in Files
    BY <1>1
  <2> QED BY <1>1, <2>1 DEF Extends
<1>5. /\ Kept(b, b, fs, text) /\ b.used = disk.used /\ fs \in SUBSET Files
      /\ \A g \in files : OwnedBy(b, g) = OwnedBy(disk, g)
      /\ f \notin files => OwnedBy(b, f) = {}
  BY <1>2, <1>3, <1>4, OpenedKeeps
<1>6. b \in Good /\ Shape(b, fs) /\ Contents(b, fs, text) /\ SameSizes(disk, b) /\ f \in fs
  BY <1>3, <1>5, OpenedGood DEF Kept
<1>8. Kept(d, d, fs, u) /\ Truncated(b, d, f) /\ \A g \in fs : OwnedBy(d, g) = OwnedBy(b, g)
  BY <1>3, <1>5, <1>6, TruncateKeeps
<1>9. /\ d \in Good /\ d \in Disk /\ d.inode[f].i_size = 0 /\ d.used = b.used \ OwnedBy(b, f)
      /\ \A g \in Files : g # f => d.inode[g].i_size = Len(text[g])
  BY <1>1, <1>6, <1>8 DEF Truncated, SameSizes, Good
<1>10. ASSUME Marked(disk, files), ~Rewrites(f) PROVE Holds(d, fs)
  <2>1. \A g \in files : Packed(disk, g)
    BY <1>2 DEF Shape
  <2>2. Holds(disk, files)
    BY <1>1, <1>10, <2>1, MarkedIs
  <2>3. OwnedBy(b, f) = {}
    <3>1. CASE f \in files
      <4>1. disk.inode[f].i_blocks \in Nat
        BY <1>1, InodeTypes
      <4>2. disk.inode[f].i_blocks = 0
        BY <1>10, <3>1, <4>1 DEF Rewrites
      <4>3. NumBlocks(disk, f) = 0
        BY <4>2 DEF NumBlocks
      <4>4. OwnedBy(disk, f) = {}
        BY <4>3 DEF OwnedBy
      <4> QED BY <1>5, <3>1, <4>4
    <3>2. CASE f \notin files
      BY <1>5, <3>2
    <3> QED BY <3>1, <3>2
  <2>4. d.used = disk.used
    BY <1>5, <1>9, <2>3
  <2>5. \A g \in fs : g \in files \/ g = f
    OBVIOUS
  <2> QED BY <1>5, <1>8, <2>2, <2>3, <2>4, <2>5 DEF Holds
<1> QED BY <1>5, <1>8, <1>9, <1>10

LEMMA WriteSettles ==
    ASSUME IInv, IInv', BInv, NEW f \in Files, NEW n \in WriteSizes, Write(f, n)
    PROVE  \E o : Settled(o) /\ (Marked(disk, files) /\ ~Rewrites(f) => Holds(o, files'))
<1> DEFINE d == truncate(Opened(f), f)
           fs == files \cup {f}
           s == Input(f, 0, n)
           w == writeToFile(d, f, 0, s)
           u == [text EXCEPT ![f] = s]
<1>1. intact /\ Settle(d, w.disk, fs) /\ text' = [text EXCEPT ![f] = Written(s, w)]
  BY DEF Write
<1>2. /\ disk' = w.disk /\ files' = fs
      /\ intact' = \A g \in fs : ToSet(Owned(d, g)) \cap (disk'.used \ d.used) = {}
  BY <1>1 DEF Settle
<1>3. n \in Nat /\ MaxSize \in Nat /\ 0 + n <= MaxSize /\ 0 \in Nat
  BY Constants
<1>4. s \in Seq(Byte) /\ Len(s) = n
  BY <1>3, InputBytes
<1>5. /\ d = truncate(Opened(f), f) /\ fs = files \cup {f} /\ f \in fs /\ w = writeToFile(d, f, 0, s)
  OBVIOUS
<1> HIDE DEF d, fs, s, w
<1>6. text \in [Files -> Seq(Byte)] /\ files \in SUBSET Files
  BY DEF IInv, TypeOK
<1>7. u[f] = s /\ \A g \in Files : g # f => u[g] = text[g]
  BY <1>6
<1> HIDE DEF u
<1>8. \A g \in fs : g \in Files
  BY <1>5, <1>6
<1>9. Retexts(fs, text, f, u)
  BY <1>3, <1>4, <1>7, <1>8 DEF Retexts
<1>10. /\ fs \in SUBSET Files /\ d \in Good /\ d \in Disk /\ d.inode[f].i_size = 0
       /\ Kept(d, d, fs, u)
       /\ Marked(disk, files) /\ ~Rewrites(f) => Holds(d, fs)
  BY <1>1, <1>5, <1>9, RewriteBegins
<1>11. MayWrite(d, d, fs, u, f, 0, s)
  <2>1. Len(u[f]) = n /\ \A i \in 1 .. n : s[i] = u[f][0 + i]
    BY <1>3, <1>4, <1>7
  <2>2. 0 + Len(s) <= MaxSize /\ 0 + Len(s) <= Len(u[f]) /\ Len(u[f]) \in Nat
    BY <1>3, <1>4, <2>1
  <2> QED BY <1>3, <1>4, <1>10, <2>1, <2>2 DEF MayWrite
<1>12. Wrote(d, d, fs, u, f, 0, w)
  BY <1>5, <1>10, <1>11, WriteIs
<1>13. d.used \subseteq disk'.used /\ (Clean(d, disk', fs) => Kept(d, disk', fs, u))
  BY <1>2, <1>12 DEF Wrote, Writing, WriteOn
<1>14. \A g \in fs : \A i \in 1 .. Len(text'[g]) : text'[g][i] = u[g][i]
  <2> DEFINE m == Len(s) - Len(w.left)
             e == SubSeq(s, 1, m)
  <2>1. ASSUME NEW g \in fs, g # f PROVE text'[g] = u[g]
    BY <1>1, <1>6, <1>7, <1>8, <2>1
  <2>2. text'[f] = e
    BY <1>1, <1>6 DEF Written
  <2>3. m \in 0 .. Len(s)
    <3>1. w \in Round(d, f, 0, 0 + n)
      BY <1>3, <1>4, <1>5, <1>10, WriteGood
    <3>2. w.offset \in Nat /\ w.offset + Len(w.left) = 0 + n /\ 0 <= w.offset /\ Len(w.left) \in Nat
      BY <3>1 DEF Round, Rounds
    <3> QED BY <1>3, <1>4, <3>2
  <2> HIDE DEF m
  <2>4. Len(e) = m /\ \A i \in 1 .. m : e[i] = s[i]
    BY <1>4, <2>3
  <2> HIDE DEF e
  <2>5. \A i \in 1 .. Len(text'[f]) : text'[f][i] = u[f][i]
    BY <1>7, <2>2, <2>4
  <2> QED BY <2>1, <2>5
<1>15. Clean(d, disk', files') => Kept(d, disk', files', text')
  BY <1>2, <1>13, <1>14, SettledText
<1>16. \A g \in files' : Packed(d, g)
  BY <1>2, <1>10 DEF Kept, Shape
<1>17. Settled(d)
  BY <1>2, <1>10, <1>13, <1>15, <1>16 DEF Settled
<1> QED BY <1>2, <1>10, <1>17

LEMMA CopySettles ==
    ASSUME IInv, IInv', BInv, NEW f \in Files, NEW g \in Files, Copy(f, g)
    PROVE  \E o : Settled(o) /\ (Marked(disk, files) /\ ~Rewrites(g) => Holds(o, files'))
<1> DEFINE d == truncate(Opened(g), g)
           fs == files \cup {g}
           w == CopyBlocks(d, f, g)
           u == [text EXCEPT ![g] = text[f]]
           size == Len(text[f])
<1>1. /\ intact /\ f \in files /\ f # g /\ Settle(d, w.disk, fs)
      /\ text' = [text EXCEPT ![g] = SubSeq(text[f], 1, w.offset)]
  BY DEF Copy
<1>2. /\ disk' = w.disk /\ files' = fs
      /\ intact' = \A h \in fs : ToSet(Owned(d, h)) \cap (disk'.used \ d.used) = {}
  BY <1>1 DEF Settle
<1>3. d = truncate(Opened(g), g) /\ fs = files \cup {g} /\ g \in fs /\ f \in fs /\ w = CopyBlocks(d, f, g)
  BY <1>1
<1> HIDE DEF d, fs, w
<1>4. /\ text \in [Files -> Seq(Byte)] /\ files \in SUBSET Files /\ text[f] \in Seq(Byte)
      /\ size \in 0 .. MaxSize /\ size \in Nat /\ size <= MaxSize
  <2>1. text \in [Files -> Seq(Byte)] /\ files \in SUBSET Files
    BY DEF IInv, TypeOK
  <2>2. disk.inode[f].i_size = size /\ disk.inode[f].i_size <= MaxSize
    BY DEF IInv, Sizes
  <2>3. text[f] \in Seq(Byte) /\ MaxSize \in Nat
    BY <2>1, Constants
  <2>4. size \in Nat
    BY <2>3
  <2> QED BY <2>1, <2>2, <2>3, <2>4
<1>5. u[g] = text[f] /\ \A h \in Files : h # g => u[h] = text[h]
  BY <1>4
<1>6. u[f] = text[f]
  BY <1>1, <1>5
<1> HIDE DEF u
<1>7. \A h \in fs : h \in Files
  BY <1>3, <1>4
<1>8. Retexts(fs, text, g, u)
  BY <1>4, <1>5, <1>7 DEF Retexts
<1>9. /\ fs \in SUBSET Files /\ d \in Good /\ d \in Disk /\ d.inode[g].i_size = 0
      /\ \A h \in Files : h # g => d.inode[h].i_size = Len(text[h])
      /\ Kept(d, d, fs, u)
      /\ Marked(disk, files) /\ ~Rewrites(g) => Holds(d, fs)
  <2>1. intact
    BY <1>1
  <2>2. d = truncate(Opened(g), g) /\ fs = files \cup {g}
    BY <1>3
  <2> QED BY <1>8, <2>1, <2>2, RewriteBegins
<1>10. d.inode[f].i_size = size /\ Len(u[f]) = size /\ u[g] = u[f]
  BY <1>1, <1>5, <1>6, <1>9
<1>11. w.offset \in 0 .. size
  <2>1. /\ w.disk \in Good /\ w.offset \in Nat /\ w.offset <= size
        /\ SizeBecomes(d, w.disk, g, w.offset)
    <3> HIDE DEF size
    <3> QED BY <1>1, <1>3, <1>4, <1>9, <1>10, CopyGood
  <2> QED BY <1>4, <2>1
<1> HIDE DEF size
<1>12. d.used \subseteq disk'.used /\ (Clean(d, disk', fs) => Kept(d, disk', fs, u))
  BY <1>1, <1>2, <1>3, <1>4, <1>9, <1>10, CopyIs
<1>13. \A h \in fs : \A i \in 1 .. Len(text'[h]) : text'[h][i] = u[h][i]
  <2> DEFINE m == w.offset
             c == text[f]
             e == SubSeq(c, 1, m)
  <2>1. ASSUME NEW h \in fs, h # g PROVE text'[h] = u[h]
    BY <1>1, <1>4, <1>5, <1>7, <2>1
  <2>2. text'[g] = e
    BY <1>1, <1>4
  <2>3. c \in Seq(Byte) /\ m \in 0 .. Len(c) /\ u[g] = c
    BY <1>4, <1>5, <1>11 DEF size
  <2> HIDE DEF m, c
  <2>4. Len(e) = m /\ \A i \in 1 .. m : e[i] = c[i]
    BY <2>3
  <2> HIDE DEF e
  <2>5. \A i \in 1 .. Len(text'[g]) : text'[g][i] = u[g][i]
    BY <2>2, <2>3, <2>4
  <2> QED BY <2>1, <2>5
<1>14. Clean(d, disk', files') => Kept(d, disk', files', text')
  BY <1>2, <1>12, <1>13, SettledText
<1>15. \A h \in files' : Packed(d, h)
  BY <1>2, <1>9 DEF Kept, Shape
<1>16. Settled(d)
  BY <1>2, <1>9, <1>12, <1>14, <1>15 DEF Settled
<1> QED BY <1>2, <1>9, <1>16

\* unlink frees the blocks of one file and of no other.
LEMMA UnlinkSettles ==
    ASSUME IInv, IInv', BInv, NEW f \in Files, Unlink(f)
    PROVE  \E o : Settled(o) /\ (Marked(disk, files) => Holds(o, files'))
<1> DEFINE d == truncate(disk, f)
           fs == files \ {f}
<1>1. /\ intact /\ f \in files /\ Settle(d, d, fs) /\ text' = [text EXCEPT ![f] = <<>>]
  BY DEF Unlink
<1>2. /\ disk' = d /\ files' = fs
      /\ intact' = \A g \in fs : ToSet(Owned(d, g)) \cap (d.used \ d.used) = {}
  BY <1>1 DEF Settle
<1>3. d = truncate(disk, f) /\ fs = files \ {f}
  OBVIOUS
<1> HIDE DEF d, fs
<1>4. /\ Shape(disk, files) /\ Contents(disk, files, text) /\ disk \in Good /\ disk \in Disk
      /\ files \in SUBSET Files /\ text \in [Files -> Seq(Byte)] /\ MaxSize \in Nat
  <2>1. disk \in Good /\ disk \in Disk /\ files \in SUBSET Files /\ text \in [Files -> Seq(Byte)]
    BY DEF IInv, TypeOK, CountersAgree, Good
  <2> QED BY <1>1, <2>1, Constants DEF BInv
<1>5. Len(text[f]) \in Nat /\ Len(text[f]) <= MaxSize
  <2>1. disk.inode[f].i_size = Len(text[f]) /\ disk.inode[f].i_size <= MaxSize
    BY DEF IInv, Sizes
  <2> QED BY <1>4, <2>1
<1>6. Kept(d, d, files, text) /\ Truncated(disk, d, f) /\ \A g \in files : OwnedBy(d, g) = OwnedBy(disk, g)
  <2>1. \A g \in files : g # f => text[g] = text[g]
    OBVIOUS
  <2>2. Retexts(files, text, f, text)
    BY <1>5, <2>1 DEF Retexts
  <2>3. f \in files
    BY <1>1
  <2>4. d = truncate(disk, f) /\ disk \in Good /\ files \in SUBSET Files
        /\ Shape(disk, files) /\ Contents(disk, files, text)
    BY <1>3, <1>4
  <2> QED BY <2>2, <2>3, <2>4, TruncateKeeps
<1>7. Shape(d, fs) /\ Contents(d, fs, text)
  BY <1>1, <1>3, <1>4, <1>6, UnlinkLeaves
<1>8. Kept(d, d, fs, text)
  BY <1>6, <1>7 DEF Kept, Grown
<1>9. \A g \in fs : g \in files /\ g \in Files /\ g # f
  BY <1>3, <1>4
<1>10. \A g \in fs : \A i \in 1 .. Len(text'[g]) : text'[g][i] = text[g][i]
  BY <1>1, <1>4, <1>9
<1>11. Kept(d, disk', files', text')
  BY <1>2, <1>8, <1>10, SettledText
<1>12. d \in Disk /\ \A g \in files' : Packed(d, g)
  BY <1>2, <1>7, <1>8 DEF Kept, Shape, Good
<1>13. Settled(d)
  BY <1>2, <1>11, <1>12 DEF Settled
<1>14. ASSUME Marked(disk, files) PROVE Holds(d, files')
  <2>1. \A g \in files : Packed(disk, g)
    BY <1>4 DEF Shape
  <2>2. Holds(disk, files)
    BY <1>4, <1>14, <2>1, MarkedIs
  <2>3. d.used = disk.used \ OwnedBy(disk, f)
    BY <1>6 DEF Truncated
  <2>4. ASSUME NEW g \in fs, NEW x \in OwnedBy(disk, g) PROVE x \notin OwnedBy(disk, f)
    <3>1. SUFFICES ASSUME x \in OwnedBy(disk, f) PROVE FALSE
      OBVIOUS
    <3>2. PICK m \in 1 .. NumBlocks(disk, g) : x = Value(disk, g, m)
      BY <2>4 DEF OwnedBy
    <3>3. PICK n \in 1 .. NumBlocks(disk, f) : x = Value(disk, f, n)
      BY <3>1 DEF OwnedBy
    <3>4. Apart(disk, files) /\ g \in files /\ g # f
      BY <1>4, <1>9 DEF Shape
    <3>5. \A p \in 1 .. NumBlocks(disk, g), q \in 1 .. NumBlocks(disk, f) :
            Value(disk, g, p) = Value(disk, f, q) => g = f /\ p = q
      BY <1>1, <3>4 DEF Apart
    <3> QED BY <3>2, <3>3, <3>4, <3>5
  <2> QED BY <1>2, <1>6, <1>9, <2>2, <2>3, <2>4 DEF Holds
<1> QED BY <1>13, <1>14

-------------------------------------------------------------------------------
LEMMA BlocksInit == Init => BInv
<1> SUFFICES ASSUME Init PROVE Shape(disk, files) /\ Contents(disk, files, text)
  BY DEF BInv
<1>1. files = {} /\ disk.used = {} /\ disk.table = [b \in 0 .. NBLOCKS |-> NoEntries]
  BY DEF Init
<1>2. disk.table[NoBlock] = NoEntries
  <2>1. NoBlock \in 0 .. NBLOCKS
    BY Constants DEF NoBlock
  <2> QED BY <1>1, <2>1
<1> QED BY <1>1, <1>2 DEF Shape, Apart, Contents

LEMMA BlocksNext == IInv /\ IInv' /\ BInv /\ [Next]_vars => BInv'
<1> SUFFICES ASSUME IInv, IInv', BInv, [Next]_vars PROVE BInv'
  OBVIOUS
<1>1. CASE \E f \in Files, n \in WriteSizes : AppendTo(f, n)
  BY <1>1, AppendToSettles, SettledSound
<1>2. CASE \E f \in Files, n \in WriteSizes : Write(f, n)
  BY <1>2, WriteSettles, SettledSound
<1>3. CASE \E f, g \in Files : Copy(f, g)
  BY <1>3, CopySettles, SettledSound
<1>4. CASE \E f \in Files : Unlink(f)
  BY <1>4, UnlinkSettles, SettledSound
<1>5. CASE UNCHANGED vars
  BY <1>5 DEF vars, BInv
<1> QED BY <1>1, <1>2, <1>3, <1>4, <1>5 DEF Next

\* On a disk with the invariants the blocks of the files are apart, marked ones are a file's,
\* and every file reads back.
LEMMA WhatIsKept ==
    ASSUME IInv, BInv
    PROVE  ReadBack /\ NothingLeaks /\ PlacesApart
<1> SUFFICES ASSUME intact
             PROVE  /\ \A f \in files : cat(disk, f) = text[f]
                    /\ disk.used \subseteq UNION {ToSet(Owned(disk, f)) : f \in files}
                    /\ \A f \in files : IsInjective(Owned(disk, f))
                    /\ \A f, g \in files : f # g => ToSet(Owned(disk, f)) \cap ToSet(Owned(disk, g)) = {}
  BY DEF ReadBack, NothingLeaks, PlacesApart
<1>1. /\ disk \in Disk /\ files \in SUBSET Files /\ text \in [Files -> Seq(Byte)]
      /\ Shape(disk, files) /\ Contents(disk, files, text)
  BY DEF IInv, TypeOK, BInv
<1>2. /\ \A f \in files : /\ f \in Files /\ Packed(disk, f) /\ DOMAIN Owned(disk, f) = 1 .. NumBlocks(disk, f)
                          /\ \A n \in 1 .. NumBlocks(disk, f) : Owned(disk, f)[n] = Value(disk, f, n)
                          /\ ToSet(Owned(disk, f)) = OwnedBy(disk, f)
      /\ Apart(disk, files)
      /\ \A b \in disk.used : \E f \in files : b \in OwnedBy(disk, f)
  <2>1. /\ \A f \in files : f \in Files /\ Packed(disk, f)
        /\ Apart(disk, files)
        /\ \A b \in disk.used : \E f \in files : b \in OwnedBy(disk, f)
    BY <1>1 DEF Shape
  <2> QED BY <1>1, <2>1, OwnedIs
<1>3. ASSUME NEW f \in files PROVE cat(disk, f) = text[f]
  <2> DEFINE size == Len(text[f])
  <2>1. f \in Files /\ text[f] \in Seq(Byte) /\ size \in Nat /\ MaxSize \in Nat
    BY <1>1, Constants
  <2>2. disk.inode[f].i_size = size /\ disk.inode[f].i_size <= MaxSize
    BY <2>1 DEF IInv, Sizes
  <2>3. size \in 0 .. MaxSize /\ Len(text[f]) = size
    BY <2>1, <2>2
  <2> HIDE DEF size
  <2> QED BY <1>1, <2>1, <2>2, <2>3, CatIs
<1>4. disk.used \subseteq UNION {ToSet(Owned(disk, f)) : f \in files}
  BY <1>2
<1>5. ASSUME NEW f \in files PROVE IsInjective(Owned(disk, f))
  <2>1. \A m, n \in 1 .. NumBlocks(disk, f) : Owned(disk, f)[m] = Owned(disk, f)[n] => m = n
    BY <1>2 DEF Apart
  <2>2. DOMAIN Owned(disk, f) = 1 .. NumBlocks(disk, f)
    BY <1>2
  <2> DEFINE s == Owned(disk, f)
             N == NumBlocks(disk, f)
  <2>3. DOMAIN s = 1 .. N /\ \A m, n \in 1 .. N : s[m] = s[n] => m = n
    BY <2>1, <2>2
  <2> HIDE DEF s, N
  <2>4. IsInjective(s)
    BY <2>3 DEF IsInjective
  <2> QED BY <2>4 DEF s
<1>6. ASSUME NEW f \in files, NEW g \in files, f # g
      PROVE  ToSet(Owned(disk, f)) \cap ToSet(Owned(disk, g)) = {}
  <2>1. ASSUME NEW x \in OwnedBy(disk, f), x \in OwnedBy(disk, g) PROVE FALSE
    <3>1. PICK m \in 1 .. NumBlocks(disk, f) : x = Value(disk, f, m)
      BY DEF OwnedBy
    <3>2. PICK n \in 1 .. NumBlocks(disk, g) : x = Value(disk, g, n)
      BY <2>1 DEF OwnedBy
    <3>3. \A p \in 1 .. NumBlocks(disk, f), q \in 1 .. NumBlocks(disk, g) :
            Value(disk, f, p) = Value(disk, g, q) => f = g /\ p = q
      BY <1>2 DEF Apart
    <3> QED BY <1>6, <3>1, <3>2, <3>3
  <2> QED BY <1>2, <2>1
<1> QED BY <1>3, <1>4, <1>5, <1>6

LEMMA StepUnmarks ==
    IInv /\ IInv' /\ BInv /\ [Next]_vars =>
        [Marked(disk, files) /\ ~Marked(disk', files') =>
            \E f \in Files :
                /\ Rewrites(f)
                /\ \/ \E n \in WriteSizes : Write(f, n)
                   \/ \E g \in Files : Copy(g, f)]_vars
<1> SUFFICES ASSUME IInv, IInv', BInv, [Next]_vars, Marked(disk, files), ~Marked(disk', files'), ~UNCHANGED vars
             PROVE  \E f \in Files :
                        /\ Rewrites(f)
                        /\ \/ \E n \in WriteSizes : Write(f, n)
                           \/ \E g \in Files : Copy(g, f)
  OBVIOUS
<1>1. \A o : Settled(o) => ~Holds(o, files')
  BY SettledMarked
<1>2. CASE \E f \in Files, n \in WriteSizes : AppendTo(f, n)
  BY <1>1, <1>2, AppendToSettles
<1>3. CASE \E f \in Files, n \in WriteSizes : Write(f, n)
  <2>1. PICK f \in Files, n \in WriteSizes : Write(f, n)
    BY <1>3
  <2>2. Rewrites(f)
    BY <1>1, <2>1, WriteSettles
  <2> QED BY <2>1, <2>2
<1>4. CASE \E g, f \in Files : Copy(g, f)
  <2>1. PICK g \in Files, f \in Files : Copy(g, f)
    BY <1>4
  <2>2. Rewrites(f)
    BY <1>1, <2>1, CopySettles
  <2> QED BY <2>1, <2>2
<1>5. CASE \E f \in Files : Unlink(f)
  BY <1>1, <1>5, UnlinkSettles
<1> QED BY <1>2, <1>3, <1>4, <1>5 DEF Next

\* For as long as no command was given a block that a file has, the blocks of every file are
\* the first places of its i_block[] and its tables, no block is at two places, none is marked
\* for nothing, and the bytes at the places are those that were written.
THEOREM BlocksAlways == Spec => []BInv
<1>1. Init => IInv /\ BInv
  BY InitHolds, BlocksInit
<1>2. IInv /\ BInv /\ [Next]_vars => (IInv /\ BInv)'
  BY NextKeeps, BlocksNext
<1> QED BY <1>1, <1>2, PTL DEF Spec

\* What is written is what cat prints, of every file, across direct, indirect and double
\* indirect blocks, after writes that met a full disk and in copies (write_cp.c:20-152).
THEOREM ReadBackAlways == Spec => []ReadBack
<1>1. IInv /\ BInv => ReadBack
  BY WhatIsKept
<1> QED BY <1>1, AlwaysSound, BlocksAlways, PTL

\* A command that stops at a full disk leaves no block marked that truncate would not find
\* (open_close.c:165-229).
THEOREM NothingLeaksAlways == Spec => []NothingLeaks
<1>1. IInv /\ BInv => NothingLeaks
  BY WhatIsKept
<1> QED BY <1>1, AlwaysSound, BlocksAlways, PTL

\* No block is at two places of the files (util.c:386-414, open_close.c:165-229).
THEOREM PlacesApartAlways == Spec => []PlacesApart
<1>1. IInv /\ BInv => PlacesApart
  BY WhatIsKept
<1> QED BY <1>1, AlwaysSound, BlocksAlways, PTL

\* Only write and cp over a file with blocks make a block free that a file still has: truncate
\* leaves i_block[] and i_blocks as they are (open_close.c:165-229).
THEOREM OnlyRewritesUnmarkAlways == Spec => OnlyRewritesUnmark
<1> DEFINE Act == [Marked(disk, files) /\ ~Marked(disk', files') =>
                      \E f \in Files :
                          /\ Rewrites(f)
                          /\ \/ \E n \in WriteSizes : Write(f, n)
                             \/ \E g \in Files : Copy(g, f)]_vars
<1>1. IInv /\ IInv' /\ BInv /\ [Next]_vars => Act
  BY StepUnmarks
<1> QED BY <1>1, AlwaysSound, BlocksAlways, PTL DEF Spec, OnlyRewritesUnmark
===============================================================================
