------------------------------- MODULE FileBlocks -------------------------------
(***************************************************************************)
(* The data of regular files of level-3: the block bitmap and its counters *)
(* (balloc, bdalloc), the direct, indirect and double indirect blocks of   *)
(* an inode (writeToFile, readFromFile, truncate) and the commands that    *)
(* read and write files: write, append, cp, cat, and unlink of the last    *)
(* link.  Every one of them opens the files it uses and closes them again, *)
(* so no file is open between two commands.                                *)
(*                                                                         *)
(* A byte is the pair of the file and the position it was first written    *)
(* to, so that a byte that turns up somewhere else is told apart.          *)
(***************************************************************************)
EXTENDS Integers, FiniteSets, SequencesExt

CONSTANTS
    Files,          \* the inodes of regular files
    NDIRECT,        \* direct entries of i_block[] (12)
    PER,            \* entries of an indirect block (256)
    BLKSIZE,        \* bytes in a block (1024)
    NBLOCKS,        \* s_blocks_count
    Zero,           \* the byte a block is cleared with
    WriteSizes,     \* how many bytes a write or append command has
    MaxSize         \* bound on i_size

ASSUME FileAssumption ==
    /\ {NDIRECT, PER, BLKSIZE, NBLOCKS} \subseteq Nat \ {0}
    /\ MaxSize \in Nat /\ MaxSize <= BLKSIZE * (NDIRECT + PER + PER * PER)
    /\ WriteSizes \subseteq 1 .. MaxSize

VARIABLES
    disk,       \* the file system: see Disk
    files,      \* the files that have a name
    text,       \* what was written to every file, as a sequence of bytes
    intact      \* no command was given a block that a file has

vars == <<disk, files, text, intact>>

Blocks == 1 .. NBLOCKS
NoBlock == 0
IND == NDIRECT              \* i_block[12]
DIND == NDIRECT + 1         \* i_block[13]

Byte == (Files \X (0 .. MaxSize - 1)) \cup {Zero}
Table == [0 .. PER - 1 -> Blocks \cup {NoBlock}]
Inode == [i_block : [0 .. DIND -> Blocks \cup {NoBlock}], i_blocks : Nat, i_size : Nat]

\* used is the block bitmap, free the counters of the superblock and the group
\* descriptor; a block has a view as a table of block numbers and one as bytes.
\* Block 0, the boot block, is read through entries that are 0.
Disk == [used : SUBSET Blocks, free : Int, inode : [Files -> Inode],
         table : [0 .. NBLOCKS -> Table],
         bytes : [0 .. NBLOCKS -> [0 .. BLKSIZE - 1 -> Byte]]]

NoEntries == [k \in 0 .. PER - 1 |-> NoBlock]
\* Seeded bug: memset clears one byte too many.
NoBytesTooLong == [k \in 0 .. BLKSIZE |-> Zero]
NoBytes == [k \in 0 .. BLKSIZE - 1 |-> Zero]

Full(d) == d.used = Blocks

\* Assignments to an INODE and its fields, and to a block.
SetInode(d, f, node) == [d EXCEPT !.inode = [d.inode EXCEPT ![f] = node]]
SetBlock(d, f, k, b) ==
    SetInode(d, f, [d.inode[f] EXCEPT !.i_block = [d.inode[f].i_block EXCEPT ![k] = b]])
SetCount(d, f, n) == SetInode(d, f, [d.inode[f] EXCEPT !.i_blocks = n])
SetSize(d, f, n) == SetInode(d, f, [d.inode[f] EXCEPT !.i_size = n])
SetTable(d, at, entries) == [d EXCEPT !.table = [d.table EXCEPT ![at] = entries]]
SetBytes(d, at, bytes) == [d EXCEPT !.bytes = [d.bytes EXCEPT ![at] = bytes]]

\* The bit of a block and the counters.
Use(d, b) == [d EXCEPT !.used = d.used \cup {b}, !.free = d.free - 1]
Release(d, b) == [d EXCEPT !.used = d.used \ {b}, !.free = d.free + 1]

FreeBlock(d) == CHOOSE x \in Blocks \ d.used : \A y \in Blocks \ d.used : x <= y

\* balloc: the first free block, cleared; the caller has seen to it there is one.
balloc(d) == SetBytes(SetTable(Use(d, FreeBlock(d)), FreeBlock(d), NoEntries), FreeBlock(d), NoBytes)

\* Seeded bug: the counters go up without a look at the bit.
bdallocUnchecked(d, b) == Release(d, b)

\* bdalloc: a block whose bit is clear already is left alone, counters included.
bdalloc(d, b) == IF b \in d.used THEN Release(d, b) ELSE d

\* The entries that lead to a logical block: in i_block[], then in each table.
Path(l) ==
    IF l < NDIRECT THEN <<l>>
    ELSE IF l < NDIRECT + PER THEN <<IND, l - NDIRECT>>
    ELSE <<DIND, (l - NDIRECT - PER) \div PER, (l - NDIRECT - PER) % PER>>

\* The block that holds logical block l, as readFromFile finds it.
Physical(d, f, l) ==
    LET path == Path(l)
        found[k \in 1 .. Len(path)] ==
            IF k = 1 THEN d.inode[f].i_block[path[1]] ELSE d.table[found[k - 1]][path[k]]
    IN  found[Len(path)]

\* at is the table that is followed, NoBlock for i_block[] of the inode itself.
Entry(d, f, at, k) == IF at = NoBlock THEN d.inode[f].i_block[k] ELSE d.table[at][k]
SetEntry(d, f, at, k, b) ==
    IF at = NoBlock THEN SetBlock(d, f, k, b)
                    ELSE SetTable(d, at, [d.table[at] EXCEPT ![k] = b])

\* Seeded bug: the first indirect block is not counted in i_blocks.
ExtendUncounted(d, f, at, k) ==
    LET grown == SetEntry(balloc(d), f, at, k, FreeBlock(d))
    IN  IF at = NoBlock /\ k = IND THEN grown ELSE SetCount(grown, f, grown.inode[f].i_blocks + 2)

\* A new block for an entry, counted in i_blocks.
Extend(d, f, at, k) ==
    LET grown == SetEntry(balloc(d), f, at, k, FreeBlock(d))
    IN  SetCount(grown, f, grown.inode[f].i_blocks + 2)

\* One level of writeToFile: an entry that is 0 gets a new block; ok turns FALSE when the
\* disk is full.
Descend(f, a, k) ==
    LET b == Entry(a.disk, f, a.at, k) IN
    IF ~a.ok THEN a
    ELSE IF b # NoBlock THEN [disk |-> a.disk, at |-> b, ok |-> TRUE]
    ELSE IF Full(a.disk) THEN [disk |-> a.disk, at |-> a.at, ok |-> FALSE]
    ELSE [disk |-> Extend(a.disk, f, a.at, k), at |-> FreeBlock(a.disk), ok |-> TRUE]

Locate(d, f, l) ==
    LET path == Path(l)
        level[k \in 0 .. Len(path)] ==
            IF k = 0 THEN [disk |-> d, at |-> NoBlock, ok |-> TRUE]
            ELSE Descend(f, level[k - 1], path[k])
    IN  level[Len(path)]

Least(m, n) == IF m <= n THEN m ELSE n
Most(m, n) == IF m <= n THEN n ELSE m

\* The bytes of a block with the first n of s from start on.
Overlay(block, start, n, s) ==
    [k \in 0 .. BLKSIZE - 1 |-> IF k \in start .. start + n - 1 THEN s[k - start + 1] ELSE block[k]]

\* The n bytes that fit in the block at the offset are written there.
Put(f, a, d, at, n) ==
    LET filled == SetBytes(d, at, Overlay(d.bytes[at], a.offset % BLKSIZE, n, a.left))
    IN  [disk |-> SetSize(filled, f, Most(d.inode[f].i_size, a.offset + n)),
         offset |-> a.offset + n, left |-> SubSeq(a.left, n + 1, Len(a.left)), ok |-> TRUE]

\* One round of the loop of writeToFile.
WriteRound(f, a) ==
    LET to == Locate(a.disk, f, a.offset \div BLKSIZE) IN
    IF a.left = <<>> \/ ~a.ok THEN a
    ELSE IF ~to.ok THEN [disk |-> to.disk, offset |-> a.offset, left |-> a.left, ok |-> FALSE]
    ELSE Put(f, a, to.disk, to.at, Least(BLKSIZE - (a.offset % BLKSIZE), Len(a.left)))

\* writeToFile: left is what could not be written.
writeToFile(d, f, offset, s) ==
    LET round[i \in 0 .. Len(s)] ==
            IF i = 0 THEN [disk |-> d, offset |-> offset, left |-> s, ok |-> TRUE]
            ELSE WriteRound(f, round[i - 1])
    IN  round[Len(s)]

\* Seeded bug: availableBytes is left out of the minimum.
readBlockWhole(d, f, l) ==
    [k \in 1 .. BLKSIZE |-> d.bytes[Physical(d, f, l)][k - 1]]

\* readFromFile, for at most a block from the start of a block, as cat and cp ask.
readBlock(d, f, l) ==
    LET n == Least(BLKSIZE, d.inode[f].i_size - l * BLKSIZE)
    IN  [k \in 1 .. n |-> d.bytes[Physical(d, f, l)][k - 1]]

\* The logical blocks a file has data in.
NumLogical(d, f) == (d.inode[f].i_size + BLKSIZE - 1) \div BLKSIZE

\* What cat prints, block after block.
cat(d, f) ==
    LET printed[k \in 0 .. NumLogical(d, f)] ==
            IF k = 0 THEN <<>> ELSE printed[k - 1] \o readBlock(d, f, k - 1)
    IN  printed[NumLogical(d, f)]

\* The entries of the table in block b, and b itself in front.
WithEntries(d, b) == <<b>> \o [k \in 1 .. PER |-> d.table[b][k - 1]]

\* The tables that the table in block b leads to, each with its entries.
WithTables(d, b) ==
    LET walk[k \in 0 .. PER] ==
            IF k = 0 THEN <<b>> ELSE walk[k - 1] \o WithEntries(d, d.table[b][k - 1])
    IN  walk[PER]

\* The order in which truncate goes through the blocks of a file.
WalkOrder(d, f) ==
    LET i_block == d.inode[f].i_block
    IN  [k \in 1 .. NDIRECT |-> i_block[k - 1]]
        \o WithEntries(d, i_block[IND])
        \o WithTables(d, i_block[DIND])

\* i_blocks tells truncate how many blocks to free.
NumBlocks(d, f) == d.inode[f].i_blocks \div 2
Owned(d, f) == SubSeq(WalkOrder(d, f), 1, NumBlocks(d, f))

\* truncate: i_block[] and i_blocks stay as they are.
truncate(d, f) ==
    LET owned == Owned(d, f)
        freed[k \in 0 .. NumBlocks(d, f)] ==
            IF k = 0 THEN d ELSE bdalloc(freed[k - 1], owned[k])
    IN  SetSize(freed[NumBlocks(d, f)], f, 0)

NoInode == [i_block |-> [k \in 0 .. DIND |-> NoBlock], i_blocks |-> 0, i_size |-> 0]

\* Seeded bug: createFile does not clear the inode it was given.
OpenedUncleared(f) == disk

\* The part of open_file that matters here: a missing file is created.
Opened(f) == IF f \in files THEN disk ELSE SetInode(disk, f, NoInode)

-------------------------------------------------------------------------------
Init ==
    /\ disk = [used |-> {}, free |-> NBLOCKS, inode |-> [f \in Files |-> NoInode],
               table |-> [b \in 0 .. NBLOCKS |-> NoEntries],
               bytes |-> [b \in 0 .. NBLOCKS |-> NoBytes]]
    /\ files = {}
    /\ text = [f \in Files |-> <<>>]
    /\ intact = TRUE

\* After a command that began to write on the disk before: what becomes of a block that balloc
\* gave away although a file has it is not modelled.
Settle(before, d, fs) ==
    /\ disk' = d
    /\ files' = fs
    /\ intact' = \A f \in fs : ToSet(Owned(before, f)) \cap (d.used \ before.used) = {}

\* The n bytes a command writes to f from the given position on.
Input(f, from, n) == [i \in 1 .. n |-> <<f, from + i - 1>>]

\* A write that stops early has written the front of its bytes.
Written(s, w) == SubSeq(s, 1, Len(s) - Len(w.left))

\* append: open_file(APPEND_MODE), tryWrite, close_file.
AppendTo(f, n) ==
    LET d == Opened(f)
        size == d.inode[f].i_size
        s == Input(f, size, n)
        w == writeToFile(d, f, size, s)
    IN  /\ intact
        /\ size + n <= MaxSize
        /\ Settle(d, w.disk, files \cup {f})
        /\ text' = [text EXCEPT ![f] = @ \o Written(s, w)]

\* write: open_file(WRITE_MODE) truncates the file.
Write(f, n) ==
    LET d == truncate(Opened(f), f)
        s == Input(f, 0, n)
        w == writeToFile(d, f, 0, s)
    IN  /\ intact
        /\ Settle(d, w.disk, files \cup {f})
        /\ text' = [text EXCEPT ![f] = Written(s, w)]

\* tryCopy: block after block is read from f and written to g, whether the write
\* before it failed or not.  Opening f itself for writing is refused.
CopyBlock(f, g, a, l) == writeToFile(a.disk, g, a.offset, readBlock(a.disk, f, l))

CopyBlocks(d, f, g) ==
    LET copied[k \in 0 .. NumLogical(d, f)] ==
            IF k = 0 THEN [disk |-> d, offset |-> 0, left |-> <<>>, ok |-> TRUE]
            ELSE CopyBlock(f, g, copied[k - 1], k - 1)
    IN  copied[NumLogical(d, f)]

Copy(f, g) ==
    LET d == truncate(Opened(g), g)
        w == CopyBlocks(d, f, g)
    IN  /\ intact
        /\ f \in files /\ f # g
        /\ Settle(d, w.disk, files \cup {g})
        /\ text' = [text EXCEPT ![g] = SubSeq(text[f], 1, w.offset)]

\* tryUnlink of the last name: freeInodeAndBlocks.
Unlink(f) ==
    LET d == truncate(disk, f)
    IN  /\ intact
        /\ f \in files
        /\ Settle(d, d, files \ {f})
        /\ text' = [text EXCEPT ![f] = <<>>]

Next ==
    \/ \E f \in Files, n \in WriteSizes : AppendTo(f, n) \/ Write(f, n)
    \/ \E f, g \in Files : Copy(f, g)
    \/ \E f \in Files : Unlink(f)

Spec == Init /\ [][Next]_vars

-------------------------------------------------------------------------------
TypeOK ==
    /\ disk \in Disk
    /\ files \subseteq Files
    /\ text \in [Files -> Seq(Byte)]
    /\ intact \in BOOLEAN

\* The counters of free blocks agree with the bitmap, whatever is freed twice
\* (util.c:416-463).
CountersAgree == disk.free = Cardinality(Blocks \ disk.used)

\* cat prints what was written, for as long as no two files share a block: across
\* direct, indirect and double indirect blocks, after writes that met a full disk,
\* in files that were written over, and in copies (write_cp.c:20-152).
ReadBack == intact => \A f \in files : cat(disk, f) = text[f]

\* Every block marked in the bitmap is a block of some file: a command that stops
\* at a full disk leaves no block behind that truncate would not find, the tables
\* without entries included (open_close.c:165-229).
NothingLeaks == intact => disk.used \subseteq UNION {ToSet(Owned(disk, f)) : f \in files}

Marked(d, fs) == \A f \in fs : ToSet(Owned(d, f)) \subseteq d.used

Rewrites(f) == f \in files /\ disk.inode[f].i_blocks > 0

\* Only a command that opens a file with blocks for writing makes a block free that
\* still belongs to a file; append, cp to a new file and unlink never do.
OnlyRewritesUnmark ==
    [][Marked(disk, files) /\ ~Marked(disk', files') =>
        \E f \in Files :
            /\ Rewrites(f)
            /\ \/ \E n \in WriteSizes : Write(f, n)
               \/ \E g \in Files : Copy(g, f)]_vars
===============================================================================
