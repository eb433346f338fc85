-------------------------------- MODULE DirBlock --------------------------------
(***************************************************************************)
(* The data blocks of one directory of level-3: search (util.c), enter_name*)
(* (mkdir_creat.c) and removeChild (rmdir.c), as the commands that create  *)
(* and remove names use them.                                              *)
(*                                                                         *)
(* A block is memory: the cell at an offset holds the record that starts   *)
(* there, or Filler: the rest of a record, or bytes that no walk over the  *)
(* records of the block reaches.  Offsets and rec_len are counted in words *)
(* of 4 bytes, as every rec_len is a multiple of 4.  removeChild moves     *)
(* records with memcpy and does not always leave a chain of records        *)
(* behind, which is why the memory is modelled and not the list of names.  *)
(***************************************************************************)
EXTENDS Integers, FiniteSets, SequencesExt

CONSTANTS
    Names,          \* the names commands create and remove
    Dot, DotDot,    \* the two names of a new directory
    NameLen,        \* the length in bytes of every name
    Prefix,         \* <<m, n>> when the name m is a proper prefix of the name n
    Filler,         \* a cell where no record starts
    BLKSIZE,        \* words in a block (256)
    MaxBlocks       \* bound on the blocks of the directory (12)

AllNames == Names \cup {Dot, DotDot}

ASSUME DirAssumption ==
    /\ Dot \notin Names /\ DotDot \notin Names /\ Dot # DotDot
    /\ NameLen \in [AllNames -> 1 .. 255]
    /\ Prefix \subseteq AllNames \X AllNames
    /\ BLKSIZE \in Nat /\ BLKSIZE > 6
    /\ MaxBlocks \in Nat \ {0}

VARIABLES
    dir,        \* the blocks i_block[0], i_block[1], ... as memory
    intact      \* no removal has damaged the directory yet

vars == <<dir, intact>>

Offsets == 0 .. BLKSIZE - 1

\* new_ideal_length and needed_length: 4 * ((11 + name_len) / 4) bytes.
IdealLen(n) == (11 + NameLen[n]) \div 4

Ent(n, len) == [name |-> n, rec_len |-> len]

\* Seeded bug: ".." gets the whole block, the 12 bytes of "." not taken off.
NewBlockTooLong ==
    [o \in Offsets |-> CASE o = 0 -> Ent(Dot, 3)
                         [] o = 3 -> Ent(DotDot, BLKSIZE)
                         [] OTHER -> Filler]

\* makeDirectory writes "." with rec_len 12 and ".." with the rest of the block.
NewBlock ==
    [o \in Offsets |-> CASE o = 0 -> Ent(Dot, 3)
                         [] o = 3 -> Ent(DotDot, BLKSIZE - 3)
                         [] OTHER -> Filler]

\* The offsets a walk over the block visits: cp += dp->rec_len while in the block.
Starts(b) ==
    LET walk[o \in Nat] == IF o \in Offsets /\ b[o] # Filler
                           THEN <<o>> \o walk[o + b[o].rec_len]
                           ELSE <<>>
    IN  walk[0]

\* The names on the walk, in order.
Listing(b) == LET starts == Starts(b) IN [i \in DOMAIN starts |-> b[starts[i]].name]

\* The walk covers the block exactly and every record has room for its name.
WellFormed(b) ==
    LET starts == Starts(b) IN
    /\ Last(starts) + b[Last(starts)].rec_len = BLKSIZE
    /\ \A o \in ToSet(starts) : b[o].rec_len >= IdealLen(b[o].name)

\* Seeded bug: search stops at the last record, as the walk of enter_name does.
searchAllButLast(d, n) == n \in ToSet(Front(Listing(d[1])))

\* search looks at i_block[0] only.
search(d, n) == n \in ToSet(Listing(d[1]))

\* Seeded bug: the length of the last name is not taken off.
RemainingAll(b) == b[Last(Starts(b))].rec_len

\* What is left in the last record of a block beyond what its name needs.
Remaining(b) ==
    LET last == Last(Starts(b)) IN b[last].rec_len - IdealLen(b[last].name)

Split(b, n) ==
    LET last == Last(Starts(b))
        ideal == IdealLen(b[last].name)
    IN  [b EXCEPT ![last].rec_len = ideal,
                  ![last + ideal] = Ent(n, Remaining(b))]

\* enter_name: the first block whose last record has room takes the name; without
\* one, a new block does, as its only record.
enter_name(d, n) ==
    LET room == {i \in DOMAIN d : Remaining(d[i]) >= IdealLen(n)} IN
    IF room # {}
    THEN LET i == CHOOSE j \in room : \A k \in room : j <= k
         IN  [d EXCEPT ![i] = Split(d[i], n)]
    ELSE Append(d, [o \in Offsets |-> IF o = 0 THEN Ent(n, BLKSIZE) ELSE Filler])

\* memcpy(&b[to], &b[from], len); where the two overlap, as memmove.
Copy(b, to, from, len) ==
    [o \in Offsets |-> IF o \in to .. to + len - 1 THEN b[o - to + from] ELSE b[o]]

\* strncmp(childName, dp->name, dp->name_len) == 0
Matches(n, m) == m = n \/ <<m, n>> \in Prefix

\* The index in Starts(b) of the record removeChild takes for n.
Target(b, n) ==
    LET listing == Listing(b) IN
    CHOOSE i \in DOMAIN listing :
        /\ Matches(n, listing[i])
        /\ \A j \in 1 .. i - 1 : ~Matches(n, listing[j])

\* Seeded bug: records are moved only while they end before the end of the block.
ShiftLeftShort(b, i) ==
    LET starts == Starts(b)
        R == b[starts[i]].rec_len
        moved == SelectSeq(SubSeq(starts, i + 1, Len(starts)), LAMBDA c : c + R < BLKSIZE)
        Move(a, c) ==
            LET len == b[c].rec_len IN
            [mem  |-> Copy(a.mem, a.prev, c, len),
             prev |-> IF c + len + R < BLKSIZE THEN a.prev + len ELSE a.prev]
        done == FoldLeft(Move, [mem |-> b, prev |-> starts[i]], moved)
    IN  [done.mem EXCEPT ![done.prev].rec_len = @ + R]

\* The records behind the target are moved to the left one by one, as long as the
\* next one starts at least removedRecordLength before the end of the block; the
\* last one moved (or what lies at prevBytePtr) gets the removed length.
ShiftLeft(b, i) ==
    LET starts == Starts(b)
        R == b[starts[i]].rec_len
        moved == SelectSeq(SubSeq(starts, i + 1, Len(starts)), LAMBDA c : c + R <= BLKSIZE)
        Move(a, c) ==
            LET len == b[c].rec_len IN
            [mem  |-> Copy(a.mem, a.prev, c, len),
             prev |-> IF c + len + R < BLKSIZE THEN a.prev + len ELSE a.prev]
        done == FoldLeft(Move, [mem |-> b, prev |-> starts[i]], moved)
    IN  [done.mem EXCEPT ![done.prev].rec_len = @ + R]

\* The target is the last record: the one before it takes its length.
DropLast(b, i) ==
    [b EXCEPT ![Starts(b)[i - 1]].rec_len = @ + b[Starts(b)[i]].rec_len]

\* Forget the records that are left over outside the walk.
Settled(b) ==
    LET starts == ToSet(Starts(b))
    IN  [o \in Offsets |-> IF o \in starts THEN b[o] ELSE Filler]

\* removeChild, for a name that search found.  A record that fills its block would
\* be removed with the block, the blocks behind it moving up.
removeChild(d, n) ==
    LET b == d[1]
        i == Target(b, n)
    IN  IF b[Starts(b)[i]].rec_len = BLKSIZE THEN Tail(d)
        ELSE IF i = Len(Starts(b)) THEN [d EXCEPT ![1] = Settled(DropLast(b, i))]
        ELSE [d EXCEPT ![1] = Settled(ShiftLeft(b, i))]

-------------------------------------------------------------------------------
Init ==
    /\ dir = <<NewBlock>>
    /\ intact = TRUE

\* tryCreate, tryMakeDirectory, tryLink and symlink: the name must be new.
EnterName(n) ==
    /\ intact
    /\ ~search(dir, n)
    /\ dir' = enter_name(dir, n)
    /\ Len(dir') <= MaxBlocks
    /\ UNCHANGED intact

Entries(d) == FoldLeft(LAMBDA s, b : s \o Listing(b), <<>>, d)

\* The occurrences of every name, in all the blocks of the directory.
Bag(d) ==
    LET entries == Entries(d)
    IN  [n \in AllNames |-> Cardinality({i \in DOMAIN entries : entries[i] = n})]

\* The directory d2 is d1 with one entry n less, and is in order.
IsWithout(d2, d1, n) ==
    /\ \A i \in DOMAIN d2 : WellFormed(d2[i])
    /\ Bag(d2) = [Bag(d1) EXCEPT ![n] = @ - 1]

\* tryRemoveDirectory and tryUnlink: the name must exist.  What the program does
\* with a directory it has damaged is not modelled.
RemoveName(n) ==
    /\ intact
    /\ search(dir, n)
    /\ dir' = removeChild(dir, n)
    /\ intact' = IsWithout(dir', dir, n)

Next == \E n \in Names : EnterName(n) \/ RemoveName(n)

Spec == Init /\ [][Next]_vars

-------------------------------------------------------------------------------
Record == [name : AllNames, rec_len : 1 .. BLKSIZE]

\* Types; no record of a directory in order reaches beyond its block.
TypeOK ==
    /\ intact \in BOOLEAN
    /\ Len(dir) \in 1 .. MaxBlocks
    /\ \A i \in DOMAIN dir : dir[i] \in [Offsets -> Record \cup {Filler}]
    /\ intact => \A i \in DOMAIN dir, o \in Offsets :
                    dir[i][o] # Filler => o + dir[i][o].rec_len <= BLKSIZE

\* While no removal has damaged it, block 0 lists every name once: the check of
\* the commands that enter a name (search, util.c:104) is enough for that block.
FirstBlockUnique ==
    LET listing == Listing(dir[1]) IN
    intact => \A i, j \in DOMAIN listing : listing[i] = listing[j] => i = j

\* Entering a name (mkdir_creat.c:182) adds that entry and keeps all the others, in
\* whichever block it finds room, and leaves every block a chain of records that
\* ends where the block ends; whatever sequence of removals came before.
EnterPreserves ==
    [][\A n \in Names : EnterName(n) =>
        /\ \A i \in DOMAIN dir' : WellFormed(dir'[i])
        /\ Bag(dir') = [Bag(dir) EXCEPT ![n] = @ + 1]]_vars

\* The removal of n from block b is safe: no entry in front of n is a prefix of n,
\* and n is the last record, or removeChild moves just one record or records that
\* all start more than the removed length before the end of the block.
SafeRemoval(b, n) ==
    LET starts == Starts(b)
        i == Target(b, n)
        end(c) == c + b[starts[i]].rec_len
        moved == {c \in ToSet(starts) : c > starts[i] /\ end(c) <= BLKSIZE}
    IN  /\ Listing(b)[i] = n
        /\ \/ i = Len(starts)
           \/ Cardinality(moved) = 1
           \/ moved # {} /\ \A c \in moved : end(c) < BLKSIZE

\* removeChild (rmdir.c:122) takes exactly the named entry away when the removal is
\* safe, and damages the directory whenever it is not.
ExactIffSafe ==
    [][\A n \in Names : RemoveName(n) => (intact' <=> SafeRemoval(dir[1], n))]_vars
===============================================================================
