------------------------------ MODULE FileSystem ------------------------------
(***************************************************************************)
(* The name space of level-3 on its root device: the commands that make and*)
(* remove names (mkdir, creat, symlink, link, unlink, rmdir), cd, and the  *)
(* process commands, over the inode and block bitmaps, the INODEs on disk  *)
(* and in memory, their reference counts and the data blocks of the        *)
(* directories; with quit, and a crash between any two writes.             *)
(*                                                                         *)
(* A command is a sequence of states, one for each write that a crash can  *)
(* come after; the last one is what the command leaves behind.  The order  *)
(* of records within a block and their lengths are the subject of DirBlock,*)
(* the data of files that of FileBlocks, which slot of minode[] an inode   *)
(* is loaded into that of MinodeCache.  Here a directory is the set of its *)
(* entries in one block, a file or a link is an inode without blocks (what *)
(* a link holds is not kept), and an inode is named by its number.  Two    *)
(* things that this leaves out can go wrong at any time they are possible, *)
(* after which nothing is claimed: a slot that another inode is loaded into*)
(* while a pointer to it is in use (Retarget), and a removal that takes the*)
(* record of another name or damages the block (Removal).                  *)
(***************************************************************************)
EXTENDS Integers, FiniteSets, SequencesExt

CONSTANTS
    Names,      \* the names commands use
    Hidden,     \* those that begin with "."
    Paths,      \* the paths commands use, [abs, comps]
    NINODES,    \* inodes of the image, the root is number 2
    NPROC,      \* processes
    Groups,     \* the groups new gives a process: root 0, user 1, other 2
    MaxDrift,   \* bound on the references forgotten or released twice
    MaxLinks    \* bound on i_links_count of a directory

ROOT == 2
Inos == ROOT .. NINODES
Blocks == ROOT .. NINODES   \* the blocks that can hold a directory
Procs == 0 .. NPROC - 1
USER_GROUP == 1
STUCK == -1                 \* the walk over a block never ends
LOST == -1                  \* a free count that need not agree with the bitmap
Dot == "."
DotDot == ".."

ASSUME FileSystemAssumption ==
    /\ {Dot, DotDot} \cap Names = {} /\ Hidden \subseteq Names
    /\ NINODES \in Nat /\ NINODES > ROOT
    /\ NPROC \in Nat /\ NPROC > 1 /\ Groups \subseteq Nat
    /\ Paths \subseteq [abs : BOOLEAN, comps : Seq(Names \cup {Dot, DotDot})]
    /\ \A p \in Paths : p.comps # <<>>

VARIABLES
    disk,       \* bitmaps, INODEs, directory blocks and free counts of the device
    core,       \* INODEs and reference counts in minode[], free counts in memory
    proc,       \* status, gid and cwd of every process; its uid is its number
    running,    \* the running process
    up,         \* "up", "down" or "lost"
    image       \* "sound", "miscounted", or what has damaged the image

vars == <<disk, core, proc, running, up, image>>

Rec(n, i) == [name |-> n, ino |-> i]
Dir(i, parent) == [dot |-> i, up |-> parent, list |-> {}]
NoInode == [kind |-> "none", uid |-> 0, links |-> 0, block |-> 0]
File(u) == [kind |-> "reg", uid |-> u, links |-> 1, block |-> 0]
Directory(u, b) == [kind |-> "dir", uid |-> u, links |-> 2, block |-> b]

\* The image the program is started on has a root directory and nothing else.
FreshDisk ==
    [imap |-> {ROOT}, bmap |-> {ROOT},
     inode |-> [i \in Inos |-> IF i = ROOT THEN Directory(0, ROOT) ELSE NoInode],
     dir |-> [b \in Blocks |-> IF b = ROOT THEN Dir(ROOT, ROOT) ELSE Dir(0, 0)],
     inodes |-> NINODES - ROOT]

NoCore == [inode |-> [i \in Inos |-> NoInode], ref |-> [i \in Inos |-> 0], inodes |-> 0]
NoProc == [p \in Procs |-> [status |-> "FREE", gid |-> 0, cwd |-> 0]]

Init ==
    /\ disk = FreshDisk
    /\ core = NoCore
    /\ proc = NoProc
    /\ running = 0
    /\ up = "down"
    /\ image = "sound"

\* main: the counts are read once, root and the cwd of P0 refer to inode 2, and
\* the cwd of P1 does without being counted.
Boot ==
    /\ up = "down" /\ image \in {"sound", "miscounted"}
    /\ core' = [inode |-> disk.inode, ref |-> [i \in Inos |-> IF i = ROOT THEN 2 ELSE 0],
                inodes |-> disk.inodes]
    /\ proc' = [NoProc EXCEPT ![0] = [status |-> "READY", gid |-> 0, cwd |-> ROOT],
                              ![1] = [status |-> "READY", gid |-> USER_GROUP, cwd |-> ROOT]]
    /\ running' = 0
    /\ up' = "up"
    /\ UNCHANGED <<disk, image>>

-------------------------------------------------------------------------------
\* A state s within a command: the device, the memory, and whether it can go on.
Now == [disk |-> disk, core |-> core, up |-> up]
Cwd == proc[running].cwd

\* iget; inode 0 is read from memory before the buffer and kept in a slot of its own.
iget(s, i) == IF i = 0 THEN s ELSE [s EXCEPT !.core.ref[i] = @ + 1]

\* The INODE goes to the disk.
WriteInode(s, i) == [s EXCEPT !.disk.inode[i] = s.core.inode[i]]

\* iput: it does when no reference is left.  Every change of an INODE made here marks
\* it dirty, so that one that is not dirty equals the disk.
iput(s, i) ==
    IF i = 0 THEN s
    ELSE LET t == [s EXCEPT !.core.ref[i] = s.core.ref[i] - 1] IN
         IF t.core.ref[i] > 0 THEN t ELSE WriteInode(t, i)

\* The link count of an INODE goes up or down.
AddLinks(s, i, n) ==
    [s EXCEPT !.core.inode[i].links = s.core.inode[i].links + n]

BlockOf(s, i) == s.disk.dir[s.core.inode[i].block]
IsDir(s, i) == i \in Inos /\ s.core.inode[i].kind = "dir"

\* search.  The block of an empty file is block 0, all zeros, whose records have
\* length 0; that of a link is whatever number its target makes.
search(s, i, n) ==
    IF s.core.inode[i].kind # "dir" THEN STUCK
    ELSE LET b == BlockOf(s, i)
             found == {r \in b.list : r.name = n}
         IN  CASE n = Dot -> b.dot
               [] n = DotDot -> b.up
               [] n \notin {Dot, DotDot} /\ found # {} -> (CHOOSE r \in found : TRUE).ino
               [] OTHER -> 0

\* getino, from the cwd c; symbolic links are not followed.
getino(s, c, p) ==
    LET walk[k \in 0 .. Len(p.comps)] ==
            IF k = 0 THEN IF p.abs THEN ROOT ELSE c
            ELSE LET i == walk[k - 1]
                 IN  IF i \in {0, STUCK} THEN i ELSE search(s, i, p.comps[k])
    IN  walk[Len(p.comps)]

\* dirname and basename.
Parent(p) ==
    [p EXCEPT !.comps = IF Len(@) = 1 /\ ~p.abs THEN <<Dot>> ELSE Front(@)]
Base(p) == Last(p.comps)

\* Seeded bug: nobody looks at the owner.
MayWriteAll(s, u, i) == TRUE

\* The modes level-3 gives its files and directories, 0644 and 0755, let only the
\* owner write, and uid 0.
MayWrite(s, u, i) == u = 0 \/ s.core.inode[i].uid = u

Least(S) == CHOOSE x \in S : \A y \in S : x <= y
ialloc(s) == IF s.disk.imap = Inos THEN 0 ELSE Least(Inos \ s.disk.imap)
balloc(s) == Least(Blocks \ s.disk.bmap)

\* A change of the free count makes the one on the disk out of date until quit.
Count(s, change) ==
    [s EXCEPT !.core.inodes = IF @ = LOST THEN LOST ELSE @ + change, !.disk.inodes = LOST]

TakeInode(s, i) == [Count(s, -1) EXCEPT !.disk.imap = @ \cup {i}]
TakeBlock(s, b) == [s EXCEPT !.disk.bmap = @ \cup {b}]

\* Seeded bug: idalloc does not count.
idallocUncounted(s, i) ==
    [s EXCEPT !.disk.imap = @ \ {i}, !.disk.inode[i] = NoInode, !.core.inode[i] = NoInode]

\* idalloc counts the inode as free without looking at its bit.  The INODE of a free
\* inode is not kept: it is made anew before a command reads it, and a name that a
\* crash leaves with the old one leads nowhere.
idalloc(s, i) ==
    [Count(s, 1) EXCEPT !.disk.imap = @ \ {i}, !.disk.inode[i] = NoInode,
                        !.core.inode[i] = NoInode]

\* truncate of a directory, which has one block: bdalloc looks at the bit.
\* Nobody reads what a free block still holds.
truncate(s, i) ==
    LET b == s.core.inode[i].block IN
    IF b \notin s.disk.bmap THEN s
    ELSE [s EXCEPT !.disk.bmap = @ \ {b}, !.disk.dir[b] = Dir(0, 0)]

\* enter_name: the block of the directory is on the disk at once.
enter_name(s, d, i, n) ==
    [s EXCEPT !.disk.dir[s.core.inode[d].block].list = @ \cup {Rec(n, i)}]

\* Seeded bug: removeChild takes the record it comes across first.
removeAny(s, d, n) ==
    [s EXCEPT !.disk.dir[s.core.inode[d].block].list = @ \ {CHOOSE r \in @ : TRUE}]

\* removeChild, when it takes the record with the name; see MayMiss.
removeChild(s, d, n) ==
    [s EXCEPT !.disk.dir[s.core.inode[d].block].list = {r \in @ : r.name # n}]

\* Without a free inode the name is entered with inode 0, and the INODE of inode 0
\* is written to the memory before a buffer of iput.
Overfull(s, d, n) == <<[enter_name(s, d, 0, n) EXCEPT !.up = "full"]>>

\* createFile and the iput of the parent.
createFile(s, u, d, n) ==
    LET i == ialloc(s)
        s1 == TakeInode(s, i)
        s2 == [iget(s1, i) EXCEPT !.core.inode[i] = File(u)]
        s3 == enter_name(s2, d, i, n)
    IN  IF i = 0 THEN Overfull(s, d, n)
        ELSE <<s1, s3, iput(iput(s3, i), d)>>

\* Seeded bug: makeDirectory does not count ".." of the child as a link.
makeDirectoryUncounted(s, u, d, n) ==
    LET i == ialloc(s)
        b == balloc(s)
        s1 == TakeInode(s, i)
        s2 == TakeBlock(s1, b)
        s3 == [iget(s2, i) EXCEPT !.core.inode[i] = Directory(u, b),
                                  !.disk.dir[b] = Dir(i, d)]
        s4 == enter_name(s3, d, i, n)
    IN  IF i = 0 THEN Overfull(s, d, n)
        ELSE <<s1, s2, s3, s4, iput(s4, i), iput(iput(s4, i), d)>>

\* Seeded bug: ".." of the new directory is the cwd.
makeDirectoryInCwd(s, u, d, n) ==
    LET i == ialloc(s)
        b == balloc(s)
        s1 == TakeInode(s, i)
        s2 == TakeBlock(s1, b)
        s3 == [iget(s2, i) EXCEPT !.core.inode[i] = Directory(u, b),
                                  !.disk.dir[b] = Dir(i, Cwd)]
        s4 == enter_name(AddLinks(s3, d, 1), d, i, n)
    IN  IF i = 0 THEN Overfull(s, d, n)
        ELSE <<s1, s2, s3, s4, iput(s4, i), iput(iput(s4, i), d)>>

\* makeDirectory and the iput of the parent.  What becomes of the block it takes when
\* it got no inode is not followed.
makeDirectory(s, u, d, n) ==
    LET i == ialloc(s)
        b == balloc(s)
        s1 == TakeInode(s, i)
        s2 == TakeBlock(s1, b)
        s3 == [iget(s2, i) EXCEPT !.core.inode[i] = Directory(u, b),
                                  !.disk.dir[b] = Dir(i, d)]
        s4 == enter_name(AddLinks(s3, d, 1), d, i, n)
    IN  IF i = 0 THEN Overfull(AddLinks(s, d, 1), d, n)
        ELSE <<s1, s2, s3, s4, iput(s4, i), iput(iput(s4, i), d)>>

\* Seeded bug: nobody looks whether the name is taken.
OutcomeUnsearched(s, u, c, p) ==
    LET d == getino(s, c, Parent(p)) IN
    CASE d = STUCK -> "stuck"
      [] d # STUCK /\ ~IsDir(s, d) -> "no directory"
      [] IsDir(s, d) /\ ~MayWrite(s, u, d) -> "denied"
      [] IsDir(s, d) /\ MayWrite(s, u, d) -> "new"

\* How far tryCreate and tryMakeDirectory get with a path.
Outcome(s, u, c, p) ==
    LET d == getino(s, c, Parent(p)) IN
    CASE d = STUCK -> "stuck"
      [] d # STUCK /\ ~IsDir(s, d) -> "no directory"
      [] IsDir(s, d) /\ ~MayWrite(s, u, d) -> "denied"
      [] IsDir(s, d) /\ MayWrite(s, u, d) ->
            IF search(s, d, Base(p)) = 0 THEN "new" ELSE "exists"

Stuck(s) == <<[s EXCEPT !.up = "stuck"]>>

\* The part tryCreate and tryMakeDirectory share, made being what a new name leads to: a
\* denied one forgets its iput.
TryEnter(s, u, c, p, made) ==
    LET outcome == Outcome(s, u, c, p) IN
    CASE outcome = "stuck" -> Stuck(s)
      [] outcome = "denied" -> <<iget(s, getino(s, c, Parent(p)))>>
      [] outcome = "new" -> made
      [] OTHER -> <<s>>

tryCreate(s, u, c, p) ==
    LET d == getino(s, c, Parent(p)) IN
    TryEnter(s, u, c, p, createFile(iget(s, d), u, d, Base(p)))
tryMakeDirectory(s, u, c, p) ==
    LET d == getino(s, c, Parent(p)) IN
    TryEnter(s, u, c, p, makeDirectory(iget(s, d), u, d, Base(p)))

\* Seeded bug: removeDirectory does not look at the link count.
removeDirectoryAny(s, d, i, n) ==
    LET s1 == truncate(s, i)
        s2 == idalloc(s1, i)
        s3 == removeChild(s2, d, n)
    IN  IF s.core.ref[i] = 1
        THEN <<s1, s2, s3, iput(s3, i), iput(iput(s3, i), d)>>
        ELSE <<iput(iput(s, i), d)>>

\* removeDirectory counts the entries of the child and goes ahead whatever the
\* count is; the link count of the parent stays.
removeDirectory(s, d, i, n) ==
    LET s1 == truncate(s, i)
        s2 == idalloc(s1, i)
        s3 == removeChild(s2, d, n)
    IN  IF s.core.ref[i] = 1 /\ s.core.inode[i].links <= 2
        THEN <<s1, s2, s3, iput(s3, i), iput(iput(s3, i), d)>>
        ELSE <<iput(iput(s, i), d)>>

\* What rmdir takes away by "." or ".." keeps its name in the directory above.
Unnamed(p) == Base(p) \in {Dot, DotDot}

\* tryRemoveDirectory.  rmdir ".." takes the parent of the cwd away when a crash has
\* lost the link count that keeps it, and "." the directory itself when tryUnlink has
\* released it once too often: neither is followed.
tryRemoveDirectory(s, u, c, p) ==
    LET d == getino(s, c, Parent(p))
        i == search(s, d, Base(p))
    IN  CASE d = STUCK -> Stuck(s)
          [] IsDir(s, d) /\ IsDir(s, i) /\ MayWrite(s, u, d) ->
                LET t == removeDirectory(iget(iget(s, d), i), d, i, Base(p)) IN
                IF Len(t) > 1 /\ Unnamed(p) THEN <<[s EXCEPT !.up = "rmdir of a parent"]>> ELSE t
          [] OTHER -> <<s>>

iput3(s, i, j, k) == iput(iput(iput(s, i), j), k)

\* tryLink: the entry first, then the link count of the file.
tryLink(s, u, c, old, new) ==
    LET od == getino(s, c, Parent(old))
        i == search(s, od, Base(old))
        nd == getino(s, c, Parent(new))
        s1 == enter_name(iget(iget(iget(s, od), i), nd), nd, i, Base(new))
        s2 == AddLinks(s1, i, 1)
    IN  CASE od = STUCK -> Stuck(s)
          [] ~IsDir(s, od) -> <<s>>
          [] IsDir(s, od) /\ (i = 0 \/ IsDir(s, i)) -> <<s>>
          [] IsDir(s, od) /\ i # 0 /\ ~IsDir(s, i) ->
                CASE Outcome(s, u, c, new) = "stuck" -> Stuck(s)
                  [] Outcome(s, u, c, new) = "new" -> <<s1, iput3(s2, nd, i, od)>>
                  [] OTHER -> <<s>>

\* Seeded bug: tryUnlink frees the inode before it removes the name.
tryUnlinkFreesFirst(s, u, c, p) ==
    LET i == getino(s, c, p)
        d == getino(s, c, Parent(p))
        s1 == AddLinks(iget(iget(s, i), d), i, -1)
        s2 == IF s1.core.inode[i].links <= 0 THEN idalloc(s1, i) ELSE s1
        s3 == iput(removeChild(s2, d, Base(p)), d)
    IN  CASE i = STUCK -> Stuck(s)
          [] i \in Inos /\ s.core.inode[i].kind = "reg" /\ MayWrite(s, u, d) ->
                <<s2, s3, iput(s3, i), iput(iput(s3, i), d)>>
          [] OTHER -> <<s>>

\* tryUnlink releases its parent twice.  An empty file and a link have no blocks to free.
tryUnlink(s, u, c, p) ==
    LET i == getino(s, c, p)
        d == getino(s, c, Parent(p))
        s1 == iput(removeChild(iget(iget(s, i), d), d, Base(p)), d)
        s2 == AddLinks(s1, i, -1)
        s3 == IF s2.core.inode[i].links <= 0 THEN idalloc(s2, i) ELSE s2
    IN  CASE i = STUCK -> Stuck(s)
          [] i \in Inos /\ s.core.inode[i].kind = "reg" /\ MayWrite(s, u, d) ->
                <<s1, s3, iput(s3, i), iput(iput(s3, i), d)>>
          [] OTHER -> <<s>>

\* symlink creates a file and turns it into a link; when it cannot, it does not
\* release the old file.
symlink(s, u, c, old, new) ==
    LET od == getino(s, c, Parent(old))
        i == search(s, od, Base(old))
        created == tryCreate(iget(iget(s, od), i), u, c, new)
        t == Last(created)
        n == getino(t, c, new)
        linked == iget(t, n)
    IN  CASE od = STUCK -> Stuck(s)
          [] ~IsDir(s, od) -> <<s>>
          [] IsDir(s, od) /\ i = 0 -> <<s>>
          [] IsDir(s, od) /\ i # 0 ->
                CASE t.up # "up" -> created
                  [] t.up = "up" /\ Outcome(s, u, c, new) = "new" ->
                        created \o <<iput(linked, n), iput3(linked, n, i, od)>>
                  [] OTHER -> <<iput(t, od)>>

-------------------------------------------------------------------------------
\* Bits and INODEs agree that the inode is in use.
Allocated(d) == {i \in d.imap : d.inode[i].kind # "none"}

\* The directories that have the block their INODE names.
OpenDirs(d) ==
    {i \in Allocated(d) : /\ d.inode[i].kind = "dir"
                          /\ d.inode[i].block \in d.bmap
                          /\ d.dir[d.inode[i].block].dot = i}

\* The entries of a directory; those without an inode are found by no search.
EntriesOf(d, i) ==
    {[dir |-> i, name |-> r.name, ino |-> r.ino] :
        r \in {r \in d.dir[d.inode[i].block].list : r.ino # 0}}

\* The directories that can be reached from the root: those in every set that has the
\* root and, with a directory, the directories its entries name.
Dirs(d) ==
    LET open == OpenDirs(d)
        below == [i \in open |-> {e.ino : e \in EntriesOf(d, i)} \cap open]
        closed == {S \in SUBSET open : {ROOT} \cap open \subseteq S
                                        /\ \A i \in S : below[i] \subseteq S}
    IN  {i \in open : \A S \in closed : i \in S}

\* What ls of every directory shows, and who is named by it.
Entries(d) == LET dirs == Dirs(d) IN UNION {EntriesOf(d, i) : i \in dirs}
Named(entries, i) == {e \in entries : e.ino = i}
Files(d) == {i \in Allocated(d) : d.inode[i].kind # "dir"}

\* Entries that name no inode, or a directory that is none.
BadEntries(d) ==
    LET known == Files(d) \cup Dirs(d) IN {e \in Entries(d) : e.ino \notin known}

\* Links of each file that stand for no name; below 0, it would be freed under a name.
Excess(d) ==
    LET entries == Entries(d)
        files == Files(d)
    IN  [i \in Inos |-> IF i \in files
                         THEN d.inode[i].links - Cardinality(Named(entries, i)) ELSE 0]
ShortFiles(d) == LET excess == Excess(d) IN {i \in Inos : excess[i] < 0}

\* There is a root, every other directory has one name, in the directory its ".." names,
\* and no directory has two entries of one name.
TreeShape(d) ==
    LET entries == Entries(d) IN
    /\ ROOT \in Dirs(d)
    /\ \A i \in Dirs(d) :
        LET parent == d.dir[d.inode[i].block].up IN
        IF i = ROOT THEN Named(entries, i) = {} /\ parent = ROOT
        ELSE \E e \in entries : Named(entries, i) = {e} /\ parent = e.dir
    /\ \A e, f \in entries : e.dir = f.dir /\ e.name = f.name => e = f

Sound(d) == BadEntries(d) = {} /\ ShortFiles(d) = {} /\ TreeShape(d)

CountRight(d) == d.inodes = Cardinality(Inos \ d.imap)

LinksEnough(d) ==
    LET dirs == Dirs(d) IN
    \A i \in dirs :
        d.inode[i].links >= 2 + Cardinality({e \in EntriesOf(d, i) : e.ino \in dirs})

\* A file that the disk has as a directory, or the other way round.
Misread(s) ==
    \E i \in s.disk.imap : /\ s.core.inode[i].kind # s.disk.inode[i].kind
                            /\ "dir" \in {s.core.inode[i].kind, s.disk.inode[i].kind}

-------------------------------------------------------------------------------
Halted ==
    /\ core' = NoCore
    /\ proc' = NoProc
    /\ running' = 0

\* The program dies in state s of the command; what it has written is the image.
CrashAt(s, command) ==
    /\ Halted
    /\ disk' = s.disk
    /\ up' = "down"
    /\ image' = IF ~Sound(s.disk) \/ Misread(s) THEN command
                ELSE IF ~CountRight(s.disk) \/ ~LinksEnough(s.disk) THEN "miscounted"
                ELSE image

\* The pointers to an inode: the cwds, and root.
Pointers(pr, i) ==
    Cardinality({p \in Procs : pr[p].status = "READY" /\ pr[p].cwd = i})
        + (IF i = ROOT THEN 1 ELSE 0)

\* How far the references are from the pointers; start leaves the cwd of P1 out.
Drift(c, pr) ==
    FoldSet(LAMBDA i, n : LET d == c.ref[i] - Pointers(pr, i) IN n + (IF d < 0 THEN -d ELSE d),
            0, Inos)

Within ==
    /\ Drift(core', proc') <= MaxDrift
    /\ \A i \in Inos : core'.inode[i].links <= MaxLinks

\* The INODEs as the program sees them.
Seen(s) == [s.disk EXCEPT !.inode = s.core.inode]

\* rmdir has removed the cwd of a process, or a directory above it: what that process
\* does from then on, in a directory whose inode and block belong to whoever takes
\* them, is not followed.
Cwds == {proc[p].cwd : p \in {q \in Procs : proc[q].status = "READY"}}
CwdRemoved(s) == ~(Cwds \subseteq Dirs(Seen(s)))

\* What the program does from here on is not followed: the image is given up.
GiveUp(cause) ==
    /\ Halted
    /\ disk' = FreshDisk
    /\ up' = "lost"
    /\ image' = cause

\* A command that walks over a block without end is killed like a crash.
Finish(s, pr, run, command) ==
    CASE s.up = "stuck" -> CrashAt(s, command)
      [] s.up \in {"full", "rmdir of a parent"} -> GiveUp(s.up)
      [] s.up = "up" /\ CwdRemoved(s) -> 
            GiveUp(IF Cwds \subseteq s.disk.imap THEN "rmdir of a parent" ELSE "rmdir of a cwd")
      [] s.up = "up" /\ ~CwdRemoved(s) ->
            /\ disk' = s.disk
            /\ core' = s.core
            /\ proc' = pr
            /\ running' = run
            /\ Within
            /\ UNCHANGED <<up, image>>

\* A command runs to its end, or the program dies after one of its writes.
Command(states, command) ==
    /\ up = "up"
    /\ \/ Finish(Last(states), proc, running, command)
       \/ \E k \in DOMAIN states \ {Len(states)} : CrashAt(states[k], command)

Mkdir(p) == Command(tryMakeDirectory(Now, running, Cwd, p), "mkdir")
Creat(p) == Command(tryCreate(Now, running, Cwd, p), "creat")

\* removeChild compares as many characters as the name on the disk has: a record in front
\* whose name n begins with is taken for it, for a hidden n that of ".", the first of all.
\* And it may move the records behind to the wrong place.  DirBlock says when either
\* happens; which record is in front and how long it is is not known here.
MayMiss(s, d, n) == n \in Hidden \/ \E r \in BlockOf(s, d).list : r.name # n

\* A command that removes the name at the end of p, if it gets that far.
Removal(states, p, command) ==
    LET removes == Len(states) > 1 IN
    \/ (removes => Base(p) \notin Hidden) /\ Command(states, command)
    \/ /\ up = "up"
       /\ removes
       /\ MayMiss(Now, getino(Now, Cwd, Parent(p)), Base(p))
       /\ GiveUp("wrong record")

Rmdir(p) == Removal(tryRemoveDirectory(Now, running, Cwd, p), p, "rmdir")
Unlink(p) == Removal(tryUnlink(Now, running, Cwd, p), p, "unlink")
Link(p, q) == Command(tryLink(Now, running, Cwd, p, q), "link")
Symlink(p, q) == Command(symlink(Now, running, Cwd, p, q), "symlink")

\* chdir: the new cwd keeps the reference iget took, the old one is released.
Chdir(p) ==
    LET i == getino(Now, Cwd, p) IN
    /\ up = "up"
    /\ IF IsDir(Now, i)
       THEN Finish(iput(iget(Now, i), Cwd), [proc EXCEPT ![running].cwd = i], running, "chdir")
       ELSE Finish(IF i = STUCK THEN Last(Stuck(Now)) ELSE Now, proc, running, "chdir")

\* create_process: the cwd is the root and is not counted.
CreateProcess(usertype, p) ==
    /\ up = "up"
    /\ usertype >= proc[running].gid
    /\ proc[p].status = "FREE" /\ \A q \in 0 .. p - 1 : proc[q].status # "FREE"
    /\ proc' = [proc EXCEPT ![p] = [status |-> "READY", gid |-> usertype, cwd |-> ROOT]]
    /\ UNCHANGED <<disk, core, running, up, image>>
    /\ Within

SwitchProcess(p) ==
    /\ up = "up"
    /\ proc[p].status = "READY"
    /\ running' = p
    /\ UNCHANGED <<disk, core, proc, up, image>>

\* kill_process: the cwd keeps its reference, and nobody reads a free PROC.
KillProcess(p) ==
    /\ up = "up"
    /\ p > 0 /\ proc[p].status = "READY"
    /\ proc[p].gid < proc[running].gid \/ p = running
    /\ proc' = [proc EXCEPT ![p] = NoProc[p]]
    /\ running' = IF p = running THEN 0 ELSE running
    /\ UNCHANGED <<disk, core, up, image>>
    /\ Within

\* iget takes the slot of a cwd, or of an inode the running command uses, for a
\* free one: the pointer now means another inode, and nothing is claimed any more.
Retarget ==
    /\ up = "up"
    /\ \E i \in Inos : core.ref[i] < 0 \/ (core.ref[i] = 0 /\ Pointers(proc, i) > 0)
    /\ GiveUp("retarget")

\* quit: every INODE that is still referenced is written, then the free counts.
Quit ==
    /\ up = "up"
    /\ Halted
    /\ disk' = [disk EXCEPT
                    !.inode = [i \in Inos |-> IF core.ref[i] > 0 THEN core.inode[i] ELSE @[i]],
                    !.inodes = core.inodes]
    /\ up' = "down"
    /\ UNCHANGED image

\* The program dies between two commands.
Crash == up = "up" /\ CrashAt(Now, "idle")

\* mk copies the sample image over a damaged one.
Restore ==
    /\ image \notin {"sound", "miscounted"}
    /\ Halted
    /\ disk' = FreshDisk
    /\ up' = "down"
    /\ image' = "sound"

\* cd / and cd .. (every process has them at hand).
RootPath == [abs |-> TRUE, comps |-> <<>>]
UpPath == [abs |-> FALSE, comps |-> <<DotDot>>]

Next ==
    \/ Boot \/ Quit \/ Crash \/ Retarget \/ Restore
    \/ \E p \in Paths : Mkdir(p) \/ Creat(p) \/ Rmdir(p) \/ Unlink(p)
    \/ \E p, q \in Paths : Link(p, q) \/ Symlink(p, q)
    \/ \E p \in Paths \cup {RootPath, UpPath} : Chdir(p)
    \/ \E p \in Procs : SwitchProcess(p) \/ KillProcess(p)
    \/ \E usertype \in Groups, p \in Procs : CreateProcess(usertype, p)

Spec == Init /\ [][Next]_vars

-------------------------------------------------------------------------------
INODE == [kind : {"none", "dir", "reg"}, uid : Procs, links : 0 .. MaxLinks,
          block : Blocks \cup {0}]

\* Types; only a process whose uid is 0 ever comes to own an inode, as the root
\* directory is writable for its owner only and every other one is made below it.
TypeOK ==
    /\ disk.imap \subseteq Inos /\ disk.bmap \subseteq Blocks
    /\ disk.inode \in [Inos -> INODE] /\ core.inode \in [Inos -> INODE]
    /\ core.ref \in [Inos -> -MaxDrift .. NPROC + 1 + MaxDrift]
    /\ \A i \in Inos : core.inode[i].uid = 0
    /\ running \in Procs /\ (up = "up" => proc[running].status = "READY")
    /\ up \in {"up", "down", "lost"}

Claimed == image \in {"sound", "miscounted"}
View == IF up = "down" THEN disk ELSE Seen(Now)

\* While no crash has damaged the image, every name leads to an inode in use, no file
\* has more names than links, so that tryUnlink frees none that has a name, and the
\* directories form a tree whose ".." entries agree with it.
SoundImage == Claimed => Sound(View)

\* Until a crash loses the link count of a parent (which iput writes when the last
\* reference goes, of the root only at quit), a directory never has fewer links than
\* ".", its name and the ".." of its children make, although rmdir (rmdir.c:113)
\* leaves some too many: what removeDirectory looks at keeps directories with children.
LinksCover == image = "sound" => LinksEnough(View)

\* The count of free inodes agrees with the bitmap, in memory and after quit on the
\* disk, until a crash loses what the memory knew (main.c:173).
CountersAgree ==
    image = "sound" =>
        CountRight([disk EXCEPT !.inodes = IF up = "down" THEN @ ELSE core.inodes])

\* findmyname: the name of inode i in the directory d, if it has one there.
findmyname(d, i) ==
    LET found == {e \in EntriesOf(View, d) : e.ino = i} IN
    IF found = {} THEN "" ELSE (CHOOSE e \in found : TRUE).name

\* recursivePWD: the names from the root down to the directory i.
PathTo(i) ==
    LET dirs == Dirs(View)
        path[j \in dirs] ==
            IF j = ROOT THEN <<>>
            ELSE LET parent == search(Now, j, DotDot)
                 IN  Append(path[parent], findmyname(parent, j))
    IN  path[i]

\* pwd prints the path of the cwd: getino leads from there back to the cwd.
PwdResolves ==
    Claimed /\ up = "up" =>
        \A p \in Procs : proc[p].status = "READY" =>
            getino(Now, ROOT, [abs |-> TRUE, comps |-> PathTo(proc[p].cwd)]) = proc[p].cwd

\* A command takes away one directory at most, never one with directories in it,
\* and a file comes to have more links than names, so that its inode is never freed,
\* only with a directory that rmdir (rmdir.c:95) removed although it held the file.
RmdirLosesFilesOnly ==
    [][image = "sound" /\ up = "up" /\ up' = "up" /\ View' # View =>
        LET gone == Dirs(View) \ Dirs(View)'
            before == Excess(View)
            after == Excess(View)'
        IN  /\ Cardinality(gone) <= 1
            /\ \A i \in Inos : after[i] > before[i] =>
                    \E e \in Named(Entries(View), i) : e.dir \in gone]_vars

\* An inode in use whose INODE the disk does not have, but for the link count of a
\* directory: a command has forgotten to release it.
Unwritten ==
    \E i \in disk.imap :
        /\ core.inode[i] # disk.inode[i]
        /\ {core.inode[i].kind, disk.inode[i].kind} # {"dir"}

\* A crash damages one name at most, and only within a command that enters a name
\* before it writes the inode (creat, mkdir, symlink) or the link count (link), or
\* clears the bits before it removes the name (rmdir); unlink and the time between
\* two commands are safe unless a reference was forgotten before.
CrashDamagesOneName ==
    [][up' = "down" /\ image' # image /\ image' # "sound" /\ ~Unwritten =>
        /\ image' \in {"miscounted", "creat", "mkdir", "symlink", "link", "rmdir"}
        /\ Cardinality(BadEntries(disk')) + Cardinality(ShortFiles(disk')) <= 1]_vars

\* The paths that exist below the root, as ls of every directory shows them.
TreePaths(d) ==
    LET below(x) == {[path |-> Append(x.path, e.name), ino |-> e.ino] :
                        e \in EntriesOf(d, x.ino)}
        level[k \in 0 .. NINODES - ROOT] ==
            IF k = 0 THEN {[path |-> <<>>, ino |-> ROOT]}
            ELSE UNION {below(x) : x \in {y \in level[k - 1] : y.ino \in OpenDirs(d)}}
    IN  {x.path : x \in UNION {level[k] : k \in 1 .. NINODES - ROOT}}

Abstract == INSTANCE NameTree WITH
    tree <- IF Claimed THEN TreePaths(View) ELSE {}

\* Whatever the commands do, and wherever a crash cuts one short without damage,
\* the names of the device change as NameTree allows.
ImplementsNameTree == Abstract!Spec

\* rmdir.c:87, "refCount == 1 means only this process is using it": rmdir leaves the
\* cwd of every process where it is.
CwdStays == image # "rmdir of a cwd"
===============================================================================
