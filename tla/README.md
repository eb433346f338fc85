# A specification of the level-3 file system

This directory specifies and checks the EXT2 file system simulator of
`src/Project/level-3`: a program that opens a disk image, keeps inodes, processes
and open files in static tables, and executes commands (`ls`, `cd`, `mkdir`,
`creat`, `rmdir`, `link`, `unlink`, `symlink`, `write`, `append`, `cp`, `cat`,
`mount`, ...) one after another.  The directories `mountroot`, `mkdir_creat`, `level-1`,
`level-2` and `level-2-git-is-trash` hold earlier states of the same files.  Level-3
is what is specified, and level-1, the first stage that is complete, where it
differs.  `src/Lab04` holds a second program, a small file server and its client.

## Inventory

| Component | State it keeps | Operations | Uses |
|---|---|---|---|
| Minode cache (`util.c`, `main.c`) | `minode[NMINODE]`: dev, ino, refCount, dirty, INODE; `root` | `iget`, `iput`, `init`, `mount_root`, `quit`, and each place that keeps a pointer | disk blocks |
| Directory blocks (`util.c`, `mkdir_creat.c`, `rmdir.c`) | records in the blocks of a directory | `search`, `enter_name`, `removeChild` | cache, `balloc` |
| Block allocation and file data (`util.c`, `write_cp.c`, `read_cat.c`, `open_close.c`) | block bitmap, free counters, `i_block[]`, `i_blocks`, `i_size`, indirect tables | `balloc`, `bdalloc`, `writeToFile`, `readFromFile`, `truncate`, `tryCopy` | cache |
| Path walk and namespace commands (`util.c`, `mkdir_creat.c`, `rmdir.c`, `link_unlink.c`, `symlink.c`, `cd_ls_pwd.c`) | the tree, link counts, modes and owners | `getino`, mkdir, creat, rmdir, link, unlink, symlink, chdir | all of the above |
| Processes (`main.c`) | `proc[NPROC]`, `running`, groups | create, switch, kill | cache (cwd) |
| Open file table (`open_close.c`) | `oft[NOFT]`, `fd[]`, offsets, modes, refCounts | open, close, lseek | cache, `truncate` |
| Mount table (`mount_umount.c`) | `mountTable[]`, `mounted` and `mptr` of a minode | mount, umount, crossing in `getino` | cache |
| Command loop (`main.c`) | the command line | dispatch | everything |
| File server and client (`src/Lab04`) | one TCP stream per client, the directory shared by the forked children | get, put, ls, cd, pwd, mkdir, rmdir, rm | the host's file system |

### How the parts interact

Everything runs in one thread, one command at a time: the next command is read when
the last has returned.  There is no preemption, no callback and no lock, and a
switch of process only changes which cwd, uid and group the next command uses.  The
parts share state through pointers into `minode[]`.  The protocol is "iget counts, iput
uncounts": a slot with refCount 0 is reused by the next `iget` that misses.  Pointers
into the table outlive a command (`root`, the cwd of each process, a mount point)
and one command's mistakes are therefore felt by a later one.  The server of
`Lab04` is the one part with concurrency: a forked child per client.

### What is hard

* *Long sequences of legal commands.*  Most damage takes several commands, often of
  different processes, to become visible: an uncounted cwd (main.c:103), a reference
  released twice (link_unlink.c:143), a block that is freed and kept
  (open_close.c:224), a record that is moved short (rmdir.c:165).
* *Stale state.*  The slot of an inode is reused under a pointer; `search` looks at
  the first block of a directory (util.c:112); a reused slot keeps its dirty flag.
* *Boundaries.*  The last record of a directory block, the 12th, 13th and 14th entry
  of `i_block[]`, a write that begins inside a block, `i_blocks` that must agree with
  the order in which blocks were allocated.
* *Full tables.*  No free minode, block, inode, descriptor; results that are not
  tested.
* *Crashes.*  Bitmaps go to the disk at once, inodes on the last `iput`, counters
  on `quit`.

`PROJECT.json` lists these hazards at their lines, with the property that would
catch each or the reason no property does.

### What makes each component correct

* Cache: one slot per inode; no reuse under a pointer; no change lost by reuse or
  quit; every lookup sees the last change.
* Directory: entering and removing a name change that name only; the records tile the
  block; a name is there once.
* File data: reading returns what was written; no two files share a block; no block
  leaks; counters agree with the bitmap; a short write means a full disk.
* Namespace: every name leads to an inode; link counts cover names; no directory is
  removed with directories in it; the tree has no cycle and no orphan; a crash damages
  one name at most.
* Open files: refCounts agree with descriptors; one writer or many readers.
* Mounts: no unmount under a user; crossing is symmetric.
* File server: both sides agree where a message ends; every request is answered.

## Modules

| Module | What it specifies |
|---|---|
| `InodeStore` | Abstract: one current and one stable value per inode, a crash, a shutdown. |
| `MinodeCache` | `minode[]` and every kind of pointer into it; implements `InodeStore`. |
| `MinodeCacheProofs` | The theorems about `MinodeCache` and their proofs. |
| `DirBlock` | The blocks of one directory, with `search`, `enter_name`, `removeChild`. |
| `FileBlocks` | Bitmap, counters, `i_block[]` and tables, with the commands on regular files. |
| `FileBlocksProofs` | The theorems about `FileBlocks` and their proofs. |
| `NameTree` | Abstract: a set of paths, to which one is added or from which one is removed. |
| `FileSystem` | The namespace commands, processes, quit and crashes of level-3 on one device; implements `NameTree`. |
| `LevelOne` | The commands of level-1 over the state of `FileSystem`; implements `NameTree`. |
| `FileSystemProofs` | The theorems about the counts and references of `FileSystem` and `LevelOne`, and their proofs. |
| `FileSystemTreeProofs` | The theorems about the tree of directories of `FileSystem` and `LevelOne`, and their proofs. |
| `OpenFiles` | `oft[]`, the descriptors of every process, modes and references of the files. |
| `OpenFilesProofs` | The theorems about `OpenFiles` and their proofs. |
| `Mount` | `mtable[]`, `minode[]` and the descriptors of the host, with `getino` across disks. |
| `MountProofs` | The theorems about `Mount` and their proofs. |
| `InductionLemmas` | Induction over `0 .. N` for sets, and recursive functions on it: what the proofs about loops use. |
| `FileServer` | Lab04: clients, a server child for each, two byte streams per connection, a shared file. |
| `FileServerProofs` | The theorems about `FileServer` and their proofs. |
| `MC...` | Constants of the instances TLC checks. |

### MinodeCache

`minode` is the table; a pair `[dev, ino]` is one value of `Keys`, and an INODE is
one value of `Values`.  `cwd` and `local` are the pointers: of the processes, and of
the command that is running.  A command is *any* sequence of the steps `IgetHit`,
`IgetMiss`, `GetinoStart`, `Modify`, `Iput` and `Forget` on its local pointers.  This
contains each sequence a command of level-3 performs (`getino` is `GetinoStart` and
then, per component of the path, `iget` and `iput`), so what holds here holds whatever
order the commands use.  `Boot` is `init`, `mount_root` and the two
`create_process` of `main`.  `Crash` may happen between any two steps.  An `iget`
that finds no slot (`IgetPanic`) returns 0, which callers dereference: the program is
gone, and the disk stays as it was.

Three callers break the rules `iget` and `iput` rely on: `create_process` does not
count a cwd, `tryUnlink` releases its parent twice, `tryLink` changes a directory
without marking it dirty.  Their actions are in the specification, and each adds one to
`lapses`, a counter the code does not have.  With `MaxLapses = 0` the
specification is the program without these three; with more it is the program.  The
start of the program also has one uncounted cwd; it uses up the reference
`mount_root` took for `root`, so that the cwds and locals are still covered while the
pointer `root` itself is not.

### DirBlock

A directory is a sequence of blocks and a block is memory: at each offset (in words of 4
bytes) the record that starts there or `Filler`.  `removeChild` moves records with `memcpy`
as it walks, and for some layouts leaves a chain that is no longer a directory; a list of
names could not express that.  Names have a length and a prefix relation, because
`removeChild` compares only as many characters as the name on disk has.  After a removal
that did not take away exactly the named entry `intact` is FALSE and the specification
stops: what the program does with a damaged directory is not specified.  Bytes that no walk
reaches are forgotten (`Settled`), as no function reads them.  Inode numbers of entries are
left out.

### FileBlocks

One device with its bitmap (`used`), its counters (`free`, the superblock and the group
descriptor, which `balloc` and `bdalloc` always change together) and, per file,
`i_block[]`, `i_blocks`, `i_size`.  A block has two views, as a table of block numbers
and as bytes; block 0 is readable, as the code reads it through entries that are 0.
`Locate` follows and allocates the levels of `writeToFile` (`Descend` is one of them, `Extend`
the new block for an entry), `WriteRound` is one round of its loop, `CopyBlocks` the loop of
`tryCopy`, `WalkOrder` is the order in which `truncate` frees blocks, the tables in front
of their entries.  The actions are whole commands, `open_file`, the writes and
`close_file` together: level-3 has no command that leaves a file open.  A byte is
`<<file, position>>`, so a byte that shows up elsewhere is told apart, and `text`, which the
code does not have, remembers what was written.  `intact` turns FALSE when a command is given
a block that a file had when the command began to write: `truncate` frees the blocks of a file
that is written over and leaves them in `i_block[]`, so `balloc` may give them away a second
time.  The specification stops there.  Before that no block is at two places of the files, which
`FileBlocksProofs` proves (`PlacesApart`).

### FileSystem and NameTree

`disk` is what a crash leaves: both bitmaps, the INODEs, the entries of each directory
block, and the count of free inodes.  `core` is `minode[]` and the superblock in
memory, `proc` and `running` are the processes.  A command is an operator that takes
the state `s` and gives the *sequence* of states it goes through, one for each write
a crash can come after; `Command` either goes to the last one, or the program dies
in one before.  `rmdir` and `unlink` go through `Removal`, see below.  The operators carry the names of the functions (`tryUnlink`,
`makeDirectory`, `enter_name`, `iget`, ...) and the order within them is that of the
code: `creat` marks the bit, enters the name, and writes the INODE on the last
`iput`.  Reference counts are kept per inode and not per slot, as `MinodeCache` shows that an
inode is in one slot only.

`removeChild` compares only as many characters as the name on the disk has (rmdir.c:145), so a
removal of `ab` takes the record of `a` when that comes first, one of `.x` takes `.`, the first
record of all, and for some lengths it moves what is behind the record to the wrong place
(rmdir.c:159-179).  `DirBlock` says exactly when.  `FileSystem` keeps neither the order of
the records nor how the characters of names relate, so it allows both outcomes wherever the second is
possible: `Removal` is the exact removal, and, if there is a record of another name in the
directory or the name is hidden (`MayMiss`), also a removal that goes wrong, which ends in
the image `"wrong record"`.  For a hidden name only the second is there.  What is
claimed, and proved for any names, therefore holds of the program until a removal has gone wrong.

`image` is not in the code.  It is `"sound"`; `"miscounted"` once a crash has lost
the free counts or the link count of a directory, which the commands survive; or
what has damaged the image.  Then nothing is claimed until `Restore`, the `mk` that
copies the sample image.  These end a behaviour in the same way, as what the program does
next has no defined outcome or is one long tale of an inode that is two things:
`"full"` (no free inode, and inode 0 is written to the memory in front of a buffer),
`"wrong record"` (a removal that goes wrong), `"retarget"` (a slot is loaded with another inode
while a pointer to it is in use),
`"rmdir of a cwd"` and `"rmdir of a parent"`, which is also what an rmdir of a path that ends in
`.` or `..` comes to if it removes something (`Unnamed`): the directory loses its inode
and its block, while `removeChild` looks for `.` or `..` and its name stays where it was.  The
link count and the reference of the cwd keep it from happening; it takes a link count that
a crash has lost, or a reference that `tryUnlink` has released twice.  A search in something that is no
directory never ends (`STUCK`); the user kills the program, which is a crash.

`NameTree` is what a user sees: a set of paths.  The mapping `TreePaths` is what `ls`
of every directory shows.  Each step of `FileSystem`, crashes included, adds one
path below an existing one, removes one with everything below it, or leaves the tree
as it is.  A damaged image stands for the empty tree, as it is about to be made anew (`Formats` of
`NameTree`).

### LevelOne

Level-1 has one process and one device.  Its helpers (`iget`, `iput`, `search`,
`getino`, `ialloc`, `balloc`, `enter_name`, `removeChild`, `createFile`,
`makeDirectory`) do to this state what those of level-3 do, and are taken from
`FileSystem`, and so is `Removal`, as rmdir.c:131 of level-1 compares names in the same way.  Its
commands are written out, as they differ in what they release and whom they deny.  `tryUnlink` releases the parent once, which is why `PointersHeld`
is true here, and why `"retarget"` and `"rmdir of a cwd"` never come about; in level-3
the second release (link_unlink.c:143) has lost it.  `quit` does not write the free
counts, so that no property of this module is about them.

### OpenFiles

`table` holds `oft[]`, the `fd[]` of every process, and of each file what opening looks
at: whether it exists, its size, the mode and the references of its MINODE.  The actions
are the functions of `open_close.c` and `read_cat.c`, called by any process in any order,
and the commands `cat`, `write`, `append`, `cp`, `kill` and `quit`, which are sequences
of them.  No command of level-3 leaves a file open or calls `lseek_file` and `mydup`;
calling them directly is what their interface offers.  Whether the disk has room for what is
written (`writeToFile` returns -12 when it has not, write_cp.c:36-39) is open each time, and in `cp`
how much of the copy it has room for: how full it is belongs to `FileBlocks`.  A result below 0 is
-1, as no caller tells the others apart.  `odd`, which the code does not
have, records a lapse: a second reader (which takes a MINODE reference that nobody
gives back, and is survived), a third reader, two open files of equal inode number on
two devices, a full table, and a `kill` that closes the descriptors of the wrong process.
After one of the last four the counts no longer say anything and the program starts anew.

### Mount

Here `minode[]` is a table of slots again, because `umount` looks at slots that nobody
references.  A slot holds device, inode number, the disk it was read from (`of`, which
the code does not have), references and the mount mark; `host` says which image each
descriptor of the host has open, and a descriptor is reused after a close, as the host
does.  `getino` goes component by component through `StepUp` and `StepDown`, which cross
a mount point as the code does; `chdir`, `ls`, `pwd`, `mount` and `umount` are built
on it.  `dev`, the global that `getino("/")` does not set, is part of the state.  A command
that finds no free slot dies, and `Restart` is that or `quit`.  The directories
on the disks do not change, and P1 stays at the root, which makes each mount point with
inode number 2 "in use".

`MountsAgree` says less than one expects of the marks.  That the mount point of every entry
in use is marked *for that entry* (src/Project/level-2/output.txt:3745, "in 4, the DIR also
points back to the mounted device") is not so: `mount` looks whether a process stands in the
directory (mount_umount.c:72), not whether the directory is a mount point already, and
`getino("..")` from the root of a disk arrives at the directory above the mount point without
going down again into what is mounted on that one (util.c:179-183).  Mount a disk on `/a/b`,
`cd /a/b`, mount a second one on `/a`, and `..` is `/a` itself, where a third disk can be
mounted: `/a` is then marked for the third, the second is still in the table, and the
first `umount` of the two clears the mark of both.  This needs three entries of the
table and a directory below another one, which the run has.  What does hold, and is proved,
is the other direction: a mark leads to an entry in use that is mounted there.

### FileServer

A client and its child of the server exchange lines of 256 bytes, a `long`, and the
parts of a file, over a TCP connection.  A stream is a sequence of units; the first unit of a
line says what it is (both programs only ever compare how a line begins), and the rest is
`Rest`, since what lies there (zeros, old contents of the buffer, memory behind a string
literal) differs from write to write.  `client[c].pc` and `server[c].pc` name the read a process is
at.  Every read is a step, and so is every access to the shared file: `open`, `stat`,
each `read` and `write`.  A read takes what is there, up to what it asks for; for the clients in
`Fragile` the network may cut one read short.  `write` waits when the connection is full.  A
client may die at any time; its child then reads 0 bytes, or is killed by a write.  Files of
the server are inodes, so a file can lose its name while another child has it open.  The commands
`pwd`, `ls`, `cd`, `mkdir`, `rmdir` are replies of some lines; the directories they change
are not modelled.  `cat` and `get` are the same code in the server.  `open` may fail for a file that
is there (`GetOpen`) or could be made (`PutRefuse`).

A `get`, `cat` or `put` may come without a name: the line of the error that is the name cannot be
written (server.c:113), so the client waits for a line that does not come, or leaves one unread
(`ReplyNoName`).  An `rm`, `mkdir` or `rmdir` without a name is answered, too, by other lines than
one with a name; the replies of `"text"` have any number of them.  A `get` or `cat` of a directory goes as far
as the request: every read of it returns -1, and what the child sends then is not followed.

A child that waits for a request reads 0 when its client has ended, or -1 when it died with
replies unread (`ReadReset`).  The test is for 0 only (server.c:323), so what was left in the
buffer is taken for a request once more; it has lost its argument to `strtok`, or is a
reply that was built in that buffer, and the first write of the answer ends the child
(`Killed`).  A part of a file in that buffer that reads like a command is not
followed.  Within a put -1 is like 0 but for the length, which grows by one; that is a child that
was left with a put unfinished.

`lapses[c]` is not in the code: it records what has upset an exchange (a cut read, a header
run together with the next line, a put without a file, a command without a name, a directory, a
length that no longer holds, a put left unfinished).  A process that is about to interpret the middle of a line is `garbled` and
stops.  After a lapse the current command is still followed, and, for a put without a
file, the next one.

## Runs

| Run | States | Shows |
|---|---|---|
| `MinodeCache` | 34 008 | No lapses: no slot is reused under a pointer (`PointersKeepInode`), reuse loses nothing (`IdleClean`), quit saves all (`QuitSavesAll`), the table implements `InodeStore`. |
| `MinodeCacheLapses` | 663 352 | All actions: an inode is never in two slots, and a refCount falls short of the pointers by at most `lapses`. |
| `MinodeCacheRootIsRoot` | violation | Both initial processes `cd` away from the root; its refCount reaches 0 and `root` comes to point at another inode. |
| `DirBlock` | 133 868 | Any sequence of entering and removing five names in two blocks: entering is exact; removing is exact precisely when `SafeRemoval` says so. |
| `FileBlocks` | 172 849 | write, append, cp, cat, unlink up to a full disk: files read back, nothing leaks, counters agree, and only rewriting a file unmarks blocks in use. |
| `FileServer` | 229 734 | Two clients: both sides agree where commands begin and end, files hold data in its place, every command ends, every child ends; each unless one of the lapses occurred. |
| `FileSystem` | 72 969 | Two processes and every command on one device, with crashes: `SoundImage`, `LinksCover`, `CountersAgree` and `PwdResolves` of the states, `RmdirLosesFilesOnly` and `CrashDamagesOneName` of the steps; the names change as `NameTree` allows. |
| `FileSystemCwdStays` | violation | mkdir and cd to a directory, unlink a file there, and rmdir takes the directory away under the process. |
| `LevelOne` | 26 843 | Level-1: root and the cwd stay counted (`PointersHeld`), and the names change as `NameTree` allows. |
| `OpenFiles` | 214 676 | Two processes, three files: counts of entries, modes of files and references of MINODEs agree with the descriptors, and no offset lies behind the end of its file. |
| `Mount` | 421 222 | Four images, one of them no file system, three mounts: marks, table and host agree; each command gives back its references; `..` leads to the root; no inode of a closed disk stays in memory. |
| `MountInodesOfTheirDisk` | violation | The same with equal inode numbers on the disks: `umount` of the lower disk succeeds beneath the upper one. |

The violations are recorded in `PROJECT.json` as disagreements between the code and its
comments.  Other known damage is stated from its other side, by properties that hold:
`ExactIffSafe` says exactly which removals from a directory block go wrong,
`OnlyRewritesUnmark` which commands leave a file with freed blocks, `RmdirLosesFilesOnly`
what a directory takes with it, `CommandsEnd` what upsets an exchange of messages.

### Bounds

* `MinodeCache`: three inodes and two slots, so a hit, a miss with reuse, and a full
  table all happen; two local pointers, as in the commands that hold a parent and a child;
  two processes, the ones `main` starts, and a third in the run with lapses, so
  that `create_process` and `kill_process` matter; `MaxRef = 2` bounds the refCounts that
  `iget` and `getino` reach and two lapses bound how far they fall below zero.
* `DirBlock`: 16 words hold `.`, `..` and up to three short names, and a name can be as long as
  its neighbour, shorter or longer; that gives each comparison in `removeChild` its
  less, equal and greater case.  `BLKSIZE` is 1024 bytes in the code, 256 words.  Two blocks
  are enough to leave the one `search` sees.
* `FileBlocks`: one direct entry, tables of two entries and blocks of two bytes reach
  all levels, with a double indirect table whose second table is needed, and with seven
  blocks on the device a disk that fills up at each level.  Writes of three bytes begin
  and end inside and at the edges of blocks.  The two files are interchangeable, so symmetry is
  used; the properties are safety properties.

* `FileSystem`, `LevelOne`: inodes 2 to 4, the root and two more, so that a directory with
  a file or a directory in it, a file of two names, reuse of a number and a full image
  happen; the paths are a name in the root, a name below it and one in the cwd, besides
  `/` and `..` for `cd`.  A third inode below a second level repeats what the first two do.
  `MaxDrift` bounds how many references were forgotten or released twice (one in
  `FileSystem`, where a double release is enough to lose a cwd, two in `LevelOne`, where they
  are forgotten only), `MaxLinks` the link count of a directory, which `rmdir` does not lower.
  Two processes, as `main` starts them.  `new` gives a third one the group of the user, `root` or
  `other`; with two processes it only ever makes P1 again, which has killed itself: `kill_process`
  asks for a victim whose group is below that of the killer (main.c:126), and none is below
  P0's, nor can P0 be killed.  So one group (`Groups = {1}`) is enough.  The two
  names are not hidden and `MayMiss` does not ask whether one is the beginning of the other, so a removal can go wrong
  in each directory with two names.  The theorems are for any `Groups`, `NPROC`, `Names` and `Hidden`.
* `OpenFiles`: three files, two of which have one inode number on two devices, two
  descriptors per process and two processes: a file can be open four times, twice in each
  process.  `MaxOpen = 2` entries in use at a time, `MaxRef = 2` references and files of one
  byte, which is enough for an offset at, before and behind the end.  The lapse
  `"wrong kill"` takes three processes, one that kills, one of a lower group that is killed, and P0, which
  is neither; an instance with three is too large.  `CountsRight` and its companions are proved for any number
  of processes and any groups.
* `Mount`: four slots, so that the root and up to three mount points or disk roots are in memory
  while one is reused, and so that a command can run out of slots; three mount entries for
  three disks, mounted on each other or side by side, on a directory and on one below it;
  four descriptors, so that one is reused, and so that an image that is refused uses up
  the last.
* `FileServer`: lines of two units, so a line can be cut in the middle; a file of three
  units is a whole line and a part of one, a file of one unit only a part.  The
  first client gives every command; the second one only `put` and `rm`, which are what can
  get in the way of the first one's `get` and `put`.  One name, as only equal names interact; an
  inode per child and one more.  A connection of ten units has room for the longest single reply
  (eight units); `MaxSize` is one unit more than the longest file.

Deadlock is checked but for three runs.  `DirBlock` and `FileBlocks` stop at the first
damage by design, and `FileServer` when all clients are gone, so it is not checked there; that
nobody in `FileServer` waits for ever is what its liveness properties say.

### Fairness

`FileServer` assumes weak fairness of each client and of each child, apart from typing a
command, dying and `lrm`: the two are processes of an operating system, which runs them when
the read or write they are in can go on.  `CommandsEnd` and `ChildrenEnd` rest on it.  The
specifications of level-3 state no fairness and claim no liveness: commands come from a
user, who may stop at any time, and every function modelled as one step terminates on its
own.

### Seeded bugs

Operators commented `Seeded bug:` stand in front of the definition they are a wrong
version of; no definition uses them.  `PROJECT.json` says which property fails when
one takes the place of its original, which shows that the property depends on the code
being as it is.

## Proofs

A theorem holds for every value of the constants that the `ASSUME` of its module allows.  Each
proof has an inductive invariant `IInv` (of several named parts), one lemma per operation that
keeps it, and a theorem that joins them; the properties follow from `IInv`.

### MinodeCacheProofs

For every number of slots, processes, inodes, values and local pointers and for every bound,
from `CacheAssumption` only:

* `TypeCorrect`: `TypeOK`;
* `SlotsAreUnique`: `UniqueSlots`, with all lapses;
* `PointersAreCounted`: `RefCountsCoverPointers`, with all lapses;

and, when there are no lapses (`MaxLapses = 0` is an assumption of the theorem):

* `ReuseLosesNothing`: `IdleClean`;
* `Refinement`: `ImplementsInodeStore`, by the mapping of `Store` in `MinodeCache`;
* `PointersKeep`: `PointersKeepInode`;
* `QuitSaves`: `QuitSavesAll`.

`IInv` has five parts.  `TypeOK`; `Dead`: while the program is
down the table is empty and nothing points into it; `UniqueSlots`;
`RefCountsCoverPointers`; and `Sound`: with no lapse so far, a slot that is not marked
dirty, or that nobody holds, has what the disk has.  `UniqueSlots` makes `SlotOf` a
function, which the refinement needs to say which copy is current, and `QuitSaves` to say
that no second slot of an inode writes over the first.  `IdleClean` alone is not inductive: the last
`iput` of a slot makes it true only if the dirty flag told the truth before, hence
`Sound`.  `PointersKeepInode` follows from the counting: a slot `IgetMiss` takes has
refCount 0, and with `lapses = 0` a refCount of 0 means that no cwd and no local points
there.  Counting pointers needs facts on cardinality (adding or removing one element),
which the module states as lemmas and takes from `FiniteSetTheorems`.

### OpenFilesProofs

For any files, processes and descriptors, and any bounds, from `OpenFilesAssumption` (a file
may have one byte, a count may not be negative; nothing else about the bounds):

* `TypeCorrect`: `TypeOK`;
* `CountsRight`: `RefCounts`;
* `ModesRight`: `ModesAgree`;
* `MinodesKept`: `MinodesHeld`;
* `OffsetsRight`: `OffsetsWithin`.

None of these is inductive alone: a close decides by the count of the entry what becomes of
the mode and of the MINODE.  `IInv` has, besides the types: `Reached` (an entry is in use
exactly when a descriptor leads to it, and a descriptor leads to an entry of its file),
`Counted` (the count of an entry is the number of its descriptors), `OneDevice` (files that
are open have different inode numbers, unless `odd` says otherwise), `Modes` (the entries of
a file have the mode of its MINODE; only a reader shares), `Held` (one reference for a
file that is open and one for each second reader), `Offsets`.  After the lapses that
end the claims of the module, only the types and the offsets are in it.  The commands are
sequences of open, read, write and close; the proof is one lemma for each of these functions on
a state of `Soundly`, and the commands compose them.

### MountProofs

For any disks, any trees on them, any path names, and any numbers of slots, entries and
descriptors.  `MountAssumption` says of a disk only that its directories are lists of names with
inode numbers that are not 0 and that there is a `..` in each, as mkfs and
mkdir (mkdir_creat.c:170-174) make them:

* `MountsRight`: `MountsAgree`;
* `RefsRight`: `RefsBalanced`.

A command here is not one assignment but a walk, whose length depends on the path, on the
number of entries of a directory (`ls`) or on how deep the cwd is (`pwd`).  `Walk(b, n)` is
the set of the states a walk may be in that began in `b` and holds `n` references: it has
died, or the tables, the marks and every MINODE that was referenced in `b` are as they were
(`Kept`) and exactly the MINODE in hand has `n` references more than it had (`Held`).
`iget` leads from `Walk(b, 0)` to `Walk(b, 1)`, `iput` back; a path component stays in
`Walking(b)`, in which a walk that has failed holds nothing; so `getino` ends in
`Walk(b, 0)`, however many mount points it crossed.  A walk within a walk (`ls_dir`, `pwd`)
begins in a state in which one may begin (`ReadyAgain`).  `pwd` holds one more directory
at each level and gives them back in one loop after the other, so its references are counted
by the positions of the directories in the list of those held (`Takes`).  Then `IInv` is
`Sound(Now)`, that is

* `Counted`: what `RefsBalanced` says;
* `Loaded`: a referenced MINODE has been loaded, and the cwd and the mount points are directories;
* `Entries`: entries in use have the devices of the images they name, one each, and the
  others are cleared;
* `Marks`: a mark leads to an entry that is mounted there.

`Counted` is what makes a walk safe: only because the root, the cwd and each mount point are
referenced can no `iget` of the walk load another inode into their slots, and only because of
`Loaded` does a walk up from the root of a disk find a `..` at the mount point; without it, it
would go on with inode 0 and one reference too few.  `Marks` is why `umount` may clear a mark.

### FileBlocksProofs

For any number of files, direct entries, entries of a table, bytes in a block and blocks on the
device, and for writes of any size up to `MaxSize`, from `FileAssumption` only (`MaxSize` is at
most what direct, indirect and double indirect blocks hold, as `writeToFile` gives up beyond):

* `TypeCorrect`: `TypeOK`;
* `CountersRight`: `CountersAgree`;
* `SizesRight`: `Sizes` of this module, that `i_size` is the number of bytes that were
  written, also when a write or a copy met a full disk;
* `ReadBackAlways`: `ReadBack`;
* `NothingLeaksAlways`: `NothingLeaks`;
* `PlacesApartAlways`: `PlacesApart` of this module, that no block is at two places of the files;
* `OnlyRewritesUnmarkAlways`: `OnlyRewritesUnmark`.

`Good` is the set of the disks whose counters agree with their bitmaps.  `balloc` and `bdalloc`
stay in it, the first as it is only called when a bit is clear, the second as it looks at the bit;
so do the assignments to an INODE and to the two views of a block.  Each loop then stays
in a set of its own: the walk down the tables in `Level(d, n)` (after `n` levels it is
at a block of the device, or the disk was full), the loop of `writeToFile` in `Round` (the size
of the file is the offset, and what is written and what is left make up the whole), the
loop of `truncate` in the disks with the INODEs unchanged, the loop of `tryCopy` in
`Copied(d, g, size, k)` (after `k` blocks the copy is no longer than `k` blocks and than the
original).  These rest on `Sizes`: a write begins at the end of the file and a copy reads only blocks
that exist, so that the logical block is one that `i_block[]` and the tables can name
(`PathRange`) and its physical block one of the device (`PhysicalRange`).  `IInv` is
`TypeOK`, `CountersAgree` and `Sizes`.

The other four follow from `BInv`: as long as `intact` holds, `Shape` and `Contents`.  They are
about what the code never writes down, the order of the blocks of a file.  `truncate` has only
`i_blocks` to go by and walks direct entries, the indirect table, the double indirect table and
its tables with one counter; `writeToFile` goes from the inode down to one logical
block and allocates what it meets on the way.  The two agree because of the numbering of *places*:
the entries in the order of `truncate`, each with the place of the table it is in (`Parent`) and
its number there (`Index`).  `WalkIs` shows that `WalkOrder` has at each place that entry
of its parent; `NoGap`, that on the way to a logical block the next place that `writeToFile` comes
to is at most one behind those of the logical block before, with `Leaf(l)` the last one.  So

* `Packed`: the places of a file that hold a block are the first `i_blocks / 2` ones;
* `Apart`: no two of them, of one file or of two, hold the same block;
* `Shape` is both, with each marked block at some place and nothing in block 0;
* `Contents`: byte `i` of a file is in the block at the place `Leaf(i / BLKSIZE)`.

`Packed` is what makes `NothingLeaks` true of a write that stops after it has allocated a table:
the table is one more place and is counted.  `Apart` alone is not inductive, as a
block that `balloc` gives away need not be free of places: after `truncate` it may be at a place
and not marked.  Within a command that began to write on the disk `o`, `Clean` says that nothing
given away so far was some file's on `o`, and `Grown` that what the files have beyond that was
given to them since; together they make a block that is free now no file's (`FreeIsNew`), which
is what `Extend` needs (`ExtendKeeps`).  `Kept` is `Shape`, `Contents` and `Grown`; each level
of `Locate` (`LocateOn`), each round of `writeToFile` (`RoundOn`) and each block of a copy
(`CopyBlockOn`) keeps it, with the text that the command is to write in place of `text`, of which
the file holds a front at any time.  `CatIs` puts the blocks of a file together again.  For
`OnlyRewritesUnmark`, if all places were marked on `o` then the command is `Clean` whatever it
does, and what has grown is marked (`SettledMarked`); `truncate` of a file without blocks and
`unlink`, because of `Apart`, leave all places of the files marked.

### FileSystemProofs

For any names and paths, any number of inodes and processes, any groups and any `MaxDrift` and
`MaxLinks`, from `FileSystemAssumption` only.  Names may be the beginnings of each other or hidden:
a removal that may then go wrong gives the image up (`Removal`), and each theorem says what holds until
then.

* `CountersAgreeAlways`: `CountersAgree` of `FileSystem`;
* `PointersHeldAlways`: `PointersHeld` of `LevelOne`.

A command is a sequence of states, and the program may die in each of them, so what is shown of a
command is shown of all of its states.  `Passing(b, x, exact)` says what a state `x` of a command
that began in `b` has kept: it is `Fit` (every INODE that is not free has its bit, on the disk and in
memory, and every reference count is a number); a directory that somebody held in `b` is a directory
still (`Keeps`); and, when `exact`, the count of free inodes is right if it was (`CountKept`).  There
is one lemma for each operation (`iget`, `iput`, `TakeInode`, `idalloc`, ...), which says that it goes
on with that and what it does to the references, one for each command of the two levels, which says
that all of its states have it (`Trail`) and, where that is so, that none has released more than it took
(`RefsKept`), and one for the end of a command (`FinishCases`).  `RefsKept` is not so for `tryUnlink` of
level-3, which releases the parent twice.

`CountInv` is `CountersAgree` with `DeviceFits`, that what is on the device, and in memory when the
program is up, is `Fit`.  The count needs the bits: `idalloc` counts the inode as free without
looking at its bit, which is right only because `unlink` and `rmdir` come to an inode that is not free
and therefore has one.  Level-1's `unlink` does not ask for a regular file: that it comes to no free inode is
a part of `SoundImage`, so its lemma is about `~exact`, and the count is no claim of `LevelOne`.

`HeldInv` says that the one process is where it is (`Alone(c)`), that root and `c` are
directories and that each inode has as many references as the two pointers make (`Held`); that
root is a directory on the disk too, as the next start reads it there; and that no cwd has been
removed.  These hold each other up: `rmdir` frees an inode only when its own reference is the only
one, so a directory that is held stays (`Keeps`); as it stays, it has its bit, and `Finish` finds
no cwd removed; and as commands give back what they take and no more, it stays held.

### FileSystemTreeProofs

From the same assumptions, for any names, which may be the beginnings of each other, any paths and any
number of inodes and processes; nothing is claimed of an image once a removal has gone wrong:

* `SoundImageAlways`: `SoundImage`;
* `LinksCoverAlways`: `LinksCover`;
* `RmdirLosesFilesOnlyAlways`: `RmdirLosesFilesOnly`;
* `ImplementsNameTreeAlways`: `ImplementsNameTree`, by the mapping `TreePaths` of `FileSystem`;
* `CrashDamagesOneNameAlways`: `CrashDamagesOneName`;
* `PwdResolvesAlways`: `PwdResolves`;
* `LevelOneImplementsNameTree`: `LevelOne` implements `NameTree` by the same mapping;
* `LevelOneSound`: `SoundImage` and `LinksCover` of `LevelOne`, which no run checks there.

The first part of the module is about images.  `Dirs`, the directories that can be reached, is the least
set that has the root and is closed under entries, so `DirsLeast` is the induction over the tree that
the proofs use: what has the root and is closed has all of them.  A sound image is `Leads` (a name
leads to a file or to a directory of the tree), `Linked` (no file has more names than links) and
`Treelike` (`RootOnTop`, `Distinct` names, and every directory `Hangs` by the one entry its `..`
agrees with).  There is a lemma for each of the ways in which an image changes: a name
is added to a directory (`GainsName`, for a new file, a new directory or one more link), a file loses
a name (`FileDropped`), a directory goes away with its name (`DirDropped`).  The image
is still a tree after the last, whatever was below the directory: that goes out of reach, and the
names that led there are no longer shown.  That nothing but files was below it, so that one directory is
lost and no more, is what needs `LinksEnough`, as `rmdir` looks at `i_links_count` only (`Lost`).

The second part is the refinement, for any two images that are trees.  `TreePaths` is a recursion over
levels, which say nothing of each other; a tree has a path for each of its directories (`Routes`, by
`TreeRecursion`, see below), and `TreePathsAre` shows that the levels find these paths and no others.
`Renamed` says how the names of two images may differ: not at all, by one entry
more (`Gains`, with or without an empty directory it names) or by one entry less, with all that is
no longer reached (`Loses`); the routes to what remains are the same.  `RenamedMoves` concludes
that the step from the paths of one to the paths of the other is one of `NameTree`, or none: what is
lost is what has the path of the lost entry for a prefix, as two routes one of which continues the
other lead to directories one of which is above the other.

Then there are two kinds of states within a command.  A `Crashable` one is what a crash may follow:
the INODEs and bits are `Fit`, `Shaped` and `Blocked` (of the shape that a read expects); an INODE that the
disk has is of the kind that the memory has (`Behind`: the disk may be behind, never ahead); and there is a
block for the next directory (`Room`: no more blocks are marked than there are inodes in use that are
not regular files, so that as long as `ialloc` finds an inode, `balloc`, whose result nobody looks at,
finds a block).  A `Settled` one is
what a command starts from and ends in: the image that the program sees is sound, and an inode that
nothing refers to has gone to the disk (`CleanAt`), so that `quit`, which writes only what is
referenced, leaves the same image behind.

What a crash leaves of a state of the first kind is the subject of `Left(b, x, command)`: after the state
`x` of a command that began in `b`, and whatever INODEs have gone to the disk by then (`Hushed`), the
device is either `Intact`, and then it has the names of `b` but for one, or it has one damaged name at
most.  The disk has of each inode what it had at the beginning, what the memory had then, or
what it has now (`Between`), and without a forgotten reference the first two lead to
the same (`Written`, which is what `~Unwritten` makes of it).  So a command damages nothing as
long as what it has in use matches what there was (`Keeping`); in between it has the new name on the disk and
perhaps not the inode or its link count (`Grown`, `EnteringExtends`), a name less and perhaps
not the link count, which then is too high and harms nobody (`Shedding`: this is `unlink`, the only one that
is safe), or a directory less whose name is still there (`Shutting`).  `Risky` are the
commands that come through a state of the first or of the last kind.

`Goes` says of a command that all of its states are `Crashable` and `Left`, and
the last one is `Settled` and has the names of the first but for one (`Done`).

`NameInv` is `DeviceFits` and: while the program is up and nothing has damaged the image, the state is `Settled` and
every process stands in a directory of the tree (`CwdsOf`); while it is down, the image on the disk is
`Bootable`; and `LinksEnough`, until a crash has lost a count.  `NameInv` itself needs no
argument about what a crash has left half done, since nothing is claimed unless the image
it leaves is sound; the refinement needs one even then, as a sound image could still
have other names than the program saw (`IntactKeeps`).  `Steps` adds to `NameInv'` what
`RmdirLosesFilesOnly` and `CrashDamagesOneName` (`Spared`) say of the step, and that it is one of
`NameTree`.

For `LevelOne` the invariant is the same, and the commands go through states of the same kinds; only
those that are written out have lemmas of their own (`TryUnlinkOneGoes`, `TryRemoveDirectoryOneGoes`
and so on), over what both levels have in common (`OutcomeNew`, `UnlinkedGoes`, `GoesTo`,
`HasLeft`).  From `HeldInv`, the invariant behind `PointersHeld` of `LevelOne`, comes only that it
is always process 0 that runs.

`PwdResolves` follows from `NameInv` without a further invariant, but not by a look at one directory:
`recursivePWD` climbs to the root by `..` and then finds a name on each level on its way back, and
`getino` goes down by `search`.  `TreeInduction` (what the root has, and what a
directory has that the one above it has, all have) is `DirsLeast` read along the `..` entries;
`TreeRecursion` shows by it that a recursion that goes up the tree defines something, as two partial ones agree
(`DescentsAgree`) and each directory is in one (`DescentsReach`).  Then a path that is one name
longer leads one directory further down (`AbsoluteSteps`, `NameFound`, `SearchFinds`), because a directory
has no two entries of one name and none of the name `.` or `..` (`Plain`, a part of `Blocked`).

### FileServerProofs

For any clients, any files, any capacity of a connection and any length of lines and headers
(`ServerAssumption`: a header is not empty and shorter than a line):

* `TypeCorrect`: `TypeOK`;
* `InStepAlways`: `InStep`;
* `DataInPlaceAlways`: `DataInPlace`.

That a client at its prompt finds its child waiting says nothing about how they get there.
`BothSides` says, for each place of the client, where the child may be and what may be in the two
directions of the connection: during `reply`, a listing with so many lines to go or a child that
is yet to answer; during `get.data`, as many units as are left of the length once those that the
child has yet to send are added, in whole lines unless the terminator follows them
(`Getting`); during `put.data` the same the other way (`Putting`), where the child may be up to
three reads behind.  When the client is gone, what is left to the child is `ServerSide`, which
`BothSides` implies (`SideOf`): the front of the messages of one command, never more data than the
length says.  The first part of the module shows what each write and each read does to the two, as
lemmas about streams.

`IInv` is `Types`, `Room` (nothing is larger than its place), `Places`
(offsets lie inside of the files, so that no write leaves a hole) and `Exchanges`: as long
as nothing has upset an exchange, `BothSides` or `ServerSide` holds of it.  `Types` are finer than
`TypeOK`, as a file is a sequence only because of `Places`.  A step of one connection meets the
others only at the files: `OthersStay` says that it keeps the invariant for them, since it does not
shorten a file that another child has open.  There is a lemma for each of the steps, and for each kind of request, those without a name among
them.

`DataInPlace` follows from a second invariant, `DataInv`, which `IInv` carries
along.  That the files are in place now does not say that the next write keeps them so: what is
about to be written is in the connection.  `DownPlaced` says of a get that what the client will
take for data, the first so many units behind the line and the length, are those that follow
the offset of the client in the file, and that the child's offset is the client's plus what is on
its way, so that what the child sends next fits behind it; the terminator behind the data
is not counted, as the client never reads it as data.  `UpPlaced` says the same of a put.  `IInv` gives the
lengths: a read of a whole line of data gets one, so the buffer that is written holds nothing from
an earlier read (`FilledWhole`), and the offset plus what is left stays within `MaxSize`, so no
write fails half way and leaves the two offsets apart.  `DataInv` speaks only of the states in which nobody's
exchange is upset, as all share the files: one child that writes a line with something else in it
spoils the file for the others, which `DataInPlace` allows for in the same words.

### Loops

The library's induction theorems take an operator as a parameter, which the provers
at hand cannot instantiate.  `InductionLemmas` states what is needed without one, for sets:
a set with 0 that is closed under successor up to `N` has all of `0 .. N` (`SetInduction`, from the
well-foundedness of `<` on the naturals); a recursion over `0 .. N` whose rounds are functions
on a set defines something (`RecursionExists`); and if each round stays in a set, the
loop does (`LoopStays`).  A recursive function of a model is the `CHOOSE` of a function that
satisfies its equation; the proofs show that there is one and that its values stay in a set of
good states.

### What is only model-checked

* `UpLeadsToRoot` and `InodesOfTheirDisk` of `Mount`: they hold for the trees of the run and
  not for every tree; the run `MountInodesOfTheirDisk` shows trees for which the second fails.
* `TypeOK`, `EnterPreserves`, `ExactIffSafe` and `FirstBlockUnique` of `DirBlock`: its walks over
  the bytes of a block and the names and words it is bounded by belong to the run.
* `TypeOK` of `FileSystem`: its bounds of the references come from a fold over a set, `Drift`.
* Liveness (`CommandsEnd`, `ChildrenEnd`) and `ENABLED`, which are beyond the provers, and what
  a fold over a sequence computes.

## Not modelled

* `mountroot`, `mkdir_creat`, `level-2` and `level-2-git-is-trash`: unfinished or
  superseded copies of the files of level-1 and level-3.
* The wording of what `ls`, `pwd`, `readlink`, `pfd`, `printBlockList` and the debug printers
  show; none of them changes state beyond `iget` and `iput` in pairs.
* Splitting of command lines and of paths: a path is a sequence of names.  A command of level-1 and
  level-3 has its arguments; that `get`, `cat` and `put` of `Lab04` may lack theirs is in `FileServer`.
* What the file server and its client do once a directory has been asked for by `get`, and what
  level-3 does after a removal that took another record.
* Times of inodes (`i_atime`, ...), which nothing reads back, and the target of a link, which
  only `readlink` shows; `getino` does not follow links.
* A directory of more than one block in `FileSystem` and of more than two in `DirBlock`: `search`
  does not look there.
* A crash within a write of data in `FileBlocks`; file data and allocation on mounted devices,
  which have bitmaps and counters of their own.
* What the program does once a slot is loaded with another inode under a pointer, a cwd is
  removed, or inode 0 is written: the models stop claiming there.
* The directories of the file server that `mkdir`, `rmdir` and `cd` change.

## Plan

1. Proofs: the properties of `DirBlock`, for blocks and names of any length.
2. `FileServer`: the directories of `mkdir`, `rmdir` and `cd`.
3. A crash within the data commands of `FileBlocks`.
