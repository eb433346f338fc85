-------------------------------- MODULE Mount --------------------------------
(***************************************************************************)
(* The mount table of level-3: mount, umount, and the walks that cross from*)
(* one disk to another (getino, cd, ls, pwd), over the table of MINODEs and*)
(* the descriptors the host gives to opened disk images.                   *)
(*                                                                         *)
(* A device number is a host descriptor, so it is given again once it is   *)
(* closed.  of is the disk an INODE was read from: a MINODE whose of is not*)
(* the disk behind its dev is a MINODE of a disk that has gone.            *)
(*                                                                         *)
(* The directories do not change here: the commands that change them are   *)
(* the subject of FileSystem.  P0 runs; P1 is made by main and stays where *)
(* it is, in the root (what several processes do to the reference counts is*)
(* the subject of MinodeCache).  Every disk has its inode table where the  *)
(* root disk has it, as iget takes for granted.                            *)
(***************************************************************************)
EXTENDS Integers, Sequences, FiniteSets

CONSTANTS
    RootDisk,   \* the image the program is started with
    Images,     \* the names mount is called with
    NoDisk,     \* an image that is none
    Ext2,       \* the images that hold a file system
    Tree,       \* Tree[disk][ino]: the entries <<name, inode>> of a directory, in order
    Paths,      \* path names, [absolute, names]
    NMINODE,    \* slots of minode[]
    NMTABLE,    \* entries of mtable[]
    NHOST       \* descriptors the host gives to the program

NONE == 0
ROOTDEV == 1                \* the descriptor of RootDisk
ROOT == 1                   \* the slot of the root
ROOTINO == 2

Slots == 1 .. NMINODE
Tables == 1 .. NMTABLE
Devs == 1 .. NHOST
Disks == {RootDisk} \cup Images

\* The entries of a directory, as mkfs and mkdir make them: there is always a "..".
IsDirectory(entries) ==
    /\ entries \in Seq(STRING \X (Nat \ {0}))
    /\ \E k \in DOMAIN entries : entries[k][1] = ".."

ASSUME MountAssumption ==
    /\ NoDisk \notin Disks
    /\ RootDisk \in Ext2 /\ Ext2 \subseteq Disks
    /\ \A d \in Ext2 : /\ ROOTINO \in DOMAIN Tree[d]
                       /\ \A ino \in DOMAIN Tree[d] : IsDirectory(Tree[d][ino])
    /\ \A path \in Paths : path.absolute \in BOOLEAN /\ path.names \in Seq(STRING)
    /\ NMINODE \in Nat \ {0} /\ NMTABLE \in Nat /\ NHOST \in Nat \ {0}

VARIABLES
    minode,     \* minode[]; mounted is the entry of mtable[] a mounted slot points to
    dev,        \* the global dev
    cwd,        \* the slot P0 stands in
    mtable,     \* mtable[]; at is the slot of the mount point
    host        \* the disk behind each open descriptor

vars == <<minode, dev, cwd, mtable, host>>

FreeSlot == [dev |-> NONE, ino |-> 0, of |-> NoDisk, ref |-> 0, mounted |-> NONE]
FreeTable == [dev |-> NONE, name |-> NoDisk, at |-> NONE]

\* init, mount_root and main: root and the cwd of P0 are counted, the cwd of P1 is not.
Fresh == [
    minode |-> [i \in Slots |->
        IF i = ROOT
        THEN [dev |-> ROOTDEV, ino |-> ROOTINO, of |-> RootDisk, ref |-> 2, mounted |-> NONE]
        ELSE FreeSlot],
    dev |-> ROOTDEV,
    cwd |-> ROOT,
    mtable |-> [t \in Tables |-> FreeTable],
    host |-> [d \in Devs |-> IF d = ROOTDEV THEN RootDisk ELSE NoDisk]]

Init ==
    /\ minode = Fresh.minode /\ dev = Fresh.dev /\ cwd = Fresh.cwd
    /\ mtable = Fresh.mtable /\ host = Fresh.host

-------------------------------------------------------------------------------
\* A state s within a command, with its local variables: mip, the slot in hand, ino, the
\* inode number found, and whether the program has died.
Now == [minode |-> minode, dev |-> dev, cwd |-> cwd, mtable |-> mtable, host |-> host,
        mip |-> ROOT, ino |-> 0, died |-> FALSE]

Least(S) == CHOOSE x \in S : \A y \in S : x <= y

IsDir(slot) == slot.of \in Ext2 /\ slot.ino \in DOMAIN Tree[slot.of]

\* search, which answers 0 when the name is not there.
search(slot, name) ==
    IF ~IsDir(slot) THEN 0
    ELSE LET entries == Tree[slot.of][slot.ino]
             found == {entries[k][2] : k \in {j \in DOMAIN entries : entries[j][1] = name}}
         IN  IF found = {} THEN 0 ELSE CHOOSE ino \in found : TRUE

\* Assignments to a slot, to an entry of mtable[] and to a descriptor of the host.
SetSlot(s, i, slot) == [s EXCEPT !.minode = [s.minode EXCEPT ![i] = slot]]
SetTable(s, t, entry) == [s EXCEPT !.mtable = [s.mtable EXCEPT ![t] = entry]]
SetHost(s, d, disk) == [s EXCEPT !.host = [s.host EXCEPT ![d] = disk]]

AddRef(s, i, n) == SetSlot(s, i, [s.minode[i] EXCEPT !.ref = s.minode[i].ref + n])
Mark(s, i, t) == SetSlot(s, i, [s.minode[i] EXCEPT !.mounted = t])

\* A slot that holds the inode gets one more reference; or the inode is read into a slot
\* that nobody references.
Hit(s, i) == [AddRef(s, i, 1) EXCEPT !.mip = i]
Load(s, i, device, ino) ==
    [SetSlot(s, i, [dev |-> device, ino |-> ino, of |-> s.host[device], ref |-> 1,
                    mounted |-> s.minode[i].mounted]) EXCEPT !.mip = i]

\* iget finds the slot of an inode, referenced or not, or loads it into the first free one.
iget(s, device, ino) ==
    LET hit == {i \in Slots : s.minode[i].dev = device /\ s.minode[i].ino = ino}
        free == {i \in Slots : s.minode[i].ref = 0}
    IN  IF hit # {} THEN Hit(s, Least(hit))
        ELSE IF free # {} THEN Load(s, Least(free), device, ino)
        ELSE [s EXCEPT !.died = TRUE]

iput(s, i) == AddRef(s, i, -1)

TableOf(s, device) == {t \in Tables : s.mtable[t].dev = device}

\* iget of an inode on a device, which becomes dev.
OnDev(s, device) == [s EXCEPT !.dev = device]
Enter(s, device, ino) == [iget(OnDev(s, device), device, ino) EXCEPT !.ino = ino]

\* From a mount point to the directory it is in.
Beside(s, point) == Enter(s, point.dev, search(point, ".."))

\* Seeded bug: the root of the disk that is left upwards is kept.
CrossUpKeeps(s, t) == Beside(s, s.minode[s.mtable[t].at])

\* Up from the root of a mounted disk.
CrossUp(s, t) == Beside(iput(s, s.mip), s.minode[s.mtable[t].at])

\* Without an entry of mtable[] for the disk getino ends the program.
StepUp(s, tables) ==
    IF tables = {} THEN [s EXCEPT !.died = TRUE] ELSE CrossUp(s, Least(tables))

\* Down from a mount point to the root of the disk that is mounted there.
CrossDown(s) ==
    IF s.died \/ s.minode[s.mip].mounted = NONE THEN s
    ELSE Enter(iput(s, s.mip), s.mtable[s.minode[s.mip].mounted].dev, ROOTINO)

StepDown(s, ino) ==
    IF ino = 0 THEN [iput(s, s.mip) EXCEPT !.ino = 0]
    ELSE CrossDown(Enter(iput(s, s.mip), s.dev, ino))

AtDiskRoot(s) ==
    s.minode[s.mip].dev # s.minode[ROOT].dev /\ s.minode[s.mip].ino = ROOTINO

\* One name of a path; a walk that has failed stays as it is.
Step(s, name) ==
    IF s.died \/ s.ino = 0 THEN s
    ELSE IF name = ".." /\ AtDiskRoot(s) THEN StepUp(s, TableOf(s, s.minode[s.mip].dev))
    ELSE StepDown(s, search(s.minode[s.mip], name))

Slash == [absolute |-> TRUE, names |-> <<>>]

Begin(s, start) ==
    [Hit(OnDev(s, s.minode[start].dev), start) EXCEPT !.ino = ROOTINO]

EndOfWalk(s) == IF s.died \/ s.ino = 0 THEN s ELSE iput(s, s.mip)

\* getino, which leaves dev as it is for "/".
getino(s, path) ==
    LET walk[k \in 0 .. Len(path.names)] ==
            IF k = 0 THEN Begin(s, IF path.absolute THEN ROOT ELSE s.cwd)
            ELSE Step(walk[k - 1], path.names[k])
    IN  IF path = Slash THEN [s EXCEPT !.ino = ROOTINO]
        ELSE EndOfWalk(walk[Len(path.names)])

\* The MINODE of a path name; inode 0, when there is none, is no directory.
InHand(s) == IF s.died THEN s ELSE iget(s, s.dev, s.ino)
Named(s, path) == InHand(getino(s, path))

Here(s) == s.minode[s.mip]
HomeDev(s) == [s EXCEPT !.dev = s.minode[s.cwd].dev]

-------------------------------------------------------------------------------
\* chdir
StandIn(s) ==
    IF s.died THEN s
    ELSE IF IsDir(Here(s)) THEN [iput(s, s.cwd) EXCEPT !.cwd = s.mip]
    ELSE HomeDev(iput(s, s.mip))

chdir(path) == StandIn(Named(Now, path))

\* ls_dir has every entry in hand once.
ls_dir(s, slot) ==
    LET entries == Tree[slot.of][slot.ino]
        listed[k \in 0 .. Len(entries)] ==
            IF k = 0 THEN s
            ELSE EndOfWalk(Enter(listed[k - 1], slot.dev, entries[k][2]))
    IN  listed[Len(entries)]

\* ls
List(s) ==
    IF s.died THEN s
    ELSE HomeDev(iput(IF IsDir(Here(s)) THEN ls_dir(s, Here(s)) ELSE s, s.mip))

ls(path) == List(Named(Now, path))
lsHere == HomeDev(ls_dir(Now, minode[cwd]))

\* pwd walks up with the cwd of the process and has every directory on the way in hand;
\* dev stays where the walk ended.
Up == [absolute |-> FALSE, names |-> <<"..">>]
AtRoot(slot) == slot.ino = ROOTINO /\ slot.dev = ROOTDEV

Climbed(c, s) == [now |-> [s EXCEPT !.cwd = s.mip], held |-> Append(c.held, s.mip)]
Climb(c) ==
    IF c.now.died \/ AtRoot(c.now.minode[c.now.cwd]) THEN c ELSE Climbed(c, Named(c.now, Up))

Released(c) ==
    LET released[k \in 0 .. Len(c.held)] ==
            IF k = 0 THEN c.now ELSE iput(released[k - 1], c.held[k])
    IN  [released[Len(c.held)] EXCEPT !.cwd = cwd]

pwd ==
    LET climb[k \in 0 .. NMINODE] ==
            IF k = 0 THEN [now |-> Now, held |-> <<>>] ELSE Climb(climb[k - 1])
    IN  Released(climb[NMINODE])

-------------------------------------------------------------------------------
\* The cwd of P0 and that of P1.
Standing(s) == {s.cwd, ROOT}

\* A directory is in use when some process stands in one with the same inode number.
InUse(s) == \E i \in Standing(s) : s.minode[i].ino = Here(s).ino

\* The mount point is taken, or refused.
Attach(s, name, t, d) ==
    IF s.died THEN s
    ELSE IF ~IsDir(Here(s)) \/ InUse(s) THEN iput(s, s.mip)
    ELSE SetTable(Mark(s, s.mip, t), t, [dev |-> d, name |-> name, at |-> s.mip])

\* mount.  The descriptor of an image that is then refused is not closed.
Opened(name, d) == SetHost(Now, d, name)

mount(name, path) ==
    LET free == {t \in Tables : mtable[t].dev = NONE}
        closed == {d \in Devs : host[d] = NoDisk}
    IN  IF (\E t \in Tables : mtable[t].name = name) \/ free = {} \/ closed = {} THEN Now
        ELSE IF name \notin Ext2 THEN Opened(name, Least(closed))
        ELSE Attach(Named(Opened(name, Least(closed)), path), name, Least(free), Least(closed))

\* Seeded bug: umount looks at the processes only.
BusyProcesses(t) == \E i \in Standing(Now) : minode[i].dev = mtable[t].dev

\* umount refuses a disk that a process stands in, and one that has a MINODE, referenced
\* or not, unless the number of that is the number of the mount point.
Busy(t) ==
    LET point == minode[mtable[t].at] IN
    \/ \E i \in Standing(Now) : minode[i].dev = mtable[t].dev
    \/ \E i \in Slots : /\ minode[i].dev = mtable[t].dev
                        /\ point.ino # minode[i].ino \/ point.ref > 1

\* Seeded bug: the mount point stays marked.
UnmountedStaysMarked(t) ==
    SetTable(SetHost(iput(Now, mtable[t].at), mtable[t].dev, NoDisk), t, FreeTable)

Unmounted(t) ==
    LET given == iput(Mark(Now, mtable[t].at, NONE), mtable[t].at)
    IN  SetTable(SetHost(given, mtable[t].dev, NoDisk), t, FreeTable)

\* umount
umount(name) ==
    LET found == {t \in Tables : mtable[t].name = name} IN
    IF found = {} \/ Busy(Least(found)) THEN Now ELSE Unmounted(Least(found))

-------------------------------------------------------------------------------
Become(s) ==
    /\ minode' = s.minode /\ dev' = s.dev /\ cwd' = s.cwd
    /\ mtable' = s.mtable /\ host' = s.host

\* quit, or the end of the program by a fault: the host closes everything.
Restart ==
    /\ minode' = Fresh.minode /\ dev' = Fresh.dev /\ cwd' = Fresh.cwd
    /\ mtable' = Fresh.mtable /\ host' = Fresh.host

\* A command; when no slot is free the program dies.
Command(s) == IF s.died THEN Restart ELSE Become(s)

Chdir(path) == Command(chdir(path))
Ls(path) == Command(ls(path))
LsHere == Command(lsHere)
Pwd == Command(pwd)
Mount(name, path) == Command(mount(name, path))
Umount(name) == Command(umount(name))

Next ==
    \/ \E path \in Paths : Chdir(path) \/ Ls(path)
    \/ \E name \in Images, path \in Paths : Mount(name, path)
    \/ \E name \in Images : Umount(name)
    \/ LsHere \/ Pwd \/ Restart

Spec == Init /\ [][Next]_vars

-------------------------------------------------------------------------------
\* The device of an entry of mtable[] is the open image it names, and of no other entry; a
\* mark on a MINODE leads to an entry in use that is mounted there.  So a walk that crosses
\* down or up arrives at a disk that was mounted there and is still.
MountsAgree ==
    /\ \A t \in Tables : mtable[t].dev # NONE =>
            /\ host[mtable[t].dev] = mtable[t].name
            /\ TableOf(Now, mtable[t].dev) = {t}
    /\ \A i \in Slots : minode[i].mounted # NONE =>
            /\ mtable[minode[i].mounted].dev # NONE
            /\ mtable[minode[i].mounted].at = i

\* Between two commands a MINODE is referenced by the root pointer, by P0 and by the entries
\* of mtable[], and by nothing else: each command gives back what it took, on the paths that
\* fail too.
RefsBalanced ==
    \A i \in Slots :
        minode[i].ref = (IF i = ROOT THEN 1 ELSE 0) + (IF i = cwd THEN 1 ELSE 0)
                        + Cardinality({t \in Tables : mtable[t].at = i})

\* Where ".." leads from a place on some disk.
Above(place) ==
    LET tables == TableOf(Now, place.dev)
        point == minode[mtable[Least(tables)].at]
        crossing == place.dev # ROOTDEV /\ place.ino = ROOTINO
    IN  CASE crossing /\ tables = {} -> [dev |-> NONE, ino |-> 0]
          [] crossing /\ tables # {} -> [dev |-> point.dev, ino |-> search(point, "..")]
          [] ~crossing -> [dev |-> place.dev,
                           ino |-> search([of |-> host[place.dev], ino |-> place.ino], "..")]

\* From where P0 stands ".." leads to the root, across however many disks: no disk is
\* unmounted beneath a process or beneath another disk, and pwd ends.
UpLeadsToRoot ==
    LET directories == UNION {{d} \X DOMAIN Tree[d] : d \in Ext2}
        place[k \in 0 .. Cardinality(directories)] ==
            IF k = 0 THEN [dev |-> minode[cwd].dev, ino |-> minode[cwd].ino]
            ELSE IF place[k - 1].dev = NONE THEN place[k - 1] ELSE Above(place[k - 1])
    IN  \E k \in DOMAIN place : place[k] = [dev |-> ROOTDEV, ino |-> ROOTINO]

\* An inode in memory is one of the disk that its device number stands for.
InodesOfTheirDisk ==
    \A i \in Slots : minode[i].dev # NONE => minode[i].of = host[minode[i].dev]
===============================================================================
