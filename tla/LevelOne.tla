------------------------------- MODULE LevelOne -------------------------------
(***************************************************************************)
(* The first stage of the project, level-1: one process, one device, the   *)
(* commands that make and remove names and cd, over the state of FileSystem*)
(* and with its iget, iput, search, getino, ialloc, balloc, enter_name and *)
(* removeChild, which this stage has too.  What differs is written here:   *)
(* nobody is denied, bdalloc and the free counts concern nobody, quit does *)
(* not write the counts, a failed cd and a failed rmdir forget a reference,*)
(* and unlink releases the parent directory once, where level-3 does twice.*)
(***************************************************************************)
EXTENDS FileSystem

\* main: root and the cwd of the only process refer to inode 2.
BootOne ==
    /\ up = "down" /\ image \in {"sound", "miscounted"}
    /\ core' = [inode |-> disk.inode, ref |-> [i \in Inos |-> IF i = ROOT THEN 2 ELSE 0],
                inodes |-> disk.inodes]
    /\ proc' = [NoProc EXCEPT ![0] = [status |-> "READY", gid |-> 0, cwd |-> ROOT]]
    /\ running' = 0
    /\ up' = "up"
    /\ UNCHANGED <<disk, image>>

\* What the only process makes belongs to uid 0.
createFileOne(s, d, n) == createFile(s, 0, d, n)
makeDirectoryOne(s, d, n) == makeDirectory(s, 0, d, n)

IsNew(s, d, n) == IsDir(s, d) /\ search(s, d, n) = 0

\* The part tryCreate and tryMakeDirectory share, made being what a new name leads to.
TryMake(s, c, p, made) ==
    LET d == getino(s, c, Parent(p)) IN
    CASE d = STUCK -> Stuck(s)
      [] d # STUCK /\ IsNew(s, d, Base(p)) -> made
      [] OTHER -> <<s>>

tryCreateOne(s, c, p) ==
    LET d == getino(s, c, Parent(p)) IN
    TryMake(s, c, p, createFileOne(iget(s, d), d, Base(p)))
tryMakeDirectoryOne(s, c, p) ==
    LET d == getino(s, c, Parent(p)) IN
    TryMake(s, c, p, makeDirectoryOne(iget(s, d), d, Base(p)))

\* tryLink: the entry first, then the link count of the file.
tryLinkOne(s, c, old, new) ==
    LET od == getino(s, c, Parent(old))
        i == search(s, od, Base(old))
        nd == getino(s, c, Parent(new))
        s1 == enter_name(iget(iget(iget(s, od), i), nd), nd, i, Base(new))
        s2 == AddLinks(s1, i, 1)
    IN  CASE od = STUCK -> Stuck(s)
          [] IsDir(s, od) /\ i # 0 /\ ~IsDir(s, i) ->
                CASE nd = STUCK -> Stuck(s)
                  [] nd # STUCK /\ IsNew(s, nd, Base(new)) -> <<s1, iput3(s2, nd, i, od)>>
                  [] OTHER -> <<s>>
          [] OTHER -> <<s>>

\* freeInodeAndBlocks goes over as many i_block[] as i_blocks says, 2 for a directory
\* of one block; bdalloc refuses the 0 that comes second.  A file and a link have none.
freeInodeAndBlocks(s, i) ==
    LET s1 == IF IsDir(s, i) THEN truncate(s, i) ELSE s IN <<s1, idalloc(s1, i)>>

\* Seeded bug: the parent is released twice, as level-3 does.
tryUnlinkOneTwice(s, c, p) ==
    LET i == getino(s, c, p)
        d == getino(s, c, Parent(p))
        s1 == iput(removeChild(iget(iget(s, i), d), d, Base(p)), d)
        s2 == AddLinks(s1, i, -1)
        s3 == IF s2.core.inode[i].links <= 0 THEN Last(freeInodeAndBlocks(s2, i)) ELSE s2
    IN  CASE i = STUCK -> Stuck(s)
          [] i \in Inos /\ ~IsDir(s, i) -> <<s1, s3, iput(iput(s3, i), d)>>
          [] OTHER -> <<s>>

\* tryUnlink: the name first, then the link count.
tryUnlinkOne(s, c, p) ==
    LET i == getino(s, c, p)
        d == getino(s, c, Parent(p))
        s1 == iput(removeChild(iget(iget(s, i), d), d, Base(p)), d)
        s2 == AddLinks(s1, i, -1)
        s3 == IF s2.core.inode[i].links <= 0 THEN Last(freeInodeAndBlocks(s2, i)) ELSE s2
    IN  CASE i = STUCK -> Stuck(s)
          [] i \in Inos /\ ~IsDir(s, i) -> <<s1, s3, iput(s3, i)>>
          [] OTHER -> <<s>>

\* removeDirectory and the iputs after it.
removeDirectoryOne(s, d, i, n) ==
    LET freed == freeInodeAndBlocks(s, i)
        s3 == removeChild(Last(freed), d, n)
    IN  IF s.core.ref[i] = 1 /\ s.core.inode[i].links <= 2
        THEN freed \o <<s3, iput(s3, i), iput(iput(s3, i), d)>>
        ELSE <<iput(iput(s, i), d)>>

\* tryRemoveDirectory forgets the iput of a parent that is not a directory; rmdir ".."
\* is followed as far as FileSystem does.
tryRemoveDirectoryOne(s, c, p) ==
    LET d == getino(s, c, Parent(p))
        i == search(s, d, Base(p))
        t == removeDirectoryOne(iget(iget(s, d), i), d, i, Base(p))
    IN  CASE d = STUCK -> Stuck(s)
          [] d # STUCK /\ ~IsDir(s, d) -> <<iget(s, d)>>
          [] IsDir(s, d) /\ ~IsDir(s, i) -> <<s>>
          [] IsDir(s, d) /\ IsDir(s, i) ->
                IF Len(t) > 1 /\ Unnamed(p)
                THEN <<[s EXCEPT !.up = "rmdir of a parent"]>> ELSE t

\* symlink creates a file and turns it into a link; when it cannot, it does not
\* release the old file.
symlinkOne(s, c, old, new) ==
    LET od == getino(s, c, Parent(old))
        i == search(s, od, Base(old))
        nd == getino(s, c, Parent(new))
        created == tryCreateOne(iget(iget(s, od), i), c, new)
        t == Last(created)
        n == getino(t, c, new)
        linked == iget(t, n)
    IN  CASE od = STUCK -> Stuck(s)
          [] IsDir(s, od) /\ i # 0 ->
                CASE t.up # "up" -> created
                  [] t.up = "up" /\ IsNew(s, nd, Base(new)) ->
                        created \o <<iput(linked, n), iput3(linked, n, i, od)>>
                  [] OTHER -> <<iput(t, od)>>
          [] OTHER -> <<s>>

-------------------------------------------------------------------------------
MkdirOne(p) == Command(tryMakeDirectoryOne(Now, Cwd, p), "mkdir")
CreatOne(p) == Command(tryCreateOne(Now, Cwd, p), "creat")
RmdirOne(p) == Removal(tryRemoveDirectoryOne(Now, Cwd, p), p, "rmdir")
UnlinkOne(p) == Removal(tryUnlinkOne(Now, Cwd, p), p, "unlink")
LinkOne(p, q) == Command(tryLinkOne(Now, Cwd, p, q), "link")
SymlinkOne(p, q) == Command(symlinkOne(Now, Cwd, p, q), "symlink")

\* chdir: a path that leads to no directory leaves its reference behind.
ChdirOne(p) ==
    LET i == getino(Now, Cwd, p) IN
    /\ up = "up"
    /\ CASE i = STUCK -> Finish(Last(Stuck(Now)), proc, running, "chdir")
         [] i # STUCK /\ ~IsDir(Now, i) -> Finish(iget(Now, i), proc, running, "chdir")
         [] IsDir(Now, i) ->
                Finish(iput(iget(Now, i), Cwd), [proc EXCEPT ![0].cwd = i], running, "chdir")

\* quit: every INODE that is still referenced is written, the free counts are not.
QuitOne ==
    /\ up = "up"
    /\ Halted
    /\ disk' = [disk EXCEPT
                    !.inode = [i \in Inos |-> IF core.ref[i] > 0 THEN core.inode[i] ELSE @[i]]]
    /\ up' = "down"
    /\ UNCHANGED image

\* mkdisk makes a new file system.
Mkdisk ==
    /\ up \in {"down", "lost"}
    /\ disk # FreshDisk \/ image # "sound"
    /\ Halted
    /\ disk' = FreshDisk
    /\ up' = "down"
    /\ image' = "sound"

NextOne ==
    \/ BootOne \/ QuitOne \/ Crash \/ Mkdisk
    \/ \E p \in Paths : MkdirOne(p) \/ CreatOne(p) \/ RmdirOne(p) \/ UnlinkOne(p)
    \/ \E p, q \in Paths : LinkOne(p, q) \/ SymlinkOne(p, q)
    \/ \E p \in Paths \cup {RootPath, UpPath} : ChdirOne(p)

SpecOne == Init /\ [][NextOne]_vars

-------------------------------------------------------------------------------
\* Root and the cwd hold a reference each, whatever commands fail in between, so that
\* iget never takes their slot for another inode, and rmdir, which goes by the reference
\* count (rmdir.c:73), removes no cwd.  Level-3 has lost this (link_unlink.c:143).
PointersHeld ==
    /\ image # "rmdir of a cwd"
    /\ up = "up" => \A i \in Inos : core.ref[i] >= Pointers(proc, i)
===============================================================================
