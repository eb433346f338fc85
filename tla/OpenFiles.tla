------------------------------ MODULE OpenFiles ------------------------------
(***************************************************************************)
(* The open file table of level-3: open_file, close_file, lseek_file, mydup*)
(* and the reads and writes through a descriptor, for several processes,   *)
(* with the commands that use them (cat, write, append, cp) and the        *)
(* process commands.  A command opens and closes within one step; the      *)
(* interface is also called directly, in any order, as it is written to be.*)
(*                                                                         *)
(* A file is known by its device and its inode number, its size counted in *)
(* units of one write.  Modes are 0644 and every file belongs to uid 0, so *)
(* that everybody may read and P0 alone may write or create.               *)
(*                                                                         *)
(* odd collects the events after which the counts of the table go wrong;   *)
(* the properties say which of them they stand for.                        *)
(***************************************************************************)
EXTENDS Integers, FiniteSets

CONSTANTS
    Files,      \* the files, [dev, ino]
    Absent,     \* those that are not there at first
    NFD,        \* descriptors of a process
    NPROC,      \* processes
    Groups,     \* the groups of processes: root 0, user 1, other 2
    MaxSize,    \* bound on the size of a file
    MaxOpen,    \* bound on the entries in use
    MaxRef      \* bound on the counts of the table and of a MINODE

READ == 0
WRITE == 1
READ_WRITE == 2
APPEND == 3
CLOSED == -1
NULL == 0

NOFT == NFD * NPROC
Ofts == 1 .. NOFT
Fds == 0 .. NFD - 1
Procs == 0 .. NPROC - 1

NoFile == [dev |-> -1, ino |-> -1]

ASSUME OpenFilesAssumption ==
    /\ NoFile \notin Files /\ Absent \subseteq Files
    /\ {0, 1} \subseteq Groups /\ Groups \subseteq Nat
    /\ NFD \in Nat \ {0} /\ NPROC \in Nat /\ NPROC > 1
    /\ MaxSize \in Nat \ {0} /\ MaxRef \in Nat

VARIABLES
    table,      \* oft[], the descriptors of every process, and the files as MINODEs
    proc,       \* group of every process that is READY
    running,
    odd         \* what has happened that the counts do not survive

vars == <<table, proc, running, odd>>

FreeOft == [mode |-> CLOSED, ref |-> 0, file |-> NoFile, offset |-> 0]

Init ==
    /\ table = [oft |-> [o \in Ofts |-> FreeOft],
                fd |-> [p \in Procs |-> [k \in Fds |-> NULL]],
                file |-> [f \in Files |-> [there |-> f \notin Absent, size |-> 1, mode |-> CLOSED, ref |-> 0]]]
    /\ proc = [p \in {0, 1} |-> p]
    /\ running = 0
    /\ odd = {}

-------------------------------------------------------------------------------
\* A state s within a command: the table, what went wrong, and the value returned.
Now == [table |-> table, odd |-> odd, ret |-> 0]
Ret(s, n) == [s EXCEPT !.ret = n]

First(S, default) == IF S = {} THEN default ELSE CHOOSE x \in S : \A y \in S : x <= y

InUse(s, o) == s.table.oft[o].file # NoFile
OftsOf(s, f) == {o \in Ofts : s.table.oft[o].file = f}

\* The table knows the files by their inode number.
SameIno(s, f) == {o \in Ofts : InUse(s, o) /\ s.table.oft[o].file.ino = f.ino}

\* The search for a free entry stops at the last one when there is none.
FreeEntry(s) == First({o \in Ofts : s.table.oft[o].ref = 0}, NOFT)

\* The search for a free descriptor ends beyond the last one when there is none.
FreeFd(s, p) == First({k \in Fds : s.table.fd[p][k] = NULL}, NFD)

\* Seeded bug: a file that is open for reading is opened for writing.
MayShareAny(old, new) == old \in {CLOSED, READ}

\* Files are shared by readers only.
MayShare(old, new) == old = CLOSED \/ (old = READ /\ new = READ)

\* What happens that the counts do not survive.
Irregular(s, p, f) ==
    {x \in {"second reader", "third reader", "same inode", "full"} :
        \/ x = "second reader" /\ OftsOf(s, f) # {}
        \/ x = "third reader" /\ Cardinality(OftsOf(s, f)) > 1
        \/ x = "same inode" /\ SameIno(s, f) # OftsOf(s, f)
        \/ x = "full" /\ (FreeFd(s, p) = NFD \/ \A o \in Ofts : s.table.oft[o].ref # 0)}

\* Seeded bug: the reader that joins is not counted at the entries that are there.
CountReaderAlone(oft, o, prev) == [oft EXCEPT ![o].ref = oft[prev].ref + 1]

\* The reader that joins counts itself at one entry of the file, and takes its count.
CountReader(oft, o, prev) ==
    LET ref == oft[prev].ref + 1
    IN  [oft EXCEPT ![prev].ref = ref, ![o].ref = ref]

\* open_file, from the point where the file may be opened.
Opened(s, p, f, mode) ==
    LET o == FreeEntry(s)
        k == FreeFd(s, p)
        prev == First(SameIno(s, f), NOFT)
        file == s.table.file[f]
        shared == file.mode # CLOSED
        entry == [s.table.oft EXCEPT ![o] =
            [mode |-> mode, ref |-> IF shared THEN @.ref ELSE 1, file |-> f,
             offset |-> IF mode = APPEND THEN file.size ELSE 0]]
    IN  [table |->
            [oft |-> IF shared THEN CountReader(entry, o, prev) ELSE entry,
             fd |-> [s.table.fd EXCEPT ![p] = [x \in Fds |-> IF x = k THEN o ELSE @[x]]],
             file |-> [s.table.file EXCEPT ![f] =
                [there |-> @.there, size |-> IF mode = WRITE THEN 0 ELSE @.size,
                 mode |-> mode, ref |-> @.ref + 1]]],
         odd |-> s.odd \cup Irregular(s, p, f),
         ret |-> k]

\* tryCreate of a file that is not there, by who may.
Made(s, p, f, mode) ==
    IF s.table.file[f].there \/ mode = READ \/ p # 0 THEN s
    ELSE [s EXCEPT !.table.file[f] =
            [there |-> TRUE, size |-> 0, mode |-> @.mode, ref |-> @.ref]]

\* Seeded bug: open_file keeps the MINODE of a file it refuses.
open_fileKeeps(s, p, f, mode) ==
    LET made == Made(s, p, f, mode) IN
    CASE ~made.table.file[f].there -> Ret(s, -1)
      [] made.table.file[f].there /\ mode # READ /\ p # 0 -> Ret(s, -3)
      [] made.table.file[f].there /\ (mode # READ => p = 0) ->
            IF MayShare(made.table.file[f].mode, mode) THEN Opened(made, p, f, mode)
            ELSE Ret([made EXCEPT !.table.file[f].ref = @ + 1], -4)

\* open_file.  Where no file could be created inode 0 is looked at, which is taken for
\* something else than a regular file; -1 stands for -14 too.
open_file(s, p, f, mode) ==
    LET made == Made(s, p, f, mode) IN
    CASE ~made.table.file[f].there -> Ret(s, -1)
      [] made.table.file[f].there /\ mode # READ /\ p # 0 -> Ret(s, -3)
      [] made.table.file[f].there /\ (mode # READ => p = 0) ->
            IF MayShare(made.table.file[f].mode, mode) THEN Opened(made, p, f, mode)
            ELSE Ret(made, -4)

IsOpen(s, p, k) == k \in Fds /\ s.table.fd[p][k] # NULL
OftOf(s, p, k) == s.table.oft[s.table.fd[p][k]]

\* Seeded bug: close_file counts down its own entry only.
CountDownOwn(s, o) == [s.table.oft EXCEPT ![o].ref = @ - 1]

\* close_file takes one from every entry of the inode number.
CountDown(s, o) ==
    LET oft == s.table.oft
        same == SameIno(s, oft[o].file)
    IN  [x \in Ofts |-> IF x \in same THEN [oft[x] EXCEPT !.ref = @ - 1] ELSE oft[x]]

\* close_file; the last one releases the MINODE.
close_file(s, p, k) ==
    IF ~IsOpen(s, p, k) THEN Ret(s, -1)
    ELSE LET o == s.table.fd[p][k]
             f == s.table.oft[o].file
             counted == CountDown(s, o)
             last == counted[o].ref = 0
         IN  [table |->
                [oft |-> [counted EXCEPT ![o] = FreeOft],
                 fd |-> [s.table.fd EXCEPT ![p][k] = NULL],
                 file |-> IF ~last THEN s.table.file
                          ELSE [s.table.file EXCEPT ![f] =
                            [there |-> @.there, size |-> @.size, mode |-> CLOSED, ref |-> @.ref - 1]]],
              odd |-> s.odd,
              ret |-> 1]

\* Seeded bug: lseek_file takes a position before the file.
lseek_fileBefore(s, p, k, position) ==
    IF IsOpen(s, p, k) /\ position < s.table.file[OftOf(s, p, k).file].size
    THEN Ret([s EXCEPT !.table.oft[s.table.fd[p][k]].offset = position], 1)
    ELSE Ret(s, -1)

\* lseek_file stays within the file, and before its end.
lseek_file(s, p, k, position) ==
    IF IsOpen(s, p, k) /\ position >= 0 /\ position < s.table.file[OftOf(s, p, k).file].size
    THEN Ret([s EXCEPT !.table.oft[s.table.fd[p][k]].offset = position], 1)
    ELSE Ret(s, -1)

\* tryRead of one unit, and readFromFile, which reads unless the offset is the size.
tryRead(s, p, k) ==
    IF IsOpen(s, p, k) /\ OftOf(s, p, k).mode \in {READ, READ_WRITE}
       /\ OftOf(s, p, k).offset # s.table.file[OftOf(s, p, k).file].size
    THEN Ret([s EXCEPT !.table.oft[s.table.fd[p][k]].offset = @ + 1], 1)
    ELSE Ret(s, 0)

\* tryWrite of one unit, and writeToFile, which writes nothing when the disk has no room.
tryWrite(s, p, k, room) ==
    IF IsOpen(s, p, k) /\ OftOf(s, p, k).mode # READ /\ room
    THEN LET o == s.table.fd[p][k]
             offset == s.table.oft[o].offset + 1
         IN  [table |->
                [oft |-> [s.table.oft EXCEPT ![o].offset = offset],
                 fd |-> s.table.fd,
                 file |-> [s.table.file EXCEPT ![s.table.oft[o].file].size =
                                IF offset > @ THEN offset ELSE @]],
              odd |-> s.odd,
              ret |-> 1]
    ELSE Ret(s, -1)

\* mydup copies the entry, and counts the copy at every entry of the inode number.
mydup(s, p, k) ==
    IF ~IsOpen(s, p, k) THEN Ret(s, -1)
    ELSE LET o == FreeEntry(s)
             new == FreeFd(s, p)
             oft == [s.table.oft EXCEPT ![o] = OftOf(s, p, k)]
             same == {o} \cup SameIno(s, OftOf(s, p, k).file)
         IN  [table |->
                [oft |-> [x \in Ofts |-> IF x \in same THEN [oft[x] EXCEPT !.ref = @ + 1]
                                        ELSE oft[x]],
                 fd |-> [s.table.fd EXCEPT ![p] = [x \in Fds |-> IF x = new THEN o ELSE @[x]]],
                 file |-> s.table.file],
              odd |-> s.odd \cup (Irregular(s, p, OftOf(s, p, k).file) \cap {"full"}),
              ret |-> 1]

-------------------------------------------------------------------------------
\* What a command does with the descriptor of a file that could not be opened: it
\* looks before or behind fd[], and goes on or dies.
DIES == -100

\* cat
cat(s, p, f) ==
    LET opened == open_file(s, p, f, READ) IN
    CASE opened.ret < 0 -> opened
      [] opened.ret = NFD -> Ret(opened, DIES)
      [] opened.ret \in Fds -> close_file(opened, p, opened.ret)

\* The commands write and append do not look at what open_file returns.
write(s, p, f, mode, room) ==
    LET opened == open_file(s, p, f, mode) IN
    close_file(tryWrite(opened, p, opened.ret, room), p, opened.ret)

\* copyFile: read and write until nothing is left; of what is read the disk has room for
\* so many units, which nobody asks.
copyFile(s, p, source, dest, room) ==
    LET copied[n \in 0 .. MaxSize] ==
            IF n = 0 THEN s
            ELSE LET r == tryRead(copied[n - 1], p, source)
                 IN  IF r.ret = 1 THEN tryWrite(r, p, dest, n <= room) ELSE r
    IN  copied[MaxSize]

\* tryCopy
tryCopy(s, p, f, g, room) ==
    LET source == open_file(s, p, f, READ)
        dest == open_file(source, p, g, WRITE)
        copied == copyFile(dest, p, source.ret, dest.ret, room)
    IN  CASE ~s.table.file[f].there -> Ret(s, -3)
          [] s.table.file[f].there /\ source.ret < 0 -> source
          [] s.table.file[f].there /\ source.ret >= 0 /\ dest.ret < 0 ->
                close_file(dest, p, source.ret)
          [] s.table.file[f].there /\ source.ret >= 0 /\ dest.ret = NFD -> Ret(dest, DIES)
          [] s.table.file[f].there /\ source.ret >= 0 /\ dest.ret \in Fds ->
                close_file(close_file(copied, p, dest.ret), p, source.ret)

\* kill_process closes the descriptors of the running process with the numbers of those
\* that the killed one has open.
closeAll(s, p, q) ==
    LET closed[n \in 0 .. NFD] ==
            IF n = 0 THEN s
            ELSE LET before == closed[n - 1]
                     after == IF IsOpen(before, q, n - 1) THEN close_file(before, p, n - 1)
                              ELSE before
                 IN  [after EXCEPT !.table.fd[q][n - 1] = NULL]
    IN  closed[NFD]

-------------------------------------------------------------------------------
\* The counts hold as long as nothing but a second reader has come along.
Regular == odd \subseteq {"second reader"}

Within(s) ==
    /\ Cardinality({o \in Ofts : InUse(s, o)}) <= MaxOpen
    /\ \A o \in Ofts : s.table.oft[o].ref \in -MaxRef .. MaxRef /\ s.table.oft[o].offset <= MaxSize
    /\ \A f \in Files : s.table.file[f].ref <= MaxRef /\ s.table.file[f].size <= MaxSize

\* A new start of the program: see init.
Fresh(s) ==
    [oft |-> [o \in Ofts |-> FreeOft],
     fd |-> [p \in Procs |-> [k \in Fds |-> NULL]],
     file |-> [f \in Files |-> [there |-> s.table.file[f].there, size |-> s.table.file[f].size,
                                mode |-> CLOSED, ref |-> 0]]]

Restart(t, why) ==
    /\ table' = t
    /\ proc' = [p \in {0, 1} |-> p]
    /\ running' = 0
    /\ odd' = why

\* quit writes every MINODE; the program is started anew.
Quit == Restart(Fresh(Now), {})

\* The program dies in the state s.  The size of a file whose MINODE is referenced may not
\* have been written; which sizes were is not followed.
Die(s) ==
    LET unsaved == {f \in Files : s.table.file[f].ref > 0}
    IN  \E size \in [unsaved -> 0 .. MaxSize] :
            Restart([Fresh(s) EXCEPT !.file = [f \in Files |->
                        [Fresh(s).file[f] EXCEPT !.size = IF f \in unsaved THEN size[f]
                                                          ELSE s.table.file[f].size]]], {})

\* The program runs on, or it dies, or it runs on with counts that are wrong, and with
\* descriptors that will point to entries without a MINODE: the model notes why and
\* follows it no further.
Step(s) ==
    /\ Regular
    /\ CASE s.ret = DIES -> Die(s)
         [] s.ret # DIES /\ ~(s.odd \subseteq {"second reader"}) -> Restart(Fresh(Now), s.odd)
         [] s.ret # DIES /\ s.odd \subseteq {"second reader"} ->
                /\ Within(s)
                /\ table' = s.table
                /\ odd' = s.odd
                /\ UNCHANGED <<proc, running>>

Open(f, mode) == Step(open_file(Now, running, f, mode))
Close(k) == Step(close_file(Now, running, k))
Lseek(k, position) == Step(lseek_file(Now, running, k, position))
Dup(k) == Step(mydup(Now, running, k))
Read(k) == Step(tryRead(Now, running, k))
WriteTo(k) == \E room \in BOOLEAN : Step(tryWrite(Now, running, k, room))
Cat(f) == Step(cat(Now, running, f))
Copy(f, g) == \E room \in 0 .. MaxSize : Step(tryCopy(Now, running, f, g, room))

\* With the descriptor -1, -3 or -4 write may die; without a text it dies as in Die(Now).
Write(f, mode) ==
    \/ \E room \in BOOLEAN : Step(write(Now, running, f, mode, room))
    \/ /\ open_file(Now, running, f, mode).ret < 0
       /\ Step(Ret(Now, DIES))

\* create_process takes the first free PROC; its descriptors are as they were left.
CreateProcess(usertype) ==
    /\ Regular
    /\ usertype >= proc[running]
    /\ DOMAIN proc # Procs
    /\ LET p == First(Procs \ DOMAIN proc, 0)
       IN  proc' = [q \in DOMAIN proc \cup {p} |-> IF q = p THEN usertype ELSE proc[q]]
    /\ UNCHANGED <<table, running, odd>>

SwitchProcess(p) ==
    /\ Regular
    /\ p \in DOMAIN proc
    /\ running' = p
    /\ UNCHANGED <<table, proc, odd>>

\* kill_process
KillProcess(q) ==
    /\ Regular
    /\ q \in DOMAIN proc \ {0}
    /\ proc[q] < proc[running] \/ q = running
    /\ IF q # running /\ \E k \in Fds : IsOpen(Now, q, k)
       THEN Restart(Fresh(Now), {"wrong kill"})
       ELSE /\ LET s == closeAll(Now, running, q) IN
               /\ Within(s)
               /\ table' = s.table
               /\ odd' = s.odd
            /\ proc' = [p \in DOMAIN proc \ {q} |-> proc[p]]
            /\ running' = IF q = running THEN 0 ELSE running

Next ==
    \/ \E f \in Files, mode \in READ .. APPEND : Open(f, mode)
    \/ \E k \in Fds : Close(k) \/ Dup(k) \/ Read(k) \/ WriteTo(k)
    \/ \E k \in Fds, position \in -1 .. MaxSize : Lseek(k, position)
    \/ \E f \in Files : Cat(f) \/ Write(f, WRITE) \/ Write(f, APPEND)
    \/ \E f, g \in Files : Copy(f, g)
    \/ \E p \in Procs : SwitchProcess(p) \/ KillProcess(p)
    \/ \E usertype \in Groups : CreateProcess(usertype)
    \/ Quit \/ Die(Now)

Spec == Init /\ [][Next]_vars

-------------------------------------------------------------------------------
\* Types, with the bounds.
TypeOK ==
    /\ table.oft \in [Ofts -> [mode : CLOSED .. APPEND, ref : -MaxRef .. MaxRef,
                               file : Files \cup {NoFile}, offset : 0 .. MaxSize]]
    /\ table.fd \in [Procs -> [Fds -> Ofts \cup {NULL}]]
    /\ table.file \in [Files -> [there : BOOLEAN, size : 0 .. MaxSize,
                                 mode : CLOSED .. APPEND, ref : -MaxRef .. MaxRef]]
    /\ running \in DOMAIN proc /\ DOMAIN proc \subseteq Procs
    /\ odd \subseteq {"second reader", "third reader", "same inode", "full", "wrong kill"}

\* The descriptors of all processes for a file.
Holders(f) == {d \in Procs \X Fds : IsOpen(Now, d[1], d[2]) /\ OftOf(Now, d[1], d[2]).file = f}

\* The count of an entry, which tells close_file that the last one goes, is the number of
\* the descriptors, of whatever process, that the file is open through.
RefCounts ==
    Regular => \A o \in Ofts :
        table.oft[o].ref = IF InUse(Now, o) THEN Cardinality(Holders(table.oft[o].file)) ELSE 0

\* The mode of a MINODE, which open_file decides by, is the mode of every entry of the
\* file, and CLOSED when it has none: a file is never shut for ever.
ModesAgree ==
    Regular => \A f \in Files :
        LET modes == {table.oft[o].mode : o \in OftsOf(Now, f)}
        IN  \/ table.file[f].mode = CLOSED /\ modes = {}
            \/ modes = {table.file[f].mode}

\* A MINODE is referenced as long as an entry points to it, and, unless a second reader
\* has taken a reference that close_file never gives back, not longer.
MinodesHeld ==
    Regular => \A f \in Files :
        /\ OftsOf(Now, f) # {} => table.file[f].ref > 0
        /\ odd = {} /\ OftsOf(Now, f) = {} => table.file[f].ref = 0

\* No offset is beyond the end of the file, where readFromFile would take the
\* difference for a very large number: nobody truncates a file that another has open.
OffsetsWithin ==
    Regular => \A o \in Ofts :
        InUse(Now, o) => table.oft[o].offset <= table.file[table.oft[o].file].size
===============================================================================
