------------------------------ MODULE MinodeCache ------------------------------
(***************************************************************************)
(* The table of in-memory inodes, minode[NMINODE], of level-3: iget and    *)
(* iput (util.c), the start of the program (main.c: init, mount_root,      *)
(* create_process), quit, and a crash at any point, together with the      *)
(* pointers into the table that the rest of the program keeps: root, the   *)
(* cwd of every process, and the local MINODE pointers of the command that *)
(* is running.                                                             *)
(*                                                                         *)
(* A command is any sequence of looking inodes up, changing them and       *)
(* releasing them, so that what is shown holds for whichever order the     *)
(* commands of level-3 do these in.  Three callers do not keep the books   *)
(* that iget and iput rely on: create_process (a pointer that is not       *)
(* counted), tryUnlink (one pointer released twice) and tryLink (an inode  *)
(* that grows and is not marked dirty).  Each such step adds to lapses.    *)
(***************************************************************************)
EXTENDS Integers, FiniteSets

CONSTANTS
    Keys,       \* the [dev, ino] pairs in use
    RootKey,    \* the root directory of the root device, [root->dev, 2]
    NoKey,      \* dev = ino = 0, a slot that was never loaded
    Values,     \* the contents an INODE can have
    Locals,     \* the local MINODE pointers of the running command
    NULL,       \* the null pointer
    NMINODE,    \* slots of minode[]
    NPROC,      \* processes
    MaxRef,     \* bound on refCount
    MaxLapses   \* bound on the steps that break the contract of iget and iput

ASSUME CacheAssumption ==
    /\ RootKey \in Keys
    /\ NoKey \notin Keys
    /\ NMINODE \in Nat \ {0}
    /\ NPROC \in Nat \ {0}
    /\ Values # {}
    /\ NULL \notin 0 .. NMINODE - 1
    /\ IsFiniteSet(Locals)
    /\ MaxRef \in Nat
    /\ MaxLapses \in Nat

Slots == 0 .. NMINODE - 1
Procs == 0 .. NPROC - 1

\* mount_root runs on an empty table, so iget gives it the first slot; the
\* pointer is never assigned again.
root == 0

VARIABLES
    up,         \* the program is running
    minode,     \* the table: key ([dev, ino]), refCount, dirty and INODE
    disk,       \* the inode tables of the devices
    cwd,        \* proc[p].cwd, NULL for a FREE process
    local,      \* the pointers the running command holds
    lapses      \* how often a caller broke the contract, in this run

vars == <<up, minode, disk, cwd, local, lapses>>

MINODE == [key : Keys \cup {NoKey}, refCount : Int, dirty : BOOLEAN, INODE : Values]

\* Static storage, cleared by init().
EmptySlot == [key |-> NoKey, refCount |-> 0, dirty |-> FALSE,
              INODE |-> CHOOSE v \in Values : TRUE]

Init ==
    /\ up = FALSE
    /\ disk \in [Keys -> Values]
    /\ minode = [s \in Slots |-> EmptySlot]
    /\ cwd = [p \in Procs |-> NULL]
    /\ local = [t \in Locals |-> NULL]
    /\ lapses = 0

\* main: init() clears the table, mount_root() and P0's cwd take one reference
\* each to the root inode, and create_process(USER_GROUP) points the cwd of P1
\* at the root without counting it.
Boot ==
    /\ ~up
    /\ up' = TRUE
    /\ minode' = [s \in Slots |->
                    IF s = root THEN [key |-> RootKey, refCount |-> 2,
                                      dirty |-> FALSE, INODE |-> disk[RootKey]]
                    ELSE EmptySlot]
    /\ cwd' = [p \in Procs |-> IF p \in {0, 1} THEN root ELSE NULL]
    /\ lapses' = 0
    /\ UNCHANGED <<disk, local>>

\* Seeded bug: iget overlooks a slot whose refCount went below 1.
LoadedAndHeld(k) == \E s \in Slots : minode[s].key = k /\ minode[s].refCount > 0

Loaded(k) == \E s \in Slots : minode[s].key = k
SlotOf(k) == CHOOSE s \in Slots : minode[s].key = k
\* Seeded bug: iget takes a slot with one reference left for a free one.
FreeSlotsLate == {s \in Slots : minode[s].refCount <= 1}

FreeSlots == {s \in Slots : minode[s].refCount = 0}
IsFirstFree(s) == s \in FreeSlots /\ \A r \in FreeSlots : s <= r

\* mip->refCount++ on a slot, by iget on a hit and by getino on its start.
Hold(s) ==
    /\ minode[s].refCount < MaxRef
    /\ minode' = [minode EXCEPT ![s].refCount = @ + 1]

\* iget finds [dev, ino] in the table.
IgetHit(t, k) ==
    /\ up /\ local[t] = NULL
    /\ Loaded(k)
    /\ Hold(SlotOf(k))
    /\ local' = [local EXCEPT ![t] = SlotOf(k)]
    /\ UNCHANGED <<up, disk, cwd, lapses>>

\* iget loads the inode in the first slot whose refCount is 0.  The dirty flag
\* of the slot's last user stays as it is.
IgetMiss(t, k, s) ==
    /\ up /\ local[t] = NULL
    /\ ~Loaded(k)
    /\ IsFirstFree(s)
    /\ minode' = [minode EXCEPT ![s] =
                    [key |-> k, refCount |-> 1, dirty |-> @.dirty, INODE |-> disk[k]]]
    /\ local' = [local EXCEPT ![t] = s]
    /\ UNCHANGED <<up, disk, cwd, lapses>>

\* The memory of the program is gone; the next Boot starts from the disk.
Stop ==
    /\ up' = FALSE
    /\ minode' = [s \in Slots |-> EmptySlot]
    /\ cwd' = [p \in Procs |-> NULL]
    /\ local' = [t \in Locals |-> NULL]
    /\ lapses' = 0

\* iget finds no free slot and returns 0; every caller but tryRemoveDirectory
\* dereferences it.
IgetPanic(k) ==
    /\ up
    /\ ~Loaded(k)
    /\ FreeSlots = {}
    /\ Stop
    /\ UNCHANGED disk

\* Seeded bug: getino starts its walk without mip->refCount++.
GetinoStartUncounted(t, s) ==
    /\ up /\ local[t] = NULL
    /\ s \in {root} \cup ({cwd[p] : p \in Procs} \ {NULL})
    /\ local' = [local EXCEPT ![t] = s]
    /\ UNCHANGED <<up, minode, disk, cwd, lapses>>

\* getino starts its walk at root or at the cwd: mip->refCount++.
GetinoStart(t, s) ==
    /\ up /\ local[t] = NULL
    /\ s \in {root} \cup ({cwd[p] : p \in Procs} \ {NULL})
    /\ Hold(s)
    /\ local' = [local EXCEPT ![t] = s]
    /\ UNCHANGED <<up, disk, cwd, lapses>>

\* What iput(&minode[s]), done n times, leaves in the table and on the disk.
Released(s, n) == [minode EXCEPT ![s].refCount = @ - n]

\* Seeded bug: iput writes back only below zero (refCount < 0).
WrittenBackLate(s, n) ==
    IF minode[s].refCount - n < 0 /\ minode[s].dirty
    THEN [disk EXCEPT ![minode[s].key] = minode[s].INODE]
    ELSE disk

\* Seeded bug: iput copies the MINODE, not its INODE, into the block.
WrittenBackWhole(s, n) ==
    IF minode[s].refCount - n <= 0 /\ minode[s].dirty
    THEN [disk EXCEPT ![minode[s].key] = minode[s]]
    ELSE disk

WrittenBack(s, n) ==
    IF minode[s].refCount - n <= 0 /\ minode[s].dirty
    THEN [disk EXCEPT ![minode[s].key] = minode[s].INODE]
    ELSE disk

Iput(t) ==
    /\ up /\ local[t] # NULL
    /\ minode' = Released(local[t], 1)
    /\ disk' = WrittenBack(local[t], 1)
    /\ local' = [local EXCEPT ![t] = NULL]
    /\ UNCHANGED <<up, cwd, lapses>>

\* The early returns that forget their iput: permission denied in tryCreate and
\* tryMakeDirectory, a failed creation in symlink, a successful mount.
Forget(t) ==
    /\ up /\ local[t] # NULL
    /\ local' = [local EXCEPT ![t] = NULL]
    /\ UNCHANGED <<up, minode, disk, cwd, lapses>>

\* A command changes the INODE it holds and sets dirty.
Modify(t, v) ==
    /\ up /\ local[t] # NULL
    /\ minode' = [minode EXCEPT ![local[t]].INODE = v, ![local[t]].dirty = TRUE]
    /\ UNCHANGED <<up, disk, cwd, local, lapses>>

Lapse ==
    /\ lapses < MaxLapses
    /\ lapses' = lapses + 1

\* tryLink: enter_name gives the directory a new block (i_block, i_blocks and
\* i_size change), and the directory is released without being marked dirty.
LinkGrows(t, v) ==
    /\ up /\ local[t] # NULL
    /\ Lapse
    /\ minode' = [minode EXCEPT ![local[t]].INODE = v]
    /\ UNCHANGED <<up, disk, cwd, local>>

\* tryUnlink on success: iput(parentMInode) twice for one iget.
UnlinkReleases(t) ==
    /\ up /\ local[t] # NULL
    /\ Lapse
    /\ minode' = Released(local[t], 2)
    /\ disk' = WrittenBack(local[t], 2)
    /\ local' = [local EXCEPT ![t] = NULL]
    /\ UNCHANGED <<up, cwd>>

\* Seeded bug: chdir assigns running->cwd first and then releases it.
ChdirSwapped(p, t) ==
    /\ up /\ cwd[p] # NULL /\ local[t] # NULL
    /\ minode' = Released(local[t], 1)
    /\ disk' = WrittenBack(local[t], 1)
    /\ cwd' = [cwd EXCEPT ![p] = local[t]]
    /\ local' = [local EXCEPT ![t] = NULL]
    /\ UNCHANGED <<up, lapses>>

\* chdir: iput(running->cwd); running->cwd = min.
Chdir(p, t) ==
    /\ up /\ cwd[p] # NULL /\ local[t] # NULL
    /\ minode' = Released(cwd[p], 1)
    /\ disk' = WrittenBack(cwd[p], 1)
    /\ cwd' = [cwd EXCEPT ![p] = local[t]]
    /\ local' = [local EXCEPT ![t] = NULL]
    /\ UNCHANGED <<up, lapses>>

\* create_process: proc[p].cwd = root, for the first FREE process.
CreateProcess(p) ==
    /\ up
    /\ cwd[p] = NULL /\ \A q \in Procs : cwd[q] = NULL => p <= q
    /\ Lapse
    /\ cwd' = [cwd EXCEPT ![p] = root]
    /\ UNCHANGED <<up, minode, disk, local>>

\* kill_process: the process is FREE, its reference to its cwd stays counted.
KillProcess(p) ==
    /\ up /\ p > 0 /\ cwd[p] # NULL
    /\ cwd' = [cwd EXCEPT ![p] = NULL]
    /\ UNCHANGED <<up, minode, disk, local, lapses>>

\* Seeded bug: quit calls iput once for a slot, whatever its refCount.
QuitOnce ==
    /\ up
    /\ \A t \in Locals : local[t] = NULL
    /\ disk' = [k \in Keys |->
                  IF \E s \in Slots : minode[s].key = k /\ minode[s].refCount = 1
                                        /\ minode[s].dirty
                  THEN minode[SlotOf(k)].INODE
                  ELSE disk[k]]
    /\ Stop

\* quit, between two commands: iput every slot until its refCount is 0.
Quit ==
    /\ up
    /\ \A t \in Locals : local[t] = NULL
    /\ disk' = [k \in Keys |->
                  IF \E s \in Slots : minode[s].key = k /\ minode[s].refCount > 0
                                        /\ minode[s].dirty
                  THEN minode[SlotOf(k)].INODE
                  ELSE disk[k]]
    /\ Stop

\* The process dies between two steps, in the middle of a command or not.
Crash ==
    /\ up
    /\ Stop
    /\ UNCHANGED disk

Next ==
    \/ Boot
    \/ \E t \in Locals, k \in Keys : IgetHit(t, k)
    \/ \E t \in Locals, k \in Keys, s \in Slots : IgetMiss(t, k, s)
    \/ \E k \in Keys : IgetPanic(k)
    \/ \E t \in Locals, s \in Slots : GetinoStart(t, s)
    \/ \E t \in Locals : Iput(t) \/ Forget(t) \/ UnlinkReleases(t)
    \/ \E t \in Locals, v \in Values : Modify(t, v) \/ LinkGrows(t, v)
    \/ \E p \in Procs, t \in Locals : Chdir(p, t)
    \/ \E p \in Procs : CreateProcess(p) \/ KillProcess(p)
    \/ Quit
    \/ Crash

Spec == Init /\ [][Next]_vars

-------------------------------------------------------------------------------
\* Types.  refCount is a C int and does go below zero.
TypeOK ==
    /\ up \in BOOLEAN
    /\ minode \in [Slots -> MINODE]
    /\ disk \in [Keys -> Values]
    /\ cwd \in [Procs -> Slots \cup {NULL}]
    /\ local \in [Locals -> Slots \cup {NULL}]
    /\ lapses \in 0 .. MaxLapses

CwdsAt(s) == {p \in Procs : cwd[p] = s}
LocalsAt(s) == {t \in Locals : local[t] = s}
Pointers(s) == Cardinality(CwdsAt(s)) + Cardinality(LocalsAt(s))

\* refCount is what keeps iget (util.c:56) from reusing a slot: it covers every
\* cwd and every local pointer to the slot, up to the references the three
\* irregular callers have miscounted.  The cwd that create_process did not
\* count at the start of the program uses up the reference mount_root took.
RefCountsCoverPointers ==
    \A s \in Slots : minode[s].refCount + lapses >= Pointers(s)

\* iget never holds one [dev, ino] in two slots, whatever its callers do: two
\* commands that look an inode up change the same copy (util.c:45-52).
UniqueSlots ==
    \A r, s \in Slots :
        minode[r].key = minode[s].key /\ minode[r].key # NoKey => r = s

\* A slot nobody holds has what the disk has, so reusing it loses nothing and
\* the dirty flag it keeps from an earlier user is harmless (util.c:56-72).
IdleClean ==
    \A s \in Slots :
        minode[s].refCount <= 0 /\ minode[s].key # NoKey
            => minode[s].INODE = disk[minode[s].key]

\* "load root INODE and set root pointer to it" (main.c:148): getino starts every
\* absolute path at root (util.c:148), which is the root inode for as long as the
\* program runs.
RootIsRoot == up => minode[root].key = RootKey

\* While a cwd or a local pointer keeps pointing at a slot, the slot keeps its
\* inode: no iget reuses it under a process or a command that still uses it.
PointersKeepInode ==
    [][\A s \in Slots :
        up' /\ (CwdsAt(s) \cap CwdsAt(s)' # {} \/ LocalsAt(s) \cap LocalsAt(s)' # {})
            => minode'[s].key = minode[s].key]_vars

\* An orderly quit (main.c:154-177) leaves on the disk the last value of every
\* inode in the table, the ones nobody holds included.
QuitSavesAll ==
    [][Quit => \A s \in Slots :
        minode[s].key # NoKey => disk'[minode[s].key] = minode[s].INODE]_vars

\* The value a command sees when it looks k up now.
Current(k) == IF up /\ Loaded(k) THEN minode[SlotOf(k)].INODE ELSE disk[k]

Store == INSTANCE InodeStore WITH
            inode <- [k \in Keys |-> Current(k)],
            stable <- disk

\* The table implements InodeStore: every lookup of an inode sees the last change
\* made to it, through whichever slot and in whichever order slots are reused.
ImplementsInodeStore == Store!Spec
===============================================================================
