--------------------------- MODULE MinodeCacheProofs ---------------------------
(***************************************************************************)
(* Proofs about MinodeCache for every table size, number of processes, set *)
(* of inodes and bound.  The inductive invariant joins the types, the      *)
(* uniqueness of slots, the reference count and, as long as no caller has  *)
(* broken the contract of iget and iput, that a slot differs from the disk *)
(* only while it is flagged dirty and held.                                *)
(***************************************************************************)
EXTENDS MinodeCache, FiniteSetTheorems, TLAPS

\* The memory of a stopped program.
Dead ==
    ~up => /\ minode = [s \in Slots |-> EmptySlot]
           /\ cwd = [p \in Procs |-> NULL]
           /\ local = [t \in Locals |-> NULL]
           /\ lapses = 0

\* A slot that is not marked dirty has what the disk has, for as long as tryLink does
\* not change a directory without marking it.
FlagCoversChange ==
    \A s \in Slots :
        ~minode[s].dirty /\ minode[s].key # NoKey
            => minode[s].INODE = disk[minode[s].key]

Sound == lapses = 0 => FlagCoversChange /\ IdleClean

IInv == TypeOK /\ Dead /\ UniqueSlots /\ RefCountsCoverPointers /\ Sound

-------------------------------------------------------------------------------
\* Two sets that agree up to x have sizes that differ by whether x is in them.
LEMMA AgreeUpTo ==
    ASSUME NEW A, IsFiniteSet(A), NEW B, NEW x, B \ {x} = A \ {x}
    PROVE  Cardinality(B) = Cardinality(A) - (IF x \in A THEN 1 ELSE 0)
                                           + (IF x \in B THEN 1 ELSE 0)
<1>1. Cardinality(A) \in Nat
  BY FS_CardinalityType
<1>2. /\ IsFiniteSet(A \ {x})
      /\ Cardinality(A \ {x}) = IF x \in A THEN Cardinality(A) - 1 ELSE Cardinality(A)
  BY FS_RemoveElement
<1>3. CASE x \in B
  <2>1. B = (A \ {x}) \cup {x}
    BY <1>3
  <2>2. x \notin A \ {x}
    OBVIOUS
  <2>3. Cardinality(B) = Cardinality(A \ {x}) + 1
    BY <1>2, <2>1, <2>2, FS_AddElement
  <2> QED BY <1>1, <1>2, <1>3, <2>3
<1>4. CASE x \notin B
  <2>1. B = A \ {x}
    BY <1>4
  <2> QED BY <1>1, <1>2, <1>4, <2>1
<1> QED BY <1>3, <1>4

\* The sets counted by Pointers are finite.
LEMMA PointersFinite ==
    ASSUME TypeOK, NEW s \in Slots
    PROVE  /\ IsFiniteSet(CwdsAt(s)) /\ IsFiniteSet(LocalsAt(s))
           /\ Cardinality(CwdsAt(s)) \in Nat /\ Cardinality(LocalsAt(s)) \in Nat
           /\ Pointers(s) \in Nat
<1>1. IsFiniteSet(Procs)
  BY FS_Interval, CacheAssumption DEF Procs
<1>2. IsFiniteSet(Locals)
  BY CacheAssumption
<1>3. IsFiniteSet(CwdsAt(s)) /\ IsFiniteSet(LocalsAt(s))
  <2>1. CwdsAt(s) \in SUBSET Procs /\ LocalsAt(s) \in SUBSET Locals
    BY DEF CwdsAt, LocalsAt
  <2> QED BY <1>1, <1>2, <2>1, FS_Subset
<1>4. Cardinality(CwdsAt(s)) \in Nat /\ Cardinality(LocalsAt(s)) \in Nat
  BY <1>3, FS_CardinalityType
<1> QED BY <1>3, <1>4 DEF Pointers

\* How Pointers changes when a local pointer is set or a cwd moves.
LEMMA SetLocal ==
    ASSUME TypeOK, NEW t \in Locals, NEW v, NEW s \in Slots,
           local' = [local EXCEPT ![t] = v]
    PROVE  Cardinality(LocalsAt(s)') = Cardinality(LocalsAt(s))
                - (IF local[t] = s THEN 1 ELSE 0) + (IF v = s THEN 1 ELSE 0)
<1>1. LocalsAt(s)' \ {t} = LocalsAt(s) \ {t}
  BY DEF LocalsAt, TypeOK
<1>2. /\ t \in LocalsAt(s) <=> local[t] = s
      /\ t \in LocalsAt(s)' <=> v = s
  BY DEF LocalsAt, TypeOK
<1> QED BY <1>1, <1>2, AgreeUpTo, PointersFinite

LEMMA SetCwd ==
    ASSUME TypeOK, NEW p \in Procs, NEW v, NEW s \in Slots,
           cwd' = [cwd EXCEPT ![p] = v]
    PROVE  Cardinality(CwdsAt(s)') = Cardinality(CwdsAt(s))
                - (IF cwd[p] = s THEN 1 ELSE 0) + (IF v = s THEN 1 ELSE 0)
<1>1. CwdsAt(s)' \ {p} = CwdsAt(s) \ {p}
  BY DEF CwdsAt, TypeOK
<1>2. /\ p \in CwdsAt(s) <=> cwd[p] = s
      /\ p \in CwdsAt(s)' <=> v = s
  BY DEF CwdsAt, TypeOK
<1> QED BY <1>1, <1>2, AgreeUpTo, PointersFinite


\* root is a slot, and the pointer to no slot is none.
LEMMA SlotFacts == root \in Slots /\ NULL \notin Slots /\ Slots \subseteq Int
  BY CacheAssumption DEF root, Slots

\* The four ways pointers change: a local is set, a local is cleared, a cwd is
\* given to a process, a process loses its cwd.
LEMMA PointLocal ==
    ASSUME TypeOK, NEW t \in Locals, NEW r \in Slots, NEW s \in Slots,
           local[t] = NULL, local' = [local EXCEPT ![t] = r]
    PROVE  Cardinality(LocalsAt(s)') = Cardinality(LocalsAt(s)) + (IF r = s THEN 1 ELSE 0)
<1>1. local[t] # s
  BY SlotFacts
<1>2. Cardinality(LocalsAt(s)') = Cardinality(LocalsAt(s))
        - (IF local[t] = s THEN 1 ELSE 0) + (IF r = s THEN 1 ELSE 0)
  BY SetLocal
<1> QED BY <1>1, <1>2, PointersFinite

LEMMA ClearLocal ==
    ASSUME TypeOK, NEW t \in Locals, NEW s \in Slots, local' = [local EXCEPT ![t] = NULL]
    PROVE  Cardinality(LocalsAt(s)') = Cardinality(LocalsAt(s))
                                         - (IF local[t] = s THEN 1 ELSE 0)
<1>1. NULL # s
  BY SlotFacts
<1>2. Cardinality(LocalsAt(s)') = Cardinality(LocalsAt(s))
        - (IF local[t] = s THEN 1 ELSE 0) + (IF NULL = s THEN 1 ELSE 0)
  BY SetLocal
<1> QED BY <1>1, <1>2, PointersFinite

LEMMA GiveCwd ==
    ASSUME TypeOK, NEW p \in Procs, NEW s \in Slots,
           cwd[p] = NULL, cwd' = [cwd EXCEPT ![p] = root]
    PROVE  Cardinality(CwdsAt(s)') = Cardinality(CwdsAt(s)) + (IF root = s THEN 1 ELSE 0)
<1>1. cwd[p] # s
  BY SlotFacts
<1>2. Cardinality(CwdsAt(s)') = Cardinality(CwdsAt(s))
        - (IF cwd[p] = s THEN 1 ELSE 0) + (IF root = s THEN 1 ELSE 0)
  BY SetCwd
<1> QED BY <1>1, <1>2, PointersFinite

LEMMA LoseCwd ==
    ASSUME TypeOK, NEW p \in Procs, NEW s \in Slots, cwd' = [cwd EXCEPT ![p] = NULL]
    PROVE  Cardinality(CwdsAt(s)') = Cardinality(CwdsAt(s)) - (IF cwd[p] = s THEN 1 ELSE 0)
<1>1. NULL # s
  BY SlotFacts
<1>2. Cardinality(CwdsAt(s)') = Cardinality(CwdsAt(s))
        - (IF cwd[p] = s THEN 1 ELSE 0) + (IF NULL = s THEN 1 ELSE 0)
  BY SetCwd
<1> QED BY <1>1, <1>2, PointersFinite

LEMMA SlotOfLoaded ==
    ASSUME NEW k, Loaded(k)
    PROVE  SlotOf(k) \in Slots /\ minode[SlotOf(k)].key = k
  BY DEF Loaded, SlotOf

\* Static storage has the types of the table.
LEMMA EmptySlotType == EmptySlot \in MINODE
  BY CacheAssumption DEF EmptySlot, MINODE

\* What iput leaves in the table and on the disk has the right types.
LEMMA ReleaseType ==
    ASSUME TypeOK, NEW s \in Slots, NEW n \in {1, 2}
    PROVE  Released(s, n) \in [Slots -> MINODE] /\ WrittenBack(s, n) \in [Keys -> Values]
<1>1. Released(s, n) \in [Slots -> MINODE]
  BY DEF Released, TypeOK, MINODE
<1>2. minode[s].INODE \in Values
  BY DEF TypeOK, MINODE
<1>3. [disk EXCEPT ![minode[s].key] = minode[s].INODE] \in [Keys -> Values]
  BY <1>2 DEF TypeOK
<1>4. WrittenBack(s, n) \in [Keys -> Values]
  BY <1>3 DEF WrittenBack, TypeOK
<1> QED BY <1>1, <1>4

\* Neither does a stopped program leave the types.
LEMMA StopType ==
    Stop /\ disk' \in [Keys -> Values] => TypeOK'
<1> SUFFICES ASSUME Stop, disk' \in [Keys -> Values] PROVE TypeOK'
  OBVIOUS
<1>1. minode' \in [Slots -> MINODE]
  BY EmptySlotType DEF Stop
<1>2. cwd' \in [Procs -> Slots \cup {NULL}] /\ local' \in [Locals -> Slots \cup {NULL}]
  BY DEF Stop
<1>3. up' \in BOOLEAN
  BY DEF Stop
<1>4. lapses' \in 0 .. MaxLapses
  BY CacheAssumption DEF Stop
<1> QED BY <1>1, <1>2, <1>3, <1>4 DEF TypeOK

-------------------------------------------------------------------------------
\* Types are kept by the start of the program and by every step.
LEMMA InitType == Init => TypeOK /\ Dead
<1> SUFFICES ASSUME Init PROVE TypeOK /\ Dead
  OBVIOUS
<1>1. minode \in [Slots -> MINODE]
  BY EmptySlotType DEF Init
<1>2. lapses \in 0 .. MaxLapses
  BY CacheAssumption DEF Init
<1> QED BY <1>1, <1>2 DEF Init, TypeOK, Dead

LEMMA NextType == TypeOK /\ [Next]_vars => TypeOK'
<1> SUFFICES ASSUME TypeOK, [Next]_vars PROVE TypeOK'
  OBVIOUS
<1> USE SlotFacts, EmptySlotType, CacheAssumption
<1>1. CASE Boot
  BY <1>1 DEF Boot, TypeOK, Procs, MINODE
<1>2. ASSUME NEW t \in Locals, NEW k \in Keys, IgetHit(t, k) PROVE TypeOK'
  BY <1>2, SlotOfLoaded DEF IgetHit, Hold, TypeOK, MINODE
<1>3. ASSUME NEW t \in Locals, NEW k \in Keys, NEW s \in Slots, IgetMiss(t, k, s)
      PROVE  TypeOK'
  BY <1>3 DEF IgetMiss, TypeOK, MINODE
<1>4. ASSUME NEW k \in Keys, IgetPanic(k) PROVE TypeOK'
  BY <1>4, StopType DEF IgetPanic, TypeOK
<1>5. ASSUME NEW t \in Locals, NEW s \in Slots, GetinoStart(t, s) PROVE TypeOK'
  BY <1>5 DEF GetinoStart, Hold, TypeOK, MINODE
<1>6. ASSUME NEW t \in Locals, Iput(t) PROVE TypeOK'
  <2>1. local[t] \in Slots
    BY <1>6 DEF Iput, TypeOK
  <2>3. /\ Released(local[t], 1) \in [Slots -> MINODE]
        /\ WrittenBack(local[t], 1) \in [Keys -> Values]
    BY <2>1, ReleaseType
  <2>2. minode' \in [Slots -> MINODE] /\ disk' \in [Keys -> Values]
    BY <1>6, <2>3 DEF Iput
  <2> QED BY <1>6, <2>2 DEF Iput, TypeOK
<1>7. ASSUME NEW t \in Locals, Forget(t) PROVE TypeOK'
  BY <1>7 DEF Forget, TypeOK
<1>8. ASSUME NEW t \in Locals, UnlinkReleases(t) PROVE TypeOK'
  <2>1. local[t] \in Slots
    BY <1>8 DEF UnlinkReleases, TypeOK
  <2>2. minode' \in [Slots -> MINODE] /\ disk' \in [Keys -> Values]
    BY <1>8, <2>1, ReleaseType DEF UnlinkReleases
  <2> QED BY <1>8, <2>2 DEF UnlinkReleases, Lapse, TypeOK
<1>9. ASSUME NEW t \in Locals, NEW v \in Values, Modify(t, v) PROVE TypeOK'
  BY <1>9 DEF Modify, TypeOK, MINODE
<1>10. ASSUME NEW t \in Locals, NEW v \in Values, LinkGrows(t, v) PROVE TypeOK'
  BY <1>10 DEF LinkGrows, Lapse, TypeOK, MINODE
<1>11. ASSUME NEW p \in Procs, NEW t \in Locals, Chdir(p, t) PROVE TypeOK'
  <2>1. cwd[p] \in Slots /\ local[t] \in Slots
    BY <1>11 DEF Chdir, TypeOK
  <2>2. minode' \in [Slots -> MINODE] /\ disk' \in [Keys -> Values]
    BY <1>11, <2>1, ReleaseType DEF Chdir
  <2> QED BY <1>11, <2>1, <2>2 DEF Chdir, TypeOK
<1>12. ASSUME NEW p \in Procs, CreateProcess(p) PROVE TypeOK'
  BY <1>12 DEF CreateProcess, Lapse, TypeOK
<1>13. ASSUME NEW p \in Procs, KillProcess(p) PROVE TypeOK'
  BY <1>13 DEF KillProcess, TypeOK
<1>14. CASE Quit
  <2>1. disk' \in [Keys -> Values]
    <3>1. ASSUME NEW k \in Keys, Loaded(k) PROVE minode[SlotOf(k)].INODE \in Values
      BY <3>1, SlotOfLoaded DEF TypeOK, MINODE
    <3> QED BY <1>14, <3>1 DEF Quit, Loaded, TypeOK
  <2> QED BY <1>14, <2>1, StopType DEF Quit
<1>15. CASE Crash
  BY <1>15, StopType DEF Crash, TypeOK
<1>16. CASE UNCHANGED vars
  BY <1>16 DEF vars, TypeOK
<1> QED BY <1>1, <1>2, <1>3, <1>4, <1>5, <1>6, <1>7, <1>8, <1>9, <1>10, <1>11,
           <1>12, <1>13, <1>14, <1>15, <1>16 DEF Next

\* Every state of the table, the devices and the pointers has its type.
THEOREM TypeCorrect == Spec => []TypeOK
<1>1. Init => TypeOK
  BY InitType
<1> QED BY <1>1, NextType, PTL DEF Spec

\* A program that is not running has an empty table and no pointers.
LEMMA NextDead == TypeOK /\ Dead /\ [Next]_vars => Dead'
<1> SUFFICES ASSUME Dead, [Next]_vars PROVE Dead'
  OBVIOUS
<1>1. CASE up /\ up' = up
  BY <1>1 DEF Dead
<1>2. CASE Stop
  BY <1>2 DEF Stop, Dead
<1>3. CASE Boot \/ UNCHANGED vars
  BY <1>3 DEF Boot, Dead, vars
<1> QED BY <1>1, <1>2, <1>3 DEF Next, IgetHit, IgetMiss, IgetPanic, GetinoStart, Iput,
      Forget, UnlinkReleases, Modify, LinkGrows, Chdir, CreateProcess, KillProcess, Quit,
      Crash

-------------------------------------------------------------------------------
\* No step loads an inode that is already in the table.
LEMMA NextUnique == TypeOK /\ UniqueSlots /\ [Next]_vars => UniqueSlots'
<1> SUFFICES ASSUME TypeOK, UniqueSlots, [Next]_vars PROVE UniqueSlots'
  OBVIOUS
<1>1. CASE \A s \in Slots : minode'[s].key = minode[s].key
  BY <1>1 DEF UniqueSlots
<1>2. CASE \A s \in Slots : s # root => minode'[s].key = NoKey
  BY <1>2 DEF UniqueSlots
<1>3. ASSUME NEW t \in Locals, NEW k \in Keys, NEW s \in Slots, IgetMiss(t, k, s)
      PROVE  UniqueSlots'
  BY <1>3 DEF IgetMiss, Loaded, UniqueSlots, TypeOK, MINODE
<1>4. Boot \/ Stop => \A s \in Slots : s # root => minode'[s].key = NoKey
  BY DEF Boot, Stop, EmptySlot
<1>5. ASSUME NEW s \in Slots, \/ Hold(s)
                              \/ \E n \in {1, 2} : minode' = Released(s, n)
      PROVE  \A r \in Slots : minode'[r].key = minode[r].key
  BY <1>5 DEF Hold, Released, TypeOK, MINODE
<1>6. ASSUME NEW t \in Locals, NEW k \in Keys, IgetHit(t, k) PROVE UniqueSlots'
  BY <1>1, <1>5, <1>6, SlotOfLoaded DEF IgetHit
<1>7. ASSUME NEW t \in Locals, NEW s \in Slots, GetinoStart(t, s) PROVE UniqueSlots'
  BY <1>1, <1>5, <1>7 DEF GetinoStart
<1>8. ASSUME NEW t \in Locals, Iput(t) \/ UnlinkReleases(t) PROVE UniqueSlots'
  <2>1. local[t] \in Slots
    BY <1>8 DEF Iput, UnlinkReleases, TypeOK
  <2> QED BY <1>1, <1>5, <1>8, <2>1 DEF Iput, UnlinkReleases
<1>9. ASSUME NEW t \in Locals, NEW v \in Values, Modify(t, v) \/ LinkGrows(t, v)
      PROVE  \A r \in Slots : minode'[r].key = minode[r].key
  BY <1>9 DEF Modify, LinkGrows, TypeOK, MINODE
<1>10. ASSUME NEW p \in Procs, NEW t \in Locals, Chdir(p, t) PROVE UniqueSlots'
  <2>1. cwd[p] \in Slots
    BY <1>10 DEF Chdir, TypeOK
  <2> QED BY <1>1, <1>5, <1>10, <2>1 DEF Chdir
<1>11. ASSUME UNCHANGED minode PROVE UniqueSlots'
  BY <1>11 DEF UniqueSlots
<1> QED BY <1>1, <1>2, <1>3, <1>4, <1>6, <1>7, <1>8, <1>9, <1>10, <1>11
      DEF Next, IgetPanic, Forget, CreateProcess, KillProcess, Quit, Crash, vars

\* iget keeps one copy of every inode, for any callers and any table size.
THEOREM SlotsAreUnique == Spec => []UniqueSlots
<1>1. Init => UniqueSlots
  BY DEF Init, EmptySlot, UniqueSlots
<1> QED BY <1>1, InitType, NextType, NextUnique, PTL DEF Spec

-------------------------------------------------------------------------------
\* A stopped program has no pointers to count.
LEMMA StoppedCovers ==
    ASSUME NEW s \in Slots, minode' = [r \in Slots |-> EmptySlot], lapses' = 0,
           cwd' = [p \in Procs |-> NULL], local' = [t \in Locals |-> NULL]
    PROVE  minode'[s].refCount + lapses' >= Pointers(s)'
<1>1. CwdsAt(s)' = {} /\ LocalsAt(s)' = {}
  BY SlotFacts DEF CwdsAt, LocalsAt
<1>2. Pointers(s)' = 0
  BY <1>1, FS_EmptySet DEF Pointers
<1> QED BY <1>2 DEF EmptySlot

\* At the start, the two references to the root inode cover the two cwds.
LEMMA BootCovers ==
    ASSUME TypeOK, TypeOK', Dead, Boot, NEW s \in Slots
    PROVE  minode'[s].refCount + lapses' >= Pointers(s)'
<1>1. local' = [t \in Locals |-> NULL]
  BY DEF Boot, Dead
<1>2. Cardinality(LocalsAt(s)') = 0
  <2>1. LocalsAt(s)' = {}
    BY <1>1, SlotFacts DEF LocalsAt
  <2> QED BY <2>1, FS_EmptySet
<1>3. CASE s = root
  <2>1. CwdsAt(s)' \in SUBSET ({0} \cup {1})
    BY <1>3, SlotFacts DEF CwdsAt, Boot, Procs
  <2>2. IsFiniteSet({0} \cup {1}) /\ Cardinality({0} \cup {1}) = 2
    <3>1. IsFiniteSet({0}) /\ Cardinality({0}) = 1
      BY FS_Singleton
    <3>2. 1 \notin {0}
      OBVIOUS
    <3> QED BY <3>1, <3>2, FS_AddElement
  <2>3. Cardinality(CwdsAt(s)') <= 2
    BY <2>1, <2>2, FS_Subset
  <2>4. IsFiniteSet(CwdsAt(s)')
    BY <2>1, <2>2, FS_Subset
  <2>5. Cardinality(CwdsAt(s)') \in Nat
    BY <2>4, FS_CardinalityType
  <2> QED BY <1>2, <1>3, <2>3, <2>5 DEF Pointers, Boot
<1>4. CASE s # root
  <2>1. CwdsAt(s)' = {}
    BY <1>4, SlotFacts DEF CwdsAt, Boot
  <2> QED BY <1>2, <1>4, <2>1, FS_EmptySet DEF Pointers, Boot, EmptySlot
<1> QED BY <1>3, <1>4

\* A pointer that is set is counted; a pointer that goes away was counted.
LEMMA NextCovers ==
    TypeOK /\ Dead /\ RefCountsCoverPointers /\ [Next]_vars => RefCountsCoverPointers'
<1> SUFFICES ASSUME TypeOK, Dead, RefCountsCoverPointers, [Next]_vars, NEW s \in Slots
             PROVE  minode'[s].refCount + lapses' >= Pointers(s)'
  BY DEF RefCountsCoverPointers
<1>a. TypeOK'
  BY NextType
<1>b. /\ minode[s].refCount + lapses >= Pointers(s)
      /\ minode[s].refCount \in Int /\ lapses \in Int
  BY SlotFacts DEF RefCountsCoverPointers, TypeOK, MINODE
<1>c. /\ Cardinality(CwdsAt(s)) \in Nat /\ Cardinality(LocalsAt(s)) \in Nat
      /\ Pointers(s) = Cardinality(CwdsAt(s)) + Cardinality(LocalsAt(s))
      /\ Pointers(s)' = Cardinality(CwdsAt(s)') + Cardinality(LocalsAt(s)')
  BY PointersFinite DEF Pointers
<1>d. /\ cwd' = cwd => CwdsAt(s)' = CwdsAt(s)
      /\ local' = local => LocalsAt(s)' = LocalsAt(s)
  BY DEF CwdsAt, LocalsAt
<1>e. ASSUME NEW r \in Slots, NEW n \in {1, 2}, minode' = Released(r, n)
      PROVE  minode'[s].refCount = minode[s].refCount - (IF r = s THEN n ELSE 0)
  BY <1>e DEF Released, TypeOK, MINODE
<1>1. CASE Boot
  BY <1>1, <1>a, BootCovers
<1>2. ASSUME NEW t \in Locals, NEW r \in Slots, local[t] = NULL, Hold(r),
             local' = [local EXCEPT ![t] = r], cwd' = cwd, lapses' = lapses
      PROVE  minode'[s].refCount + lapses' >= Pointers(s)'
  <2>1. minode'[s].refCount = minode[s].refCount + (IF r = s THEN 1 ELSE 0)
    BY <1>2 DEF Hold, TypeOK, MINODE
  <2>2. Cardinality(LocalsAt(s)') = Cardinality(LocalsAt(s)) + (IF r = s THEN 1 ELSE 0)
    BY <1>2, PointLocal
  <2> QED BY <1>2, <1>b, <1>c, <1>d, <2>1, <2>2
<1>3. ASSUME NEW t \in Locals, NEW k \in Keys, NEW r \in Slots, IgetMiss(t, k, r)
      PROVE  minode'[s].refCount + lapses' >= Pointers(s)'
  <2>1. /\ s = r => minode[s].refCount = 0 /\ minode'[s].refCount = 1
        /\ s # r => minode'[s].refCount = minode[s].refCount
    BY <1>3 DEF IgetMiss, IsFirstFree, FreeSlots, TypeOK, MINODE
  <2>2. Cardinality(LocalsAt(s)') = Cardinality(LocalsAt(s)) + (IF r = s THEN 1 ELSE 0)
    BY <1>3, PointLocal DEF IgetMiss
  <2> QED BY <1>3, <1>b, <1>c, <1>d, <2>1, <2>2 DEF IgetMiss
<1>4. CASE Stop
  BY <1>4, StoppedCovers DEF Stop
<1>5. ASSUME NEW t \in Locals, Iput(t) PROVE minode'[s].refCount + lapses' >= Pointers(s)'
  <2>1. local[t] \in Slots
    BY <1>5 DEF Iput, TypeOK
  <2>2. minode'[s].refCount = minode[s].refCount - (IF local[t] = s THEN 1 ELSE 0)
    BY <1>5, <1>e, <2>1 DEF Iput
  <2>3. Cardinality(LocalsAt(s)') = Cardinality(LocalsAt(s)) - (IF local[t] = s THEN 1 ELSE 0)
    BY <1>5, ClearLocal DEF Iput
  <2> QED BY <1>5, <1>b, <1>c, <1>d, <2>2, <2>3 DEF Iput
<1>6. ASSUME NEW t \in Locals, Forget(t) PROVE minode'[s].refCount + lapses' >= Pointers(s)'
  <2>1. Cardinality(LocalsAt(s)') = Cardinality(LocalsAt(s)) - (IF local[t] = s THEN 1 ELSE 0)
    BY <1>6, ClearLocal DEF Forget
  <2> QED BY <1>6, <1>b, <1>c, <1>d, <2>1 DEF Forget
<1>7. ASSUME NEW t \in Locals, UnlinkReleases(t)
      PROVE  minode'[s].refCount + lapses' >= Pointers(s)'
  <2>1. local[t] \in Slots
    BY <1>7 DEF UnlinkReleases, TypeOK
  <2>2. minode'[s].refCount = minode[s].refCount - (IF local[t] = s THEN 2 ELSE 0)
    BY <1>7, <1>e, <2>1 DEF UnlinkReleases
  <2>3. Cardinality(LocalsAt(s)') = Cardinality(LocalsAt(s)) - (IF local[t] = s THEN 1 ELSE 0)
    BY <1>7, ClearLocal DEF UnlinkReleases
  <2> QED BY <1>7, <1>b, <1>c, <1>d, <2>2, <2>3 DEF UnlinkReleases, Lapse
<1>8. ASSUME NEW t \in Locals, NEW v \in Values, Modify(t, v) \/ LinkGrows(t, v)
      PROVE  minode'[s].refCount + lapses' >= Pointers(s)'
  <2>1. minode'[s].refCount = minode[s].refCount
    BY <1>8 DEF Modify, LinkGrows, TypeOK, MINODE
  <2>2. lapses' \in Int /\ lapses' >= lapses
    BY <1>8, <1>b DEF Modify, LinkGrows, Lapse
  <2> QED BY <1>8, <1>b, <1>c, <1>d, <2>1, <2>2 DEF Modify, LinkGrows
<1>9. ASSUME NEW p \in Procs, NEW t \in Locals, Chdir(p, t)
      PROVE  minode'[s].refCount + lapses' >= Pointers(s)'
  <2>1. cwd[p] \in Slots
    BY <1>9 DEF Chdir, TypeOK
  <2>2. minode'[s].refCount = minode[s].refCount - (IF cwd[p] = s THEN 1 ELSE 0)
    BY <1>9, <1>e, <2>1 DEF Chdir
  <2>3. Cardinality(LocalsAt(s)') = Cardinality(LocalsAt(s)) - (IF local[t] = s THEN 1 ELSE 0)
    BY <1>9, ClearLocal DEF Chdir
  <2>4. Cardinality(CwdsAt(s)') = Cardinality(CwdsAt(s))
          - (IF cwd[p] = s THEN 1 ELSE 0) + (IF local[t] = s THEN 1 ELSE 0)
    BY <1>9, SetCwd DEF Chdir
  <2> QED BY <1>9, <1>b, <1>c, <2>2, <2>3, <2>4 DEF Chdir
<1>10. ASSUME NEW p \in Procs, CreateProcess(p)
       PROVE  minode'[s].refCount + lapses' >= Pointers(s)'
  <2>1. Cardinality(CwdsAt(s)') = Cardinality(CwdsAt(s)) + (IF root = s THEN 1 ELSE 0)
    BY <1>10, GiveCwd DEF CreateProcess
  <2> QED BY <1>10, <1>b, <1>c, <1>d, <2>1 DEF CreateProcess, Lapse
<1>11. ASSUME NEW p \in Procs, KillProcess(p)
       PROVE  minode'[s].refCount + lapses' >= Pointers(s)'
  <2>1. Cardinality(CwdsAt(s)') = Cardinality(CwdsAt(s)) - (IF cwd[p] = s THEN 1 ELSE 0)
    BY <1>11, LoseCwd DEF KillProcess
  <2> QED BY <1>11, <1>b, <1>c, <1>d, <2>1 DEF KillProcess
<1>12. CASE UNCHANGED vars
  BY <1>12, <1>b, <1>c, <1>d DEF vars
<1>13. ASSUME NEW t \in Locals, NEW k \in Keys, IgetHit(t, k)
       PROVE  minode'[s].refCount + lapses' >= Pointers(s)'
  BY <1>13, <1>2, SlotOfLoaded DEF IgetHit
<1>14. ASSUME NEW t \in Locals, NEW r \in Slots, GetinoStart(t, r)
       PROVE  minode'[s].refCount + lapses' >= Pointers(s)'
  BY <1>14, <1>2 DEF GetinoStart
<1> QED BY <1>1, <1>3, <1>4, <1>5, <1>6, <1>7, <1>8, <1>9, <1>10, <1>11, <1>12, <1>13, <1>14
      DEF Next, IgetPanic, Quit, Crash

\* With no lapse, a slot some pointer refers to has a positive refCount.
LEMMA HeldIfPointed ==
    ASSUME IInv, lapses = 0, NEW s \in Slots, CwdsAt(s) # {} \/ LocalsAt(s) # {}
    PROVE  minode[s].refCount > 0
<1>1. Pointers(s) >= 1
  <2>1. IsFiniteSet(CwdsAt(s)) /\ IsFiniteSet(LocalsAt(s))
    BY PointersFinite DEF IInv
  <2>2. Cardinality(CwdsAt(s)) \in Nat /\ Cardinality(LocalsAt(s)) \in Nat
    BY PointersFinite DEF IInv
  <2>3. Cardinality(CwdsAt(s)) # 0 \/ Cardinality(LocalsAt(s)) # 0
    BY <2>1, FS_EmptySet
  <2> QED BY <2>2, <2>3 DEF Pointers
<1>2. minode[s].refCount \in Int /\ minode[s].refCount + 0 >= Pointers(s)
  BY DEF IInv, TypeOK, MINODE, RefCountsCoverPointers
<1> QED BY <1>1, <1>2, PointersFinite DEF IInv

\* iput of a slot keeps flagged and idle slots in step with the disk.
LEMMA ReleaseSound ==
    ASSUME TypeOK, UniqueSlots, FlagCoversChange, IdleClean, NEW r \in Slots,
           minode' = Released(r, 1), disk' = WrittenBack(r, 1)
    PROVE  FlagCoversChange' /\ IdleClean'
<1>1. ASSUME NEW s \in Slots
      PROVE  /\ minode'[s].key = minode[s].key /\ minode'[s].dirty = minode[s].dirty
             /\ minode'[s].INODE = minode[s].INODE
             /\ minode'[s].refCount = minode[s].refCount - (IF s = r THEN 1 ELSE 0)
             /\ minode[s].refCount \in Int /\ minode[s].key \in Keys \cup {NoKey}
  BY DEF Released, TypeOK, MINODE
<1>2. ASSUME NEW s \in Slots, minode[s].key # NoKey
      PROVE  IF s = r /\ minode[r].refCount - 1 <= 0 /\ minode[r].dirty
             THEN disk'[minode[s].key] = minode[s].INODE
             ELSE disk'[minode[s].key] = disk[minode[s].key]
  BY <1>1, <1>2 DEF WrittenBack, UniqueSlots, TypeOK
<1>3. FlagCoversChange'
  BY <1>1, <1>2 DEF FlagCoversChange
<1>4. IdleClean'
  <2> SUFFICES ASSUME NEW s \in Slots, minode'[s].refCount <= 0, minode'[s].key # NoKey
               PROVE  minode'[s].INODE = disk'[minode'[s].key]
    BY DEF IdleClean
  <2>1. CASE s = r
    BY <1>1, <1>2, <2>1 DEF FlagCoversChange
  <2>2. CASE s # r
    BY <1>1, <1>2, <2>2 DEF IdleClean
  <2> QED BY <2>1, <2>2
<1> QED BY <1>3, <1>4

\* As long as there is no lapse, a slot differs from the disk only while it is
\* flagged and held.
LEMMA NextSound == IInv /\ [Next]_vars => Sound'
<1> SUFFICES ASSUME IInv, [Next]_vars, lapses' = 0
             PROVE  FlagCoversChange' /\ IdleClean'
  BY DEF Sound
<1>a. TypeOK /\ UniqueSlots /\ lapses \in Nat
  BY DEF IInv, TypeOK
<1>b. lapses = 0 => FlagCoversChange /\ IdleClean
  BY DEF IInv, Sound
<1>1. CASE Boot
  BY <1>1, <1>a, SlotFacts DEF Boot, EmptySlot, FlagCoversChange, IdleClean
<1>2. ASSUME NEW r \in Slots, Hold(r), disk' = disk, lapses' = lapses
      PROVE  FlagCoversChange' /\ IdleClean'
  BY <1>2, <1>a, <1>b DEF Hold, FlagCoversChange, IdleClean, TypeOK, MINODE
<1>3. ASSUME NEW t \in Locals, NEW k \in Keys, NEW r \in Slots, IgetMiss(t, k, r)
      PROVE  FlagCoversChange' /\ IdleClean'
  BY <1>3, <1>a, <1>b DEF IgetMiss, FlagCoversChange, IdleClean, TypeOK, MINODE
<1>4. CASE Stop
  BY <1>4 DEF Stop, EmptySlot, FlagCoversChange, IdleClean
<1>5. ASSUME NEW t \in Locals, Iput(t) PROVE FlagCoversChange' /\ IdleClean'
  <2>1. local[t] \in Slots
    BY <1>5, <1>a DEF Iput, TypeOK
  <2> QED BY <1>5, <1>a, <1>b, <2>1, ReleaseSound DEF Iput
<1>6. ASSUME NEW t \in Locals, NEW v \in Values, Modify(t, v)
      PROVE  FlagCoversChange' /\ IdleClean'
  <2>1. lapses = 0
    BY <1>6 DEF Modify
  <2>2. local[t] \in Slots /\ LocalsAt(local[t]) # {}
    BY <1>6, <1>a DEF Modify, TypeOK, LocalsAt
  <2>3. minode[local[t]].refCount > 0
    BY <2>1, <2>2, HeldIfPointed
  <2> QED BY <1>6, <1>a, <1>b, <2>1, <2>2, <2>3
        DEF Modify, FlagCoversChange, IdleClean, TypeOK, MINODE
<1>7. ASSUME NEW p \in Procs, NEW t \in Locals, Chdir(p, t)
      PROVE  FlagCoversChange' /\ IdleClean'
  <2>1. cwd[p] \in Slots
    BY <1>7, <1>a DEF Chdir, TypeOK
  <2> QED BY <1>7, <1>a, <1>b, <2>1, ReleaseSound DEF Chdir
<1>8. ASSUME UNCHANGED <<minode, disk, lapses>> PROVE FlagCoversChange' /\ IdleClean'
  BY <1>8, <1>b DEF FlagCoversChange, IdleClean
<1>9. ASSUME Lapse PROVE FALSE
  BY <1>9, <1>a DEF Lapse
<1>10. ASSUME NEW t \in Locals, NEW k \in Keys, IgetHit(t, k)
       PROVE  FlagCoversChange' /\ IdleClean'
  BY <1>2, <1>10, SlotOfLoaded DEF IgetHit
<1>11. ASSUME NEW t \in Locals, NEW r \in Slots, GetinoStart(t, r)
       PROVE  FlagCoversChange' /\ IdleClean'
  BY <1>2, <1>11 DEF GetinoStart
<1> QED BY <1>1, <1>3, <1>4, <1>5, <1>6, <1>7, <1>8, <1>9, <1>10, <1>11 DEF Next, IgetPanic,
      Quit, Crash, Forget, UnlinkReleases, LinkGrows, CreateProcess, KillProcess, vars

LEMMA Invariance == Spec => []IInv
<1>1. Init => IInv
  <2> SUFFICES ASSUME Init PROVE RefCountsCoverPointers /\ UniqueSlots /\ Sound
    BY InitType DEF IInv
  <2>1. UniqueSlots /\ Sound
    BY DEF Init, EmptySlot, UniqueSlots, Sound, FlagCoversChange, IdleClean
  <2>2. ASSUME NEW s \in Slots PROVE minode[s].refCount + lapses >= Pointers(s)
    <3>1. CwdsAt(s) = {} /\ LocalsAt(s) = {}
      BY SlotFacts DEF Init, CwdsAt, LocalsAt
    <3>2. Pointers(s) = 0
      BY <3>1, FS_EmptySet DEF Pointers
    <3> QED BY <3>2 DEF Init, EmptySlot
  <2> QED BY <2>1, <2>2 DEF RefCountsCoverPointers
<1>2. IInv /\ [Next]_vars => IInv'
  BY NextType, NextDead, NextUnique, NextCovers, NextSound DEF IInv
<1> QED BY <1>1, <1>2, PTL DEF Spec

\* A pointer to a slot is counted, up to the lapses, whatever the commands do.
THEOREM PointersAreCounted == Spec => []RefCountsCoverPointers
<1>1. IInv => RefCountsCoverPointers
  BY DEF IInv
<1> QED BY <1>1, Invariance, PTL

\* Nothing is lost when iget reuses a slot, as long as no caller broke the contract.
THEOREM ReuseLosesNothing == Spec => [](lapses = 0 => IdleClean)
<1>1. IInv => (lapses = 0 => IdleClean)
  BY DEF IInv, Sound
<1> QED BY <1>1, Invariance, PTL

-------------------------------------------------------------------------------
\* What Current is, without the CHOOSE: the value in the one slot of the inode.
CurrentIs ==
    \A k \in Keys :
        /\ \A s \in Slots : up /\ minode[s].key = k => Current(k) = minode[s].INODE
        /\ ~up \/ (\A s \in Slots : minode[s].key # k) => Current(k) = disk[k]

LEMMA CurrentLemma == UniqueSlots => CurrentIs
<1> SUFFICES ASSUME UniqueSlots, NEW k \in Keys
    PROVE  /\ \A s \in Slots : up /\ minode[s].key = k => Current(k) = minode[s].INODE
           /\ ~up \/ (\A s \in Slots : minode[s].key # k) => Current(k) = disk[k]
  BY DEF CurrentIs
<1>1. ASSUME NEW s \in Slots, up, minode[s].key = k PROVE Current(k) = minode[s].INODE
  <2>1. Loaded(k)
    BY <1>1 DEF Loaded
  <2>2. SlotOf(k) = s
    BY <1>1, <2>1, SlotOfLoaded, CacheAssumption DEF UniqueSlots
  <2> QED BY <1>1, <2>1, <2>2 DEF Current
<1>2. ASSUME ~up \/ (\A s \in Slots : minode[s].key # k) PROVE Current(k) = disk[k]
  BY <1>2 DEF Current, Loaded
<1> QED BY <1>1, <1>2

\* A step that keeps the keys and the contents of the slots and changes the disk
\* only where the table already had the new value changes no current value.
LEMMA SameCurrent ==
    ASSUME TypeOK, CurrentIs, CurrentIs', up' = up,
           \A s \in Slots : /\ minode'[s].key = minode[s].key
                            /\ minode'[s].INODE = minode[s].INODE,
           \A k \in Keys : disk'[k] = disk[k] \/ \E s \in Slots : up /\ minode[s].key = k
    PROVE  [k \in Keys |-> Current(k)]' = [k \in Keys |-> Current(k)]
<1>1. ASSUME NEW k \in Keys PROVE Current(k)' = Current(k)
  <2>1. CASE \E s \in Slots : up /\ minode[s].key = k
    BY <2>1 DEF CurrentIs
  <2>2. CASE ~\E s \in Slots : up /\ minode[s].key = k
    BY <2>2 DEF CurrentIs
  <2> QED BY <2>1, <2>2
<1> QED BY <1>1

\* A stopped program leaves the disk to be read back.
LEMMA StoppedCurrent ==
    CurrentIs' /\ Stop => [k \in Keys |-> Current(k)]' = [k \in Keys |-> disk[k]]'
<1> SUFFICES ASSUME CurrentIs', Stop, NEW k \in Keys PROVE Current(k)' = disk'[k]
  OBVIOUS
<1> QED BY DEF Stop, CurrentIs

\* One iput copies the inode to the disk or leaves the disk alone.
LEMMA ReleaseRefines ==
    ASSUME TypeOK, CurrentIs, CurrentIs', up, up', NEW r \in Slots,
           minode' = Released(r, 1), disk' = WrittenBack(r, 1)
    PROVE  Store!Next \/ UNCHANGED Store!vars
<1>1. \A s \in Slots : minode'[s].key = minode[s].key /\ minode'[s].INODE = minode[s].INODE
  BY DEF Released, TypeOK, MINODE
<1>2. \A k \in Keys : disk'[k] = disk[k] \/ minode[r].key = k
  BY DEF WrittenBack, TypeOK
<1>3. [k \in Keys |-> Current(k)]' = [k \in Keys |-> Current(k)]
  BY <1>1, <1>2, SameCurrent
<1>4. CASE disk' = disk
  BY <1>3, <1>4 DEF Store!vars
<1>5. CASE disk' # disk
  <2>1. disk' = [disk EXCEPT ![minode[r].key] = minode[r].INODE]
    BY <1>5 DEF WrittenBack
  <2>2. minode[r].key \in Keys
    BY <1>5, <2>1 DEF TypeOK
  <2>3. Current(minode[r].key) = minode[r].INODE
    BY <2>2 DEF CurrentIs
  <2>4. Store!Persist(minode[r].key)
    BY <1>3, <2>1, <2>2, <2>3 DEF Store!Persist
  <2> QED BY <2>2, <2>4 DEF Store!Next
<1> QED BY <1>4, <1>5

\* Every step of the table is a step of InodeStore or changes nothing it sees.
LEMMA StepRefines ==
    ASSUME IInv, IInv', lapses = 0, lapses' = 0, [Next]_vars
    PROVE  Store!Next \/ UNCHANGED Store!vars
<1>a. /\ TypeOK /\ TypeOK' /\ UniqueSlots /\ UniqueSlots' /\ CurrentIs /\ Dead
      /\ FlagCoversChange /\ IdleClean
  BY CurrentLemma DEF IInv, Sound
<1>b. CurrentIs'
  <2>1. UniqueSlots' => CurrentIs'
    BY CurrentLemma, PTL
  <2> QED BY <1>a, <2>1
<1>c. disk = [k \in Keys |-> disk[k]] /\ disk' = [k \in Keys |-> disk'[k]]
  BY <1>a DEF TypeOK
<1>1. CASE Boot
  <2>1. ASSUME NEW k \in Keys PROVE Current(k) = disk[k] /\ Current(k)' = disk[k]
    <3>1. Current(k) = disk[k] /\ disk'[k] = disk[k]
      BY <1>1, <1>a DEF CurrentIs, Boot
    <3>2. CASE k = RootKey
      BY <1>1, <1>b, <3>1, <3>2, SlotFacts DEF CurrentIs, Boot
    <3>3. CASE k # RootKey
      BY <1>1, <1>b, <3>1, <3>3, SlotFacts, CacheAssumption DEF CurrentIs, Boot, EmptySlot
    <3> QED BY <3>1, <3>2, <3>3
  <2> QED BY <1>1, <2>1 DEF Store!vars, Boot
<1>2. ASSUME NEW r \in Slots, Hold(r), up' = up, disk' = disk
      PROVE  UNCHANGED Store!vars
  <2>1. \A s \in Slots : minode'[s].key = minode[s].key /\ minode'[s].INODE = minode[s].INODE
    BY <1>2, <1>a DEF Hold, TypeOK, MINODE
  <2> QED BY <1>2, <1>a, <1>b, <2>1, SameCurrent DEF Store!vars
<1>3. ASSUME NEW t \in Locals, NEW k \in Keys, NEW r \in Slots, IgetMiss(t, k, r)
      PROVE  UNCHANGED Store!vars
  <2>1. /\ up /\ up' /\ disk' = disk
        /\ minode'[r].key = k /\ minode'[r].INODE = disk[k]
        /\ \A s \in Slots : s # r => minode'[s] = minode[s]
        /\ \A s \in Slots : minode[s].key # k
        /\ minode[r].refCount = 0
    BY <1>3, <1>a DEF IgetMiss, Loaded, IsFirstFree, FreeSlots, TypeOK, MINODE
  <2>2. ASSUME NEW j \in Keys PROVE Current(j)' = Current(j)
    <3>1. CASE j = k
      BY <1>a, <1>b, <2>1, <3>1 DEF CurrentIs
    <3>2. CASE j # k /\ minode[r].key = j
      <4>1. Current(j) = disk[j]
        BY <1>a, <2>1, <3>2, CacheAssumption DEF CurrentIs, IdleClean
      <4>2. \A s \in Slots : minode'[s].key # j
        BY <1>a, <2>1, <3>2, CacheAssumption DEF UniqueSlots
      <4> QED BY <1>b, <2>1, <4>1, <4>2 DEF CurrentIs
    <3>3. CASE j # k /\ minode[r].key # j
      <4>1. CASE \E s \in Slots : minode[s].key = j
        BY <1>a, <1>b, <2>1, <3>3, <4>1 DEF CurrentIs
      <4>2. CASE ~\E s \in Slots : minode[s].key = j
        <5>1. \A s \in Slots : minode'[s].key # j
          BY <2>1, <3>3, <4>2
        <5> QED BY <1>a, <1>b, <2>1, <4>2, <5>1 DEF CurrentIs
      <4> QED BY <4>1, <4>2
    <3> QED BY <3>1, <3>2, <3>3
  <2> QED BY <2>1, <2>2 DEF Store!vars
<1>4. CASE Stop /\ disk' = disk
  <2>1. Store!Crash
    BY <1>4, <1>b, <1>c, StoppedCurrent DEF Store!Crash
  <2> QED BY <2>1 DEF Store!Next
<1>5. ASSUME NEW t \in Locals, Iput(t) PROVE Store!Next \/ UNCHANGED Store!vars
  <2>1. local[t] \in Slots
    BY <1>5, <1>a DEF Iput, TypeOK
  <2> QED BY <1>5, <1>a, <1>b, <2>1, ReleaseRefines DEF Iput
<1>6. ASSUME NEW t \in Locals, NEW v \in Values, Modify(t, v)
      PROVE  Store!Next \/ UNCHANGED Store!vars
  <2>1. /\ local[t] \in Slots /\ up /\ up' /\ disk' = disk
        /\ \A s \in Slots : /\ minode'[s].key = minode[s].key
                            /\ minode'[s].INODE = IF s = local[t] THEN v ELSE minode[s].INODE
    BY <1>6, <1>a DEF Modify, TypeOK, MINODE
  <2>2. ASSUME NEW j \in Keys
        PROVE  Current(j)' = IF minode[local[t]].key = j THEN v ELSE Current(j)
    <3>1. CASE \E s \in Slots : minode[s].key = j
      BY <1>a, <1>b, <2>1, <3>1, CacheAssumption DEF CurrentIs, UniqueSlots
    <3>2. CASE ~\E s \in Slots : minode[s].key = j
      BY <1>a, <1>b, <2>1, <3>2 DEF CurrentIs
    <3> QED BY <3>1, <3>2
  <2>3. CASE minode[local[t]].key \in Keys
    <3>1. Store!Write(minode[local[t]].key, v)
      BY <2>1, <2>2, <2>3 DEF Store!Write
    <3> QED BY <2>3, <3>1 DEF Store!Next
  <2>4. CASE minode[local[t]].key \notin Keys
    BY <2>1, <2>2, <2>4 DEF Store!vars
  <2> QED BY <2>3, <2>4
<1>7. ASSUME NEW p \in Procs, NEW t \in Locals, Chdir(p, t)
      PROVE  Store!Next \/ UNCHANGED Store!vars
  <2>1. cwd[p] \in Slots
    BY <1>7, <1>a DEF Chdir, TypeOK
  <2> QED BY <1>7, <1>a, <1>b, <2>1, ReleaseRefines DEF Chdir
<1>8. CASE Quit
  <2>1. ASSUME NEW k \in Keys PROVE disk'[k] = Current(k)
    <3>1. CASE \E s \in Slots : minode[s].key = k
      <4>1. PICK s \in Slots : minode[s].key = k
        BY <3>1
      <4>2. SlotOf(k) = s /\ Current(k) = minode[s].INODE
        BY <1>8, <1>a, <4>1, SlotOfLoaded, CacheAssumption
           DEF Quit, Loaded, UniqueSlots, CurrentIs
      <4>3. CASE minode[s].refCount > 0 /\ minode[s].dirty
        BY <1>8, <4>1, <4>2, <4>3 DEF Quit
      <4>4. CASE ~(minode[s].refCount > 0 /\ minode[s].dirty)
        <5>1. minode[s].INODE = disk[k]
          BY <1>a, <4>1, <4>4, CacheAssumption
             DEF FlagCoversChange, IdleClean, TypeOK, MINODE
        <5>2. disk'[k] = disk[k]
          BY <1>8, <1>a, <4>1, <4>4, CacheAssumption DEF Quit, UniqueSlots
        <5> QED BY <4>2, <5>1, <5>2
      <4> QED BY <4>3, <4>4
    <3>2. CASE ~\E s \in Slots : minode[s].key = k
      BY <1>8, <1>a, <3>2 DEF Quit, CurrentIs
    <3> QED BY <3>1, <3>2
  <2>2. disk' = [k \in Keys |-> Current(k)]
    BY <1>c, <2>1
  <2>3. [k \in Keys |-> Current(k)]' = disk'
    BY <1>8, <1>b, <1>c, StoppedCurrent DEF Quit
  <2>4. Store!Shutdown
    BY <2>2, <2>3 DEF Store!Shutdown
  <2> QED BY <2>4 DEF Store!Next
<1>9. ASSUME UNCHANGED <<up, minode, disk>> PROVE UNCHANGED Store!vars
  BY <1>9, <1>a, <1>b, SameCurrent DEF Store!vars
<1>10. ASSUME Lapse PROVE FALSE
  BY <1>10 DEF Lapse
<1>11. ASSUME NEW t \in Locals, NEW k \in Keys, IgetHit(t, k) PROVE UNCHANGED Store!vars
  BY <1>2, <1>11, SlotOfLoaded DEF IgetHit
<1>12. ASSUME NEW t \in Locals, NEW r \in Slots, GetinoStart(t, r) PROVE UNCHANGED Store!vars
  BY <1>2, <1>12 DEF GetinoStart
<1> QED BY <1>1, <1>3, <1>4, <1>5, <1>6, <1>7, <1>8, <1>9, <1>10, <1>11, <1>12 DEF Next,
      IgetPanic, Crash, Forget, UnlinkReleases, LinkGrows, CreateProcess, KillProcess, vars

\* When no caller breaks the contract (MaxLapses is 0), the table implements
\* InodeStore: a lookup sees the last change made to the inode, and a quit saves it.
THEOREM Refinement == ASSUME MaxLapses = 0 PROVE Spec => ImplementsInodeStore
<1>1. IInv => lapses = 0
  BY DEF IInv, TypeOK
<1>2. Init => Store!Init
  <2> SUFFICES ASSUME Init PROVE [k \in Keys |-> Current(k)] = disk /\ disk \in [Keys -> Values]
    BY DEF Store!Init
  <2> QED BY DEF Init, Current
<1>3. IInv /\ IInv' /\ [Next]_vars => [Store!Next]_(Store!vars)
  <2>1. IInv' => lapses' = 0
    BY DEF IInv, TypeOK
  <2> QED BY <1>1, <2>1, StepRefines
<1> QED BY <1>2, <1>3, Invariance, PTL DEF Spec, ImplementsInodeStore, Store!Spec

-------------------------------------------------------------------------------
\* With no lapse, iget takes no slot away from a process or a command.
THEOREM PointersKeep == ASSUME MaxLapses = 0 PROVE Spec => PointersKeepInode
<1> DEFINE Kept(s) == up' /\ (CwdsAt(s) \cap CwdsAt(s)' # {} \/ LocalsAt(s) \cap LocalsAt(s)' # {})
                        => minode'[s].key = minode[s].key
<1>1. IInv /\ [Next]_vars => \A s \in Slots : Kept(s)
  <2> SUFFICES ASSUME IInv, [Next]_vars, NEW s \in Slots, up',
                      CwdsAt(s) # {} \/ LocalsAt(s) # {}
               PROVE  minode'[s].key = minode[s].key
    OBVIOUS
  <2>a. TypeOK /\ lapses = 0
    BY DEF IInv, TypeOK
  <2>b. up
    <3>1. ~up => CwdsAt(s) = {} /\ LocalsAt(s) = {}
      BY SlotFacts DEF IInv, Dead, CwdsAt, LocalsAt
    <3> QED BY <3>1
  <2>c. minode[s].refCount > 0
    BY <2>a, HeldIfPointed
  <2>1. ASSUME NEW t \in Locals, NEW k \in Keys, NEW r \in Slots, IgetMiss(t, k, r)
        PROVE  minode'[s].key = minode[s].key
    BY <2>1, <2>a, <2>c DEF IgetMiss, IsFirstFree, FreeSlots, TypeOK, MINODE
  <2>2. ASSUME NEW r \in Slots, \/ Hold(r) \/ \E n \in {1, 2} : minode' = Released(r, n)
        PROVE  minode'[s].key = minode[s].key
    BY <2>2, <2>a DEF Hold, Released, TypeOK, MINODE
  <2>3. ASSUME NEW t \in Locals, Iput(t) PROVE minode'[s].key = minode[s].key
    <3>1. local[t] \in Slots
      BY <2>3, <2>a DEF Iput, TypeOK
    <3> QED BY <2>2, <2>3, <3>1 DEF Iput
  <2>4. ASSUME NEW p \in Procs, NEW t \in Locals, Chdir(p, t)
        PROVE  minode'[s].key = minode[s].key
    <3>1. cwd[p] \in Slots
      BY <2>4, <2>a DEF Chdir, TypeOK
    <3> QED BY <2>2, <2>4, <3>1 DEF Chdir
  <2>5. ASSUME NEW t \in Locals, NEW v \in Values, Modify(t, v)
        PROVE  minode'[s].key = minode[s].key
    BY <2>5, <2>a DEF Modify, TypeOK, MINODE
  <2>6. ASSUME Lapse PROVE FALSE
    BY <2>6, <2>a DEF Lapse
  <2>7. ASSUME NEW t \in Locals, NEW k \in Keys, IgetHit(t, k)
        PROVE  minode'[s].key = minode[s].key
    BY <2>2, <2>7, SlotOfLoaded DEF IgetHit
  <2>8. ASSUME NEW t \in Locals, NEW r \in Slots, GetinoStart(t, r)
        PROVE  minode'[s].key = minode[s].key
    BY <2>2, <2>8 DEF GetinoStart
  <2> QED BY <2>b, <2>1, <2>3, <2>4, <2>5, <2>6, <2>7, <2>8 DEF Next, Boot, IgetPanic, Stop,
        Quit, Crash, Forget, UnlinkReleases, LinkGrows, CreateProcess, KillProcess, vars
<1> QED BY <1>1, Invariance, PTL DEF Spec, PointersKeepInode

\* quit writes what the disk does not have: of a slot nobody holds, or that is not marked
\* dirty, the disk has the value already.
LEMMA QuitWritesAll ==
    ASSUME IInv, lapses = 0, Quit, NEW s \in Slots, minode[s].key # NoKey
    PROVE  disk'[minode[s].key] = minode[s].INODE
<1>1. TypeOK /\ UniqueSlots /\ FlagCoversChange /\ IdleClean
  BY DEF IInv, Sound
<1>2. minode[s].key \in Keys /\ minode[s].refCount \in Int
  BY <1>1 DEF TypeOK, MINODE
<1> DEFINE k == minode[s].key
           held == \E r \in Slots : minode[r].key = k /\ minode[r].refCount > 0 /\ minode[r].dirty
<1>3. disk'[k] = IF held THEN minode[SlotOf(k)].INODE ELSE disk[k]
  BY <1>2 DEF Quit
<1>4. SlotOf(k) = s
  <2>1. \A r \in Slots : minode[r].key = k => r = s
    BY <1>1 DEF UniqueSlots
  <2> QED BY <2>1 DEF SlotOf
<1>5. CASE held
  BY <1>3, <1>4, <1>5
<1>6. CASE ~held
  <2>1. ~(minode[s].refCount > 0 /\ minode[s].dirty)
    BY <1>6
  <2>2. CASE ~minode[s].dirty
    BY <1>1, <1>3, <1>6, <2>2 DEF FlagCoversChange
  <2>3. CASE ~(minode[s].refCount > 0)
    BY <1>1, <1>2, <1>3, <1>6, <2>3 DEF IdleClean
  <2> QED BY <2>1, <2>2, <2>3
<1> QED BY <1>5, <1>6

\* With no lapse, an orderly quit leaves the last value of every inode on the disk.
THEOREM QuitSaves == ASSUME MaxLapses = 0 PROVE Spec => QuitSavesAll
<1> DEFINE Saved == Quit => \A s \in Slots :
                        minode[s].key # NoKey => disk'[minode[s].key] = minode[s].INODE
<1>1. IInv => lapses = 0
  BY DEF IInv, TypeOK
<1>2. IInv /\ [Next]_vars => Saved
  BY <1>1, QuitWritesAll
<1> QED BY <1>2, Invariance, PTL DEF Spec, QuitSavesAll
===============================================================================
