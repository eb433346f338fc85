---------------------------- MODULE FileSystemProofs ----------------------------
(***************************************************************************)
(* Proofs about FileSystem and LevelOne for every set of names and of path *)
(* names, and any number of inodes and processes.                          *)
(*                                                                         *)
(* A command is a sequence of states, and each of them is made from the one*)
(* before by a few operations.  Passing says what every state of a command *)
(* has kept of the state b that the command, or an operation of it, begins *)
(* in; one lemma for each operation says that it goes on with that, and    *)
(* what it does to the reference counts; one for each command puts these   *)
(* together (Trail).  CountInv of FileSystem and HeldInv of LevelOne, the  *)
(* inductive invariants, follow from what a trail keeps.                   *)
(***************************************************************************)
EXTENDS LevelOne, InductionLemmas, FiniteSetTheorems, TLAPS

Outcomes == {"up", "stuck", "full", "rmdir of a parent"}

\* An inode that is not free has its bit.
Taken(inode, imap) ==
    /\ DOMAIN inode = Inos
    /\ \A i \in Inos : "kind" \in DOMAIN inode[i] /\ (inode[i].kind # "none" => i \in imap)

DiskFit(d) ==
    /\ DOMAIN d = {"imap", "bmap", "inode", "dir", "inodes"}
    /\ d.imap \subseteq Inos
    /\ Taken(d.inode, d.imap)

CoreFit(c, imap) ==
    /\ DOMAIN c = {"inode", "ref", "inodes"}
    /\ Taken(c.inode, imap)
    /\ DOMAIN c.ref = Inos /\ \A i \in Inos : c.ref[i] \in Int

Fit(s) ==
    /\ DOMAIN s = {"disk", "core", "up"}
    /\ DiskFit(s.disk) /\ CoreFit(s.core, s.disk.imap) /\ s.up \in Outcomes

\* A directory that somebody holds stays one.
Stays(b, x, j) ==
    b.core.inode[j].kind = "dir" /\ b.core.ref[j] > 0 =>
        /\ x.core.inode[j].kind = "dir"
        /\ b.disk.inode[j].kind = "dir" => x.disk.inode[j].kind = "dir"
Keeps(b, x) == \A j \in Inos : Stays(b, x, j)

\* The count of free inodes in memory is right.
Counted(s) == s.core.inodes = Cardinality(Inos \ s.disk.imap)
CountKept(b, x) == Counted(b) => Counted(x)

\* What the state x of a command that began in b has kept, with the count or without.
Passing(b, x, exact) == Fit(x) /\ Keeps(b, x) /\ (exact => CountKept(b, x))

Trail(b, t, exact) ==
    \E S : t \in Seq(S) /\ t # <<>> /\ \A x \in S : Passing(b, x, exact)

\* The references iget of i makes to the inode j.
Ref(i, j) == IF i = j THEN 1 ELSE 0
RefsKept(s, t) == \A j \in Inos : t.core.ref[j] >= s.core.ref[j]

\* Everything but the references and the INODEs that have gone to the disk is as it was.
Kept(s, t) ==
    /\ t.up = s.up /\ t.disk.imap = s.disk.imap /\ t.core.inodes = s.core.inodes
    /\ \A j \in Inos :
            /\ t.core.inode[j].kind = s.core.inode[j].kind
            /\ t.disk.inode[j].kind \in {s.disk.inode[j].kind, s.core.inode[j].kind}

-------------------------------------------------------------------------------
\* The operations, one by one.

LEMMA InosFinite == IsFiniteSet(Inos) /\ Inos \subseteq Nat /\ ROOT \in Inos
<1>1. ROOT \in Int /\ NINODES \in Int
  BY FileSystemAssumption DEF ROOT
<1>2. IsFiniteSet(ROOT .. NINODES)
  BY <1>1, FS_Interval
<1>3. Inos \subseteq Nat /\ ROOT \in Inos
  BY FileSystemAssumption DEF ROOT, Inos
<1> QED BY <1>2, <1>3 DEF Inos

LEMMA KeptPasses ==
    ASSUME NEW b, NEW s, NEW t, NEW exact \in BOOLEAN, Passing(b, s, exact), Fit(t), Kept(s, t)
    PROVE  Passing(b, t, exact)
<1>1. ASSUME NEW j \in Inos PROVE Stays(b, t, j)
  BY DEF Passing, Keeps, Stays, Kept
<1>2. exact => CountKept(b, t)
  BY DEF Passing, CountKept, Counted, Kept
<1> QED BY <1>1, <1>2 DEF Passing, Keeps

\* iget
LEMMA IgetKeeps ==
    ASSUME NEW s, NEW i, Fit(s)
    PROVE  /\ Fit(iget(s, i)) /\ Kept(s, iget(s, i))
           /\ \A j \in Inos : iget(s, i).core.ref[j] = s.core.ref[j] + Ref(i, j)
<1>1. CASE i = 0
  <2>1. 0 \notin Inos
    BY DEF Inos, ROOT
  <2>2. iget(s, i) = s
    BY <1>1 DEF iget
  <2>3. \A j \in Inos : s.core.ref[j] \in Int /\ Ref(i, j) = 0
    BY <1>1, <2>1 DEF Ref, Fit, CoreFit
  <2>4. Kept(s, s)
    BY DEF Kept
  <2> QED BY <2>2, <2>3, <2>4
<1>2. CASE i # 0
  <2>1. DOMAIN s = {"disk", "core", "up"} /\ "ref" \in DOMAIN s.core
    BY DEF Fit, CoreFit
  <2>2. iget(s, i) = [s EXCEPT !.core.ref[i] = s.core.ref[i] + 1]
    BY <1>2 DEF iget
  <2>3. /\ iget(s, i).disk = s.disk /\ iget(s, i).up = s.up
        /\ iget(s, i).core = [s.core EXCEPT !.ref = [s.core.ref EXCEPT ![i] = s.core.ref[i] + 1]]
        /\ DOMAIN iget(s, i) = DOMAIN s
    BY <2>1, <2>2
  <2> DEFINE c == iget(s, i).core
  <2>4. /\ c.inode = s.core.inode /\ c.inodes = s.core.inodes /\ DOMAIN c = DOMAIN s.core
        /\ c.ref = [s.core.ref EXCEPT ![i] = s.core.ref[i] + 1]
    BY <2>3 DEF Fit, CoreFit
  <2>5. \A j \in Inos : c.ref[j] = s.core.ref[j] + Ref(i, j)
    BY <2>4 DEF Fit, CoreFit, Ref
  <2>6. CoreFit(c, s.disk.imap)
    BY <2>4, <2>5 DEF Fit, CoreFit, Ref
  <2>7. Fit(iget(s, i))
    BY <2>3, <2>6 DEF Fit
  <2>8. Kept(s, iget(s, i))
    BY <2>3, <2>4 DEF Kept
  <2> QED BY <2>5, <2>7, <2>8
<1> QED BY <1>1, <1>2

\* iput
LEMMA WriteInodeKeeps ==
    ASSUME NEW s, NEW i, Fit(s)
    PROVE  /\ Fit(WriteInode(s, i)) /\ Kept(s, WriteInode(s, i))
           /\ WriteInode(s, i).core = s.core
<1> DEFINE w == s.core.inode[i]
           t == WriteInode(s, i)
           d == t.disk
<1>1. DOMAIN s = {"disk", "core", "up"} /\ "inode" \in DOMAIN s.disk
  BY DEF Fit, DiskFit
<1>2. t = [s EXCEPT !.disk.inode[i] = w]
  BY DEF WriteInode
<1>3. /\ d = [s.disk EXCEPT !.inode = [s.disk.inode EXCEPT ![i] = w]]
      /\ t.core = s.core /\ t.up = s.up /\ DOMAIN t = DOMAIN s
  BY <1>1, <1>2
<1> HIDE DEF t
<1>4. /\ d.imap = s.disk.imap /\ DOMAIN d = DOMAIN s.disk
      /\ d.inode = [s.disk.inode EXCEPT ![i] = w]
  BY <1>3 DEF Fit, DiskFit
<1>5. DOMAIN d.inode = Inos
  BY <1>4 DEF Fit, DiskFit, Taken
<1>6. ASSUME NEW j \in Inos
      PROVE  /\ "kind" \in DOMAIN d.inode[j]
             /\ d.inode[j].kind # "none" => j \in s.disk.imap
             /\ d.inode[j].kind \in {s.disk.inode[j].kind, s.core.inode[j].kind}
  <2>1. d.inode[j] \in {s.disk.inode[j], s.core.inode[j]}
    BY <1>4 DEF Fit, DiskFit, Taken
  <2> QED BY <2>1 DEF Fit, DiskFit, CoreFit, Taken
<1>7. DiskFit(d)
  BY <1>4, <1>5, <1>6 DEF Fit, DiskFit, Taken
<1>8. Fit(t)
  BY <1>3, <1>4, <1>7 DEF Fit
<1>9. Kept(s, t)
  BY <1>3, <1>4, <1>6 DEF Kept
<1> QED BY <1>3, <1>8, <1>9 DEF t

LEMMA IputKeeps ==
    ASSUME NEW s, NEW i, Fit(s)
    PROVE  /\ Fit(iput(s, i)) /\ Kept(s, iput(s, i))
           /\ \A j \in Inos : iput(s, i).core.ref[j] = s.core.ref[j] - Ref(i, j)
<1> DEFINE t == [s EXCEPT !.core.ref[i] = s.core.ref[i] - 1]
<1>1. iput(s, i) = IF i = 0 THEN s ELSE IF t.core.ref[i] > 0 THEN t ELSE WriteInode(t, i)
  BY DEF iput
<1>2. CASE i = 0
  <2>1. 0 \notin Inos
    BY DEF Inos, ROOT
  <2>2. iput(s, i) = s
    BY <1>1, <1>2
  <2>3. \A j \in Inos : s.core.ref[j] \in Int /\ Ref(i, j) = 0
    BY <1>2, <2>1 DEF Ref, Fit, CoreFit
  <2>4. Kept(s, s)
    BY DEF Kept
  <2> QED BY <2>2, <2>3, <2>4
<1>3. CASE i # 0
  <2>1. DOMAIN s = {"disk", "core", "up"} /\ "ref" \in DOMAIN s.core
    BY DEF Fit, CoreFit
  <2>2. /\ t.disk = s.disk /\ t.up = s.up /\ DOMAIN t = DOMAIN s
        /\ t.core = [s.core EXCEPT !.ref = [s.core.ref EXCEPT ![i] = s.core.ref[i] - 1]]
    BY <2>1
  <2> HIDE DEF t
  <2> DEFINE c == t.core
  <2>3. /\ c.inode = s.core.inode /\ c.inodes = s.core.inodes /\ DOMAIN c = DOMAIN s.core
        /\ c.ref = [s.core.ref EXCEPT ![i] = s.core.ref[i] - 1]
    BY <2>2 DEF Fit, CoreFit
  <2>4. \A j \in Inos : c.ref[j] = s.core.ref[j] - Ref(i, j)
    BY <2>3 DEF Fit, CoreFit, Ref
  <2>5. CoreFit(c, s.disk.imap)
    BY <2>3, <2>4 DEF Fit, CoreFit, Ref
  <2>6. Fit(t) /\ Kept(s, t)
    BY <2>2, <2>3, <2>5 DEF Fit, Kept
  <2> DEFINE x == WriteInode(t, i)
  <2>7. Fit(x) /\ Kept(t, x) /\ x.core = t.core
    BY <2>6, WriteInodeKeeps
  <2> HIDE DEF x
  <2>8. Kept(s, x)
    <3>1. ASSUME NEW j \in Inos
          PROVE  /\ x.core.inode[j].kind = s.core.inode[j].kind
                 /\ x.disk.inode[j].kind \in {s.disk.inode[j].kind, s.core.inode[j].kind}
      BY <2>6, <2>7 DEF Kept
    <3> QED BY <2>6, <2>7, <3>1 DEF Kept
  <2>9. iput(s, i) \in {t, x}
    BY <1>1, <1>3 DEF x
  <2> QED BY <2>4, <2>6, <2>7, <2>8, <2>9
<1> QED BY <1>2, <1>3

\* What is written to the blocks and their bits only.
BlocksOnly(s, t) ==
    /\ DOMAIN t = DOMAIN s /\ t.core = s.core /\ t.up = s.up
    /\ DOMAIN t.disk = DOMAIN s.disk /\ t.disk.imap = s.disk.imap /\ t.disk.inode = s.disk.inode

LEMMA BlocksOnlyKeeps ==
    ASSUME NEW s, NEW t, Fit(s), BlocksOnly(s, t)
    PROVE  Fit(t) /\ Kept(s, t) /\ t.core.ref = s.core.ref
BY DEF BlocksOnly, Fit, Kept, DiskFit, CoreFit

LEMMA TakeBlockKeeps ==
    ASSUME NEW s, NEW x, Fit(s)
    PROVE  BlocksOnly(s, TakeBlock(s, x))
BY DEF TakeBlock, BlocksOnly, Fit, DiskFit

LEMMA EnterNameKeeps ==
    ASSUME NEW s, NEW d, NEW i, NEW n, Fit(s)
    PROVE  BlocksOnly(s, enter_name(s, d, i, n))
BY DEF enter_name, BlocksOnly, Fit, DiskFit

LEMMA RemoveChildKeeps ==
    ASSUME NEW s, NEW d, NEW n, Fit(s)
    PROVE  BlocksOnly(s, removeChild(s, d, n))
<1> DEFINE v == {r \in s.disk.dir[s.core.inode[d].block].list : r.name # n}
<1>1. removeChild(s, d, n) = [s EXCEPT !.disk.dir[s.core.inode[d].block].list = v]
  BY DEF removeChild
<1> HIDE DEF v
<1> QED BY <1>1 DEF BlocksOnly, Fit, DiskFit

LEMMA TruncateKeeps ==
    ASSUME NEW s, NEW i, Fit(s)
    PROVE  BlocksOnly(s, truncate(s, i))
<1> DEFINE x == s.core.inode[i].block
<1>1. CASE x \notin s.disk.bmap
  BY <1>1 DEF truncate, BlocksOnly
<1>2. CASE x \in s.disk.bmap
  <2> DEFINE v == s.disk.bmap \ {x}
  <2>1. truncate(s, i) = [s EXCEPT !.disk.bmap = v, !.disk.dir[x] = Dir(0, 0)]
    BY <1>2 DEF truncate
  <2> HIDE DEF v, x
  <2> QED BY <2>1 DEF BlocksOnly, Fit, DiskFit
<1> QED BY <1>1, <1>2

LEMMA AddLinksKeeps ==
    ASSUME NEW s, NEW i, NEW n, Fit(s)
    PROVE  /\ Fit(AddLinks(s, i, n)) /\ Kept(s, AddLinks(s, i, n))
           /\ AddLinks(s, i, n).core.ref = s.core.ref
<1> DEFINE t == AddLinks(s, i, n)
           x == [s.core.inode[i] EXCEPT !.links = s.core.inode[i].links + n]
<1>1. /\ t.core = [s.core EXCEPT !.inode = [s.core.inode EXCEPT ![i] = x]]
      /\ t.disk = s.disk /\ t.up = s.up /\ DOMAIN t = DOMAIN s
  BY DEF AddLinks, Fit
<1> HIDE DEF t
<1>2. /\ t.core.inode = [s.core.inode EXCEPT ![i] = x] /\ t.core.inodes = s.core.inodes
      /\ DOMAIN t.core = DOMAIN s.core /\ t.core.ref = s.core.ref
  BY <1>1 DEF Fit, CoreFit
<1>3. DOMAIN x = DOMAIN s.core.inode[i] /\ ("kind" \in DOMAIN x => x.kind = s.core.inode[i].kind)
  OBVIOUS
<1> HIDE DEF x
<1>4. ASSUME NEW j \in Inos
      PROVE  /\ "kind" \in DOMAIN t.core.inode[j]
             /\ t.core.inode[j].kind = s.core.inode[j].kind
  <2>1. t.core.inode[j] = IF j = i THEN x ELSE s.core.inode[j]
    BY <1>2 DEF Fit, CoreFit, Taken
  <2> QED BY <1>3, <2>1 DEF Fit, CoreFit, Taken
<1>5. DOMAIN t.core.inode = Inos
  BY <1>2 DEF Fit, CoreFit, Taken
<1>6. CoreFit(t.core, s.disk.imap)
  BY <1>2, <1>4, <1>5 DEF Fit, CoreFit, Taken
<1>7. Fit(t)
  BY <1>1, <1>6 DEF Fit
<1>8. Kept(s, t)
  BY <1>1, <1>2, <1>4 DEF Kept
<1> QED BY <1>2, <1>7, <1>8 DEF t

\* The INODE x is filled in as that of inode i.
Filled(s, t, i, x) ==
    /\ DOMAIN t = DOMAIN s /\ t.up = s.up /\ DOMAIN t.disk = DOMAIN s.disk
    /\ t.disk.imap = s.disk.imap /\ t.disk.inode = s.disk.inode
    /\ t.core = [s.core EXCEPT !.inode = [s.core.inode EXCEPT ![i] = x]]
    /\ "kind" \in DOMAIN x

\* That is done to an inode which has its bit, and was no directory that somebody held.
LEMMA SetInodePasses ==
    ASSUME NEW b, NEW s, NEW i \in Inos, NEW x, NEW t, NEW exact \in BOOLEAN,
           Passing(b, s, exact), i \in s.disk.imap, ~(b.core.inode[i].kind = "dir" /\ b.core.ref[i] > 0),
           Filled(s, t, i, x)
    PROVE  Passing(b, t, exact) /\ t.core.ref = s.core.ref
<1> USE DEF Filled
<1>1. /\ t.core.inode = [s.core.inode EXCEPT ![i] = x] /\ t.core.inodes = s.core.inodes
      /\ DOMAIN t.core = DOMAIN s.core /\ t.core.ref = s.core.ref
  BY DEF Passing, Fit, CoreFit
<1>2. \A j \in Inos : t.core.inode[j] = IF j = i THEN x ELSE s.core.inode[j]
  BY <1>1 DEF Passing, Fit, CoreFit, Taken
<1>3. CoreFit(t.core, s.disk.imap)
  BY <1>1, <1>2 DEF Passing, Fit, CoreFit, Taken
<1>4. DiskFit(t.disk)
  BY DEF Passing, Fit, DiskFit
<1>5. Fit(t)
  BY <1>3, <1>4 DEF Passing, Fit
<1>6. ASSUME NEW j \in Inos PROVE Stays(b, t, j)
  BY <1>2 DEF Passing, Keeps, Stays
<1>7. exact => CountKept(b, t)
  BY <1>1 DEF Passing, CountKept, Counted
<1> QED BY <1>1, <1>5, <1>6, <1>7 DEF Passing, Keeps

\* The count goes down with a bit that is set, and up with one that is cleared.
LEMMA OneLess ==
    ASSUME NEW M, NEW i \in Inos \ M
    PROVE  /\ Cardinality(Inos \ M) \in Nat
           /\ Cardinality(Inos \ (M \cup {i})) = Cardinality(Inos \ M) - 1
<1>1. IsFiniteSet(Inos \ M)
  BY InosFinite, FS_Difference
<1>2. (Inos \ M) \ {i} = Inos \ (M \cup {i})
  OBVIOUS
<1> QED BY <1>1, <1>2, FS_RemoveElement, FS_CardinalityType

LEMMA OneMore ==
    ASSUME NEW M, NEW i \in Inos, i \in M
    PROVE  /\ Cardinality(Inos \ M) \in Nat
           /\ Cardinality(Inos \ (M \ {i})) = Cardinality(Inos \ M) + 1
<1>1. IsFiniteSet(Inos \ M)
  BY InosFinite, FS_Difference
<1>2. (Inos \ M) \cup {i} = Inos \ (M \ {i}) /\ i \notin Inos \ M
  OBVIOUS
<1> QED BY <1>1, <1>2, FS_AddElement, FS_CardinalityType

LEMMA CountEffect ==
    ASSUME NEW s, NEW n, Fit(s)
    PROVE  /\ Count(s, n).up = s.up /\ DOMAIN Count(s, n) = DOMAIN s
           /\ DOMAIN Count(s, n).disk = DOMAIN s.disk /\ DOMAIN Count(s, n).core = DOMAIN s.core
           /\ Count(s, n).disk.imap = s.disk.imap /\ Count(s, n).disk.inode = s.disk.inode
           /\ Count(s, n).core.inode = s.core.inode /\ Count(s, n).core.ref = s.core.ref
           /\ s.core.inodes # LOST => Count(s, n).core.inodes = s.core.inodes + n
<1> DEFINE v == IF s.core.inodes = LOST THEN LOST ELSE s.core.inodes + n
<1>1. Count(s, n) = [s EXCEPT !.core.inodes = v, !.disk.inodes = LOST]
  BY DEF Count
<1>2. s.core.inodes # LOST => v = s.core.inodes + n
  OBVIOUS
<1> HIDE DEF v
<1> QED BY <1>1, <1>2 DEF Fit, DiskFit, CoreFit

LEMMA TakeInodePasses ==
    ASSUME NEW b, NEW s, NEW i \in Inos, NEW exact \in BOOLEAN,
           Passing(b, s, exact), i \notin s.disk.imap
    PROVE  /\ Passing(b, TakeInode(s, i), exact)
           /\ TakeInode(s, i).core.ref = s.core.ref /\ TakeInode(s, i).up = s.up
           /\ TakeInode(s, i).disk.imap = s.disk.imap \cup {i}
<1> DEFINE k == Count(s, -1)
           t == TakeInode(s, i)
           M == s.disk.imap \cup {i}
<1>0. Fit(s)
  BY DEF Passing
<1>1. /\ k.up = s.up /\ DOMAIN k = DOMAIN s
      /\ DOMAIN k.disk = DOMAIN s.disk /\ DOMAIN k.core = DOMAIN s.core
      /\ k.disk.imap = s.disk.imap /\ k.disk.inode = s.disk.inode
      /\ k.core.inode = s.core.inode /\ k.core.ref = s.core.ref
      /\ s.core.inodes # LOST => k.core.inodes = s.core.inodes + (-1)
  BY <1>0, CountEffect
<1>2. t = [k EXCEPT !.disk.imap = k.disk.imap \cup {i}]
  BY DEF TakeInode
<1> HIDE DEF k, t
<1>3. /\ t.up = s.up /\ DOMAIN t = DOMAIN s /\ DOMAIN t.disk = DOMAIN s.disk
      /\ t.core = k.core /\ t.disk.imap = M /\ t.disk.inode = s.disk.inode
  BY <1>0, <1>1, <1>2 DEF Fit, DiskFit
<1>4. DiskFit(t.disk) /\ CoreFit(t.core, M)
  BY <1>0, <1>1, <1>3 DEF Fit, DiskFit, CoreFit, Taken
<1>5. Fit(t)
  BY <1>0, <1>3, <1>4 DEF Fit
<1>6. ASSUME Counted(s) PROVE Counted(t)
  <2>1. i \in Inos \ s.disk.imap
    OBVIOUS
  <2>2. Cardinality(Inos \ s.disk.imap) \in Nat /\ Cardinality(Inos \ M) = Cardinality(Inos \ s.disk.imap) - 1
    BY <2>1, OneLess
  <2>3. s.core.inodes = Cardinality(Inos \ s.disk.imap)
    BY <1>6 DEF Counted
  <2> HIDE DEF M
  <2>4. t.core.inodes = s.core.inodes + (-1)
    BY <1>1, <1>3, <2>2, <2>3 DEF LOST
  <2> QED BY <1>3, <2>2, <2>3, <2>4 DEF Counted
<1>7. exact => CountKept(b, t)
  BY <1>6 DEF Passing, CountKept
<1>8. ASSUME NEW j \in Inos PROVE Stays(b, t, j)
  BY <1>1, <1>3 DEF Passing, Keeps, Stays
<1> HIDE DEF M
<1>9. Passing(b, t, exact)
  BY <1>5, <1>7, <1>8 DEF Passing, Keeps
<1> QED BY <1>1, <1>3, <1>9 DEF t, M

LEMMA IdallocPasses ==
    ASSUME NEW b, NEW s, NEW i \in Inos, NEW exact \in BOOLEAN,
           Passing(b, s, exact), exact => i \in s.disk.imap,
           ~(b.core.inode[i].kind = "dir" /\ b.core.ref[i] > 0)
    PROVE  /\ Passing(b, idalloc(s, i), exact)
           /\ idalloc(s, i).core.ref = s.core.ref /\ idalloc(s, i).up = s.up
<1> DEFINE k == Count(s, 1)
           t == idalloc(s, i)
           M == s.disk.imap \ {i}
<1>0. Fit(s)
  BY DEF Passing
<1>1. /\ k.up = s.up /\ DOMAIN k = DOMAIN s
      /\ DOMAIN k.disk = DOMAIN s.disk /\ DOMAIN k.core = DOMAIN s.core
      /\ k.disk.imap = s.disk.imap /\ k.disk.inode = s.disk.inode
      /\ k.core.inode = s.core.inode /\ k.core.ref = s.core.ref
      /\ s.core.inodes # LOST => k.core.inodes = s.core.inodes + 1
  BY <1>0, CountEffect
<1>2. t = [k EXCEPT !.disk.imap = k.disk.imap \ {i}, !.disk.inode[i] = NoInode, !.core.inode[i] = NoInode]
  BY DEF idalloc
<1> HIDE DEF k, t
<1>3. /\ t.core = [k.core EXCEPT !.inode = [k.core.inode EXCEPT ![i] = NoInode]]
      /\ t.up = s.up /\ DOMAIN t = DOMAIN s
  BY <1>0, <1>1, <1>2 DEF Fit
<1>4. /\ DOMAIN t.disk = DOMAIN s.disk
      /\ t.disk.imap = M /\ t.disk.inode = [s.disk.inode EXCEPT ![i] = NoInode]
  BY <1>0, <1>1, <1>2 DEF Fit, DiskFit
<1>5. /\ t.core.inode = [s.core.inode EXCEPT ![i] = NoInode] /\ DOMAIN t.core = DOMAIN s.core
      /\ t.core.ref = s.core.ref /\ t.core.inodes = k.core.inodes
  BY <1>0, <1>1, <1>3 DEF Fit, CoreFit
<1>6. "kind" \in DOMAIN NoInode /\ NoInode.kind = "none"
  BY DEF NoInode
<1>7. \A j \in Inos : /\ t.core.inode[j] = IF j = i THEN NoInode ELSE s.core.inode[j]
                      /\ t.disk.inode[j] = IF j = i THEN NoInode ELSE s.disk.inode[j]
  BY <1>0, <1>4, <1>5 DEF Fit, DiskFit, CoreFit, Taken
<1>8. DiskFit(t.disk)
  BY <1>0, <1>4, <1>6, <1>7 DEF Fit, DiskFit, Taken
<1>9. CoreFit(t.core, M)
  BY <1>0, <1>5, <1>6, <1>7 DEF Fit, CoreFit, Taken
<1>10. Fit(t)
  BY <1>0, <1>3, <1>4, <1>8, <1>9 DEF Fit
<1>11. ASSUME Counted(s), exact PROVE Counted(t)
  <2>1. Cardinality(Inos \ s.disk.imap) \in Nat /\ Cardinality(Inos \ M) = Cardinality(Inos \ s.disk.imap) + 1
    BY <1>11, OneMore
  <2>2. s.core.inodes = Cardinality(Inos \ s.disk.imap)
    BY <1>11 DEF Counted
  <2> HIDE DEF M
  <2>3. t.core.inodes = s.core.inodes + 1
    BY <1>1, <1>5, <2>1, <2>2 DEF LOST
  <2> QED BY <1>4, <2>1, <2>2, <2>3 DEF Counted
<1>12. exact => CountKept(b, t)
  BY <1>11 DEF Passing, CountKept
<1>13. ASSUME NEW j \in Inos PROVE Stays(b, t, j)
  BY <1>7 DEF Passing, Keeps, Stays
<1>14. Passing(b, t, exact)
  BY <1>10, <1>12, <1>13 DEF Passing, Keeps
<1> QED BY <1>3, <1>5, <1>14 DEF t

-------------------------------------------------------------------------------
\* The commands that make names.

\* A state of a command from which an operation has led on.
Like(s, t) == Fit(t) /\ Kept(s, t)

LEMMA LikeOn ==
    ASSUME NEW s, NEW t, NEW x, Like(s, t), Like(t, x)
    PROVE  Like(s, x)
<1>1. ASSUME NEW j \in Inos
      PROVE  /\ x.core.inode[j].kind = s.core.inode[j].kind
             /\ x.disk.inode[j].kind \in {s.disk.inode[j].kind, s.core.inode[j].kind}
  BY DEF Like, Kept
<1> QED BY <1>1 DEF Like, Kept

LEMMA LikePasses ==
    ASSUME NEW b, NEW s, NEW t, NEW exact \in BOOLEAN, Passing(b, s, exact), Like(s, t)
    PROVE  Passing(b, t, exact)
BY KeptPasses DEF Like

LEMMA BlocksLike ==
    ASSUME NEW s, NEW t, Fit(s), BlocksOnly(s, t)
    PROVE  Like(s, t) /\ t.core.ref = s.core.ref
BY BlocksOnlyKeeps DEF Like

\* Once an operation has set up, the command goes no further.
Ended(s, t, v) == t = [s EXCEPT !.up = v]

LEMMA EndsPassing ==
    ASSUME NEW b, NEW s, NEW v \in Outcomes, NEW t, NEW exact \in BOOLEAN,
           Passing(b, s, exact), Ended(s, t, v)
    PROVE  Passing(b, t, exact) /\ t.core.ref = s.core.ref /\ t.up = v
<1>1. t.disk = s.disk /\ t.core = s.core /\ DOMAIN t = DOMAIN s /\ t.up = v
  BY DEF Passing, Fit, Ended
<1>2. Fit(t)
  BY <1>1 DEF Passing, Fit
<1>3. Keeps(b, t)
  BY <1>1 DEF Passing, Keeps, Stays
<1>4. exact => CountKept(b, t)
  BY <1>1 DEF Passing, CountKept, Counted
<1> QED BY <1>1, <1>2, <1>3, <1>4 DEF Passing

LEMMA TrailOf1 ==
    ASSUME NEW b, NEW x, NEW exact, Passing(b, x, exact)
    PROVE  Trail(b, <<x>>, exact) /\ Last(<<x>>) = x
<1> DEFINE t == <<x>>
           S == {x}
<1>1. t \in Seq(S) /\ t # <<>> /\ \A y \in S : Passing(b, y, exact)
  OBVIOUS
<1>2. Last(t) = x
  BY DEF Last
<1> HIDE DEF t, S
<1>3. Trail(b, t, exact)
  BY <1>1 DEF Trail
<1> QED BY <1>2, <1>3 DEF t

LEMMA TrailOf2 ==
    ASSUME NEW b, NEW x1, NEW x2, NEW exact, Passing(b, x1, exact), Passing(b, x2, exact)
    PROVE  Trail(b, <<x1, x2>>, exact) /\ Last(<<x1, x2>>) = x2
<1> DEFINE t == <<x1, x2>>
           S == {x1, x2}
<1>1. t \in Seq(S) /\ t # <<>> /\ \A y \in S : Passing(b, y, exact)
  OBVIOUS
<1>2. Last(t) = x2
  BY DEF Last
<1> HIDE DEF t, S
<1>3. Trail(b, t, exact)
  BY <1>1 DEF Trail
<1> QED BY <1>2, <1>3 DEF t

\* One trail after another.
LEMMA TrailOn ==
    ASSUME NEW b, NEW t, NEW r, NEW exact, Trail(b, t, exact), Trail(b, r, exact)
    PROVE  Trail(b, t \o r, exact) /\ Last(t \o r) = Last(r)
<1>1. PICK S : t \in Seq(S) /\ t # <<>> /\ \A x \in S : Passing(b, x, exact)
  BY DEF Trail
<1>2. PICK R : r \in Seq(R) /\ r # <<>> /\ \A x \in R : Passing(b, x, exact)
  BY DEF Trail
<1>3. t \in Seq(S \cup R) /\ r \in Seq(S \cup R)
  BY <1>1, <1>2
<1>4. t \o r \in Seq(S \cup R) /\ Len(t \o r) = Len(t) + Len(r) /\ Len(t) \in Nat /\ Len(r) \in Nat \ {0}
  BY <1>2, <1>3
<1>5. (t \o r)[Len(t) + Len(r)] = r[Len(r)]
  BY <1>3, <1>4
<1>6. t \o r # <<>>
  BY <1>4
<1>7. \A x \in S \cup R : Passing(b, x, exact)
  BY <1>1, <1>2
<1> QED BY <1>4, <1>5, <1>6, <1>7 DEF Trail, Last

LEMMA TrailLast ==
    ASSUME NEW b, NEW t, NEW exact, Trail(b, t, exact)
    PROVE  Passing(b, Last(t), exact) /\ \A k \in DOMAIN t : Passing(b, t[k], exact)
<1>1. PICK S : t \in Seq(S) /\ t # <<>> /\ \A x \in S : Passing(b, x, exact)
  BY DEF Trail
<1>2. Len(t) \in DOMAIN t /\ \A k \in DOMAIN t : t[k] \in S
  BY <1>1
<1> QED BY <1>1, <1>2 DEF Last

\* Of three and more states.
LEMMA TrailOf3 ==
    ASSUME NEW b, NEW x1, NEW x2, NEW x3, NEW exact,
           Passing(b, x1, exact), Passing(b, x2, exact), Passing(b, x3, exact)
    PROVE  Trail(b, <<x1, x2, x3>>, exact) /\ Last(<<x1, x2, x3>>) = x3
<1> DEFINE t == <<x1>>
           r == <<x2, x3>>
<1>1. <<x1, x2, x3>> = t \o r
  OBVIOUS
<1>2. Trail(b, t, exact) /\ Trail(b, r, exact) /\ Last(r) = x3
  BY TrailOf1, TrailOf2
<1> HIDE DEF t, r
<1>3. Trail(b, t \o r, exact) /\ Last(t \o r) = Last(r)
  BY <1>2, TrailOn
<1> QED BY <1>1, <1>2, <1>3

LEMMA TupleOf5 ==
    ASSUME NEW x1, NEW x2, NEW x3, NEW x4, NEW x5
    PROVE  <<x1, x2, x3, x4, x5>> = <<x1, x2>> \o <<x3, x4, x5>>
<1> DEFINE t == <<x1, x2>>
           r == <<x3, x4, x5>>
<1>1. <<x1, x2, x3, x4, x5>> = t \o r
  OBVIOUS
<1> QED BY <1>1

LEMMA TrailOf6 ==
    ASSUME NEW b, NEW x1, NEW x2, NEW x3, NEW x4, NEW x5, NEW x6, NEW exact,
           Passing(b, x1, exact), Passing(b, x2, exact), Passing(b, x3, exact),
           Passing(b, x4, exact), Passing(b, x5, exact), Passing(b, x6, exact)
    PROVE  /\ Trail(b, <<x1, x2, x3, x4, x5, x6>>, exact)
           /\ Last(<<x1, x2, x3, x4, x5, x6>>) = x6
<1> DEFINE t == <<x1, x2, x3>>
           r == <<x4, x5, x6>>
<1>1. <<x1, x2, x3, x4, x5, x6>> = t \o r
  OBVIOUS
<1>2. Trail(b, t, exact) /\ Trail(b, r, exact) /\ Last(r) = x6
  BY TrailOf3
<1> HIDE DEF t, r
<1>3. Trail(b, t \o r, exact) /\ Last(t \o r) = Last(r)
  BY <1>2, TrailOn
<1> QED BY <1>1, <1>2, <1>3

LEMMA IallocFree ==
    ASSUME NEW s, Fit(s), ialloc(s) # 0
    PROVE  ialloc(s) \in Inos /\ ialloc(s) \notin s.disk.imap
<1> DEFINE S == Inos \ s.disk.imap
<1>1. ialloc(s) = Least(S)
  BY DEF ialloc
<1>2. S \in SUBSET Nat /\ S # {}
  <2>1. s.disk.imap # Inos
    BY DEF ialloc
  <2> QED BY <2>1, InosFinite DEF Fit, DiskFit
<1>3. \E x \in S : \A y \in S : x <= y
  BY <1>2, LeastNat
<1>4. Least(S) \in S
  BY <1>3 DEF Least
<1> QED BY <1>1, <1>4

\* An inode that is free was no directory that somebody holds.
LEMMA FreeUnheld ==
    ASSUME NEW b, NEW s, NEW i \in Inos, NEW exact \in BOOLEAN, Passing(b, s, exact), i \notin s.disk.imap
    PROVE  ~(b.core.inode[i].kind = "dir" /\ b.core.ref[i] > 0)
BY DEF Passing, Keeps, Stays, Fit, CoreFit, Taken

LEMMA RefType == \A i, j : Ref(i, j) \in {0, 1}
BY DEF Ref

LEMMA OverfullTrail ==
    ASSUME NEW b, NEW s, NEW d, NEW n, NEW exact \in BOOLEAN, Passing(b, s, exact)
    PROVE  /\ Trail(b, Overfull(s, d, n), exact)
           /\ Last(Overfull(s, d, n)).core.ref = s.core.ref
           /\ Last(Overfull(s, d, n)).up # "up" /\ Len(Overfull(s, d, n)) = 1
<1> DEFINE e == enter_name(s, d, 0, n)
           x == [e EXCEPT !.up = "full"]
<1>1. Fit(s)
  BY DEF Passing
<1>2. Like(s, e) /\ e.core.ref = s.core.ref
  BY <1>1, EnterNameKeeps, BlocksLike
<1>3. Passing(b, e, exact)
  BY <1>2, LikePasses
<1>4. Overfull(s, d, n) = <<x>>
  BY DEF Overfull
<1> HIDE DEF e
<1>5. "full" \in Outcomes /\ Ended(e, x, "full")
  BY DEF Outcomes, Ended
<1>6. Passing(b, x, exact) /\ x.core.ref = e.core.ref /\ x.up = "full"
  BY <1>3, <1>5, EndsPassing
<1> HIDE DEF x
<1>7. Trail(b, <<x>>, exact) /\ Last(<<x>>) = x
  BY <1>6, TrailOf1
<1>8. Len(<<x>>) = 1
  OBVIOUS
<1> QED BY <1>2, <1>4, <1>6, <1>7, <1>8

LEMMA CreateFileTrail ==
    ASSUME NEW b, NEW s, NEW u, NEW d, NEW n, NEW exact \in BOOLEAN, Passing(b, s, exact)
    PROVE  /\ Trail(b, createFile(s, u, d, n), exact)
           /\ \A j \in Inos : Last(createFile(s, u, d, n)).core.ref[j] >= s.core.ref[j] - Ref(d, j)
<1> DEFINE i == ialloc(s)
           r == createFile(s, u, d, n)
<1>1. CASE i = 0
  <2>1. r = Overfull(s, d, n)
    BY <1>1 DEF createFile
  <2>2. Trail(b, r, exact) /\ Last(r).core.ref = s.core.ref
    BY <2>1, OverfullTrail
  <2>3. \A j \in Inos : s.core.ref[j] \in Int /\ Ref(d, j) \in {0, 1}
    BY RefType DEF Passing, Fit, CoreFit
  <2> HIDE DEF r
  <2>4. ASSUME NEW j \in Inos PROVE Last(r).core.ref[j] >= s.core.ref[j] - Ref(d, j)
    BY <2>2, <2>3
  <2> QED BY <2>2, <2>4 DEF r
<1>2. CASE i # 0
  <2> DEFINE s1 == TakeInode(s, i)
             g == iget(s1, i)
             s2 == [g EXCEPT !.core.inode[i] = File(u)]
             s3 == enter_name(s2, d, i, n)
             s4 == iput(s3, i)
             s5 == iput(s4, d)
  <2>1. r = <<s1, s3, s5>>
    BY <1>2 DEF createFile
  <2>2. i \in Inos /\ i \notin s.disk.imap
    BY <1>2, IallocFree DEF Passing
  <2> HIDE DEF i, r
  <2>3. /\ Passing(b, s1, exact) /\ s1.core.ref = s.core.ref
        /\ s1.disk.imap = s.disk.imap \cup {i}
    BY <2>2, TakeInodePasses
  <2> HIDE DEF s1
  <2>4. Like(s1, g) /\ \A j \in Inos : g.core.ref[j] = s1.core.ref[j] + Ref(i, j)
    BY <2>3, IgetKeeps DEF Passing, Like
  <2>5. Passing(b, g, exact) /\ i \in g.disk.imap
    BY <2>3, <2>4, LikePasses DEF Like, Kept
  <2> HIDE DEF g
  <2>6. ~(b.core.inode[i].kind = "dir" /\ b.core.ref[i] > 0)
    BY <2>2, FreeUnheld
  <2>7. Filled(g, s2, i, File(u))
    BY <2>5 DEF Passing, Fit, Filled, File
  <2> HIDE DEF s2
  <2>8. Passing(b, s2, exact) /\ s2.core.ref = g.core.ref
    BY <2>2, <2>5, <2>6, <2>7, SetInodePasses
  <2>9. Like(s2, s3) /\ s3.core.ref = s2.core.ref
    BY <2>8, EnterNameKeeps, BlocksLike DEF Passing
  <2>10. Passing(b, s3, exact)
    BY <2>8, <2>9, LikePasses
  <2> HIDE DEF s3
  <2>11. Like(s3, s4) /\ \A j \in Inos : s4.core.ref[j] = s3.core.ref[j] - Ref(i, j)
    BY <2>10, IputKeeps DEF Passing, Like
  <2>12. Passing(b, s4, exact)
    BY <2>10, <2>11, LikePasses
  <2> HIDE DEF s4
  <2>13. Like(s4, s5) /\ \A j \in Inos : s5.core.ref[j] = s4.core.ref[j] - Ref(d, j)
    BY <2>12, IputKeeps DEF Passing, Like
  <2>14. Passing(b, s5, exact)
    BY <2>12, <2>13, LikePasses
  <2> HIDE DEF s5
  <2>15. Trail(b, r, exact) /\ Last(r) = s5
    BY <2>1, <2>3, <2>10, <2>14, TrailOf3
  <2>16. \A j \in Inos : s.core.ref[j] \in Int /\ Ref(d, j) \in {0, 1} /\ Ref(i, j) \in {0, 1}
    BY RefType DEF Passing, Fit, CoreFit
  <2>17. ASSUME NEW j \in Inos PROVE Last(r).core.ref[j] >= s.core.ref[j] - Ref(d, j)
    BY <2>3, <2>4, <2>8, <2>9, <2>11, <2>13, <2>15, <2>16
  <2> QED BY <2>15, <2>17 DEF r
<1> QED BY <1>1, <1>2


LEMMA MakeDirectoryTrail ==
    ASSUME NEW b, NEW s, NEW u, NEW d, NEW n, NEW exact \in BOOLEAN, Passing(b, s, exact)
    PROVE  /\ Trail(b, makeDirectory(s, u, d, n), exact)
           /\ \A j \in Inos : Last(makeDirectory(s, u, d, n)).core.ref[j] >= s.core.ref[j] - Ref(d, j)
<1> DEFINE i == ialloc(s)
           r == makeDirectory(s, u, d, n)
<1>1. CASE i = 0
  <2> DEFINE a == AddLinks(s, d, 1)
  <2>1. r = Overfull(a, d, n)
    BY <1>1 DEF makeDirectory
  <2>2. Fit(s)
    BY DEF Passing
  <2>3. Like(s, a) /\ a.core.ref = s.core.ref
    BY <2>2, AddLinksKeeps DEF Like
  <2> HIDE DEF a
  <2>4. Passing(b, a, exact)
    BY <2>3, LikePasses
  <2>5. Trail(b, r, exact) /\ Last(r).core.ref = s.core.ref
    BY <2>1, <2>3, <2>4, OverfullTrail
  <2>6. \A j \in Inos : s.core.ref[j] \in Int /\ Ref(d, j) \in {0, 1}
    BY RefType DEF Passing, Fit, CoreFit
  <2> HIDE DEF r
  <2>7. ASSUME NEW j \in Inos PROVE Last(r).core.ref[j] >= s.core.ref[j] - Ref(d, j)
    BY <2>5, <2>6
  <2> QED BY <2>5, <2>7 DEF r
<1>2. CASE i # 0
  <2> DEFINE x == balloc(s)
             s1 == TakeInode(s, i)
             s2 == TakeBlock(s1, x)
             g == iget(s2, i)
             s3 == [g EXCEPT !.core.inode[i] = Directory(u, x), !.disk.dir[x] = Dir(i, d)]
             a == AddLinks(s3, d, 1)
             s4 == enter_name(a, d, i, n)
             s5 == iput(s4, i)
             s6 == iput(s5, d)
  <2>1. r = <<s1, s2, s3, s4, s5, s6>>
    BY <1>2 DEF makeDirectory
  <2>2. i \in Inos /\ i \notin s.disk.imap
    BY <1>2, IallocFree DEF Passing
  <2> HIDE DEF i, r, x
  <2>3. /\ Passing(b, s1, exact) /\ s1.core.ref = s.core.ref
        /\ s1.disk.imap = s.disk.imap \cup {i}
    BY <2>2, TakeInodePasses
  <2> HIDE DEF s1
  <2>4. Like(s1, s2) /\ s2.core.ref = s1.core.ref
    BY <2>3, TakeBlockKeeps, BlocksLike DEF Passing
  <2>5. Passing(b, s2, exact) /\ i \in s2.disk.imap
    BY <2>3, <2>4, LikePasses DEF Like, Kept
  <2> HIDE DEF s2
  <2>6. Like(s2, g) /\ \A j \in Inos : g.core.ref[j] = s2.core.ref[j] + Ref(i, j)
    BY <2>5, IgetKeeps DEF Passing, Like
  <2>7. Passing(b, g, exact) /\ i \in g.disk.imap
    BY <2>5, <2>6, LikePasses DEF Like, Kept
  <2> HIDE DEF g
  <2>8. ~(b.core.inode[i].kind = "dir" /\ b.core.ref[i] > 0)
    BY <2>2, FreeUnheld
  <2>9. Filled(g, s3, i, Directory(u, x))
    BY <2>7 DEF Passing, Fit, DiskFit, Filled, Directory
  <2> HIDE DEF s3
  <2>10. Passing(b, s3, exact) /\ s3.core.ref = g.core.ref
    BY <2>2, <2>7, <2>8, <2>9, SetInodePasses
  <2>11. Like(s3, a) /\ a.core.ref = s3.core.ref
    BY <2>10, AddLinksKeeps DEF Passing, Like
  <2>12. Passing(b, a, exact)
    BY <2>10, <2>11, LikePasses
  <2> HIDE DEF a
  <2>13. Like(a, s4) /\ s4.core.ref = a.core.ref
    BY <2>12, EnterNameKeeps, BlocksLike DEF Passing
  <2>14. Passing(b, s4, exact)
    BY <2>12, <2>13, LikePasses
  <2> HIDE DEF s4
  <2>15. Like(s4, s5) /\ \A j \in Inos : s5.core.ref[j] = s4.core.ref[j] - Ref(i, j)
    BY <2>14, IputKeeps DEF Passing, Like
  <2>16. Passing(b, s5, exact)
    BY <2>14, <2>15, LikePasses
  <2> HIDE DEF s5
  <2>17. Like(s5, s6) /\ \A j \in Inos : s6.core.ref[j] = s5.core.ref[j] - Ref(d, j)
    BY <2>16, IputKeeps DEF Passing, Like
  <2>18. Passing(b, s6, exact)
    BY <2>16, <2>17, LikePasses
  <2> HIDE DEF s6
  <2>19. Trail(b, r, exact) /\ Last(r) = s6
    BY <2>1, <2>3, <2>5, <2>10, <2>14, <2>16, <2>18, TrailOf6
  <2>20. \A j \in Inos : s.core.ref[j] \in Int /\ Ref(d, j) \in {0, 1} /\ Ref(i, j) \in {0, 1}
    BY RefType DEF Passing, Fit, CoreFit
  <2>21. ASSUME NEW j \in Inos PROVE Last(r).core.ref[j] >= s.core.ref[j] - Ref(d, j)
    BY <2>3, <2>4, <2>6, <2>10, <2>11, <2>13, <2>15, <2>17, <2>19, <2>20
  <2> QED BY <2>19, <2>21 DEF r
<1> QED BY <1>1, <1>2

\* A command that changes nothing, and one that takes no end.
LEMMA NothingTrail ==
    ASSUME NEW b, NEW s, NEW exact \in BOOLEAN, Passing(b, s, exact)
    PROVE  Trail(b, <<s>>, exact) /\ RefsKept(s, Last(<<s>>))
<1>1. Trail(b, <<s>>, exact) /\ Last(<<s>>) = s
  BY TrailOf1
<1>2. RefsKept(s, s)
  BY DEF RefsKept, Passing, Fit, CoreFit
<1> QED BY <1>1, <1>2

LEMMA StuckTrail ==
    ASSUME NEW b, NEW s, NEW exact \in BOOLEAN, Passing(b, s, exact)
    PROVE  /\ Trail(b, Stuck(s), exact) /\ RefsKept(s, Last(Stuck(s)))
           /\ Passing(b, Last(Stuck(s)), exact) /\ Last(Stuck(s)).up # "up"
<1> DEFINE x == [s EXCEPT !.up = "stuck"]
<1>1. "stuck" \in Outcomes /\ Ended(s, x, "stuck")
  BY DEF Outcomes, Ended
<1>2. Stuck(s) = <<x>>
  BY DEF Stuck
<1>3. Passing(b, x, exact) /\ x.core.ref = s.core.ref /\ x.up = "stuck"
  BY <1>1, EndsPassing
<1> HIDE DEF x
<1>4. Trail(b, <<x>>, exact) /\ Last(<<x>>) = x
  BY <1>3, TrailOf1
<1>5. RefsKept(s, x)
  BY <1>3 DEF RefsKept, Passing, Fit, CoreFit
<1> QED BY <1>2, <1>3, <1>4, <1>5

\* A reference that is kept.
LEMMA IgetTrail ==
    ASSUME NEW b, NEW s, NEW i, NEW exact \in BOOLEAN, Passing(b, s, exact)
    PROVE  /\ Trail(b, <<iget(s, i)>>, exact) /\ RefsKept(s, Last(<<iget(s, i)>>))
           /\ Passing(b, iget(s, i), exact)
<1> DEFINE g == iget(s, i)
<1>1. Like(s, g) /\ \A j \in Inos : g.core.ref[j] = s.core.ref[j] + Ref(i, j)
  BY IgetKeeps DEF Passing, Like
<1> HIDE DEF g
<1>2. Passing(b, g, exact)
  BY <1>1, LikePasses
<1>3. Trail(b, <<g>>, exact) /\ Last(<<g>>) = g
  BY <1>2, TrailOf1
<1>4. ASSUME NEW j \in Inos PROVE g.core.ref[j] >= s.core.ref[j]
  <2>1. s.core.ref[j] \in Int /\ Ref(i, j) \in {0, 1}
    BY RefType DEF Passing, Fit, CoreFit
  <2> QED BY <1>1, <2>1
<1> QED BY <1>2, <1>3, <1>4 DEF RefsKept, g

\* What is made of the new name of a directory that iget has made a reference to.
LEMMA MadeTrails ==
    ASSUME NEW b, NEW s, NEW u, NEW d, NEW n, NEW exact \in BOOLEAN, Passing(b, s, exact)
    PROVE  /\ Trail(b, createFile(iget(s, d), u, d, n), exact)
           /\ RefsKept(s, Last(createFile(iget(s, d), u, d, n)))
           /\ Trail(b, makeDirectory(iget(s, d), u, d, n), exact)
           /\ RefsKept(s, Last(makeDirectory(iget(s, d), u, d, n)))
<1> DEFINE g == iget(s, d)
           f == createFile(g, u, d, n)
           m == makeDirectory(g, u, d, n)
<1>1. Like(s, g) /\ \A j \in Inos : g.core.ref[j] = s.core.ref[j] + Ref(d, j)
  BY IgetKeeps DEF Passing, Like
<1>2. Passing(b, g, exact)
  BY <1>1, LikePasses
<1> HIDE DEF g
<1>3. Trail(b, f, exact) /\ \A j \in Inos : Last(f).core.ref[j] >= g.core.ref[j] - Ref(d, j)
  BY <1>2, CreateFileTrail
<1>4. Trail(b, m, exact) /\ \A j \in Inos : Last(m).core.ref[j] >= g.core.ref[j] - Ref(d, j)
  BY <1>2, MakeDirectoryTrail
<1> HIDE DEF f, m
<1>5. \A j \in Inos : s.core.ref[j] \in Int /\ Ref(d, j) \in {0, 1}
  BY RefType DEF Passing, Fit, CoreFit
<1>6. \A j \in Inos : g.core.ref[j] - Ref(d, j) = s.core.ref[j]
  BY <1>1, <1>5
<1>7. RefsKept(s, Last(f)) /\ RefsKept(s, Last(m))
  BY <1>3, <1>4, <1>6 DEF RefsKept
<1> QED BY <1>3, <1>4, <1>7 DEF g, f, m

LEMMA TryEnterTrail ==
    ASSUME NEW b, NEW s, NEW u, NEW c, NEW p, NEW made, NEW exact \in BOOLEAN, Passing(b, s, exact),
           Trail(b, made, exact), RefsKept(s, Last(made))
    PROVE  /\ Trail(b, TryEnter(s, u, c, p, made), exact)
           /\ RefsKept(s, Last(TryEnter(s, u, c, p, made)))
<1> DEFINE r == TryEnter(s, u, c, p, made)
           g == <<iget(s, getino(s, c, Parent(p)))>>
<1>1. r = Stuck(s) \/ r = g \/ r = made \/ r = <<s>>
  BY DEF TryEnter
<1>2. Trail(b, g, exact) /\ RefsKept(s, Last(g))
  BY IgetTrail
<1> HIDE DEF g, r
<1>3. Trail(b, r, exact) /\ RefsKept(s, Last(r))
  BY <1>1, <1>2, StuckTrail, NothingTrail
<1> QED BY <1>3 DEF r

LEMMA TryCreateTrail ==
    ASSUME NEW b, NEW s, NEW u, NEW c, NEW p, NEW exact \in BOOLEAN, Passing(b, s, exact)
    PROVE  /\ Trail(b, tryCreate(s, u, c, p), exact)
           /\ RefsKept(s, Last(tryCreate(s, u, c, p)))
<1> DEFINE d == getino(s, c, Parent(p))
           made == createFile(iget(s, d), u, d, Base(p))
<1>1. Trail(b, made, exact) /\ RefsKept(s, Last(made))
  BY MadeTrails
<1>2. tryCreate(s, u, c, p) = TryEnter(s, u, c, p, made)
  BY DEF tryCreate
<1> HIDE DEF made
<1> QED BY <1>1, <1>2, TryEnterTrail

LEMMA TryMakeDirectoryTrail ==
    ASSUME NEW b, NEW s, NEW u, NEW c, NEW p, NEW exact \in BOOLEAN, Passing(b, s, exact)
    PROVE  /\ Trail(b, tryMakeDirectory(s, u, c, p), exact)
           /\ RefsKept(s, Last(tryMakeDirectory(s, u, c, p)))
<1> DEFINE d == getino(s, c, Parent(p))
           made == makeDirectory(iget(s, d), u, d, Base(p))
<1>1. Trail(b, made, exact) /\ RefsKept(s, Last(made))
  BY MadeTrails
<1>2. tryMakeDirectory(s, u, c, p) = TryEnter(s, u, c, p, made)
  BY DEF tryMakeDirectory
<1> HIDE DEF made
<1> QED BY <1>1, <1>2, TryEnterTrail

\* Three references, made and released.
LEMMA IgetTwice ==
    ASSUME NEW s, NEW i, NEW k, Fit(s)
    PROVE  /\ Like(s, iget(iget(s, i), k))
           /\ \A j \in Inos : iget(iget(s, i), k).core.ref[j] = s.core.ref[j] + Ref(i, j) + Ref(k, j)
<1> DEFINE g == iget(s, i)
           h == iget(g, k)
<1>1. Like(s, g) /\ \A j \in Inos : g.core.ref[j] = s.core.ref[j] + Ref(i, j)
  BY IgetKeeps DEF Like
<1> HIDE DEF g
<1>2. Like(g, h) /\ \A j \in Inos : h.core.ref[j] = g.core.ref[j] + Ref(k, j)
  BY <1>1, IgetKeeps DEF Like
<1> HIDE DEF h
<1>3. Like(s, h)
  BY <1>1, <1>2, LikeOn
<1>4. \A j \in Inos : h.core.ref[j] = s.core.ref[j] + Ref(i, j) + Ref(k, j)
  BY <1>1, <1>2
<1> QED BY <1>3, <1>4 DEF h, g

LEMMA IputTwice ==
    ASSUME NEW s, NEW i, NEW k, Fit(s)
    PROVE  /\ Like(s, iput(iput(s, i), k))
           /\ \A j \in Inos : iput(iput(s, i), k).core.ref[j] = s.core.ref[j] - Ref(i, j) - Ref(k, j)
<1> DEFINE g == iput(s, i)
           h == iput(g, k)
<1>1. Like(s, g) /\ \A j \in Inos : g.core.ref[j] = s.core.ref[j] - Ref(i, j)
  BY IputKeeps DEF Like
<1> HIDE DEF g
<1>2. Like(g, h) /\ \A j \in Inos : h.core.ref[j] = g.core.ref[j] - Ref(k, j)
  BY <1>1, IputKeeps DEF Like
<1> HIDE DEF h
<1>3. Like(s, h)
  BY <1>1, <1>2, LikeOn
<1>4. \A j \in Inos : h.core.ref[j] = s.core.ref[j] - Ref(i, j) - Ref(k, j)
  BY <1>1, <1>2
<1> QED BY <1>3, <1>4 DEF h, g

LEMMA IputThrice ==
    ASSUME NEW s, NEW i, NEW k, NEW m, Fit(s)
    PROVE  /\ Like(s, iput3(s, i, k, m))
           /\ \A j \in Inos :
                iput3(s, i, k, m).core.ref[j] = s.core.ref[j] - Ref(i, j) - Ref(k, j) - Ref(m, j)
<1> DEFINE g == iput(iput(s, i), k)
           h == iput(g, m)
<1>1. Like(s, g) /\ \A j \in Inos : g.core.ref[j] = s.core.ref[j] - Ref(i, j) - Ref(k, j)
  BY IputTwice
<1>2. iput3(s, i, k, m) = h
  BY DEF iput3
<1> HIDE DEF g
<1>3. Like(g, h) /\ \A j \in Inos : h.core.ref[j] = g.core.ref[j] - Ref(m, j)
  BY <1>1, IputKeeps DEF Like
<1> HIDE DEF h
<1>4. Like(s, h)
  BY <1>1, <1>3, LikeOn
<1>5. \A j \in Inos : h.core.ref[j] = s.core.ref[j] - Ref(i, j) - Ref(k, j) - Ref(m, j)
  BY <1>1, <1>3
<1> QED BY <1>2, <1>4, <1>5

LEMMA RefsTyped ==
    ASSUME NEW s, Fit(s)
    PROVE  \A j \in Inos : s.core.ref[j] \in Int
BY DEF Fit, CoreFit

\* link: the file od/.. with inode i gets the name n in the directory nd.
LEMMA LinkedTrail ==
    ASSUME NEW b, NEW s, NEW od, NEW i, NEW nd, NEW n, NEW exact \in BOOLEAN, Passing(b, s, exact),
           NEW s1, s1 = enter_name(iget(iget(iget(s, od), i), nd), nd, i, n),
           NEW r, r = <<s1, iput3(AddLinks(s1, i, 1), nd, i, od)>>
    PROVE  Trail(b, r, exact) /\ RefsKept(s, Last(r))
<1> DEFINE g == iget(iget(s, od), i)
           h == iget(g, nd)
           s2 == AddLinks(s1, i, 1)
           s3 == iput3(s2, nd, i, od)
<1>0. Fit(s)
  BY DEF Passing
<1>1. Like(s, g) /\ \A j \in Inos : g.core.ref[j] = s.core.ref[j] + Ref(od, j) + Ref(i, j)
  BY <1>0, IgetTwice
<1> HIDE DEF g
<1>2. Like(g, h) /\ \A j \in Inos : h.core.ref[j] = g.core.ref[j] + Ref(nd, j)
  BY <1>1, IgetKeeps DEF Like
<1>3. s1 = enter_name(h, nd, i, n)
  BY DEF g
<1> HIDE DEF h
<1>4. Like(h, s1) /\ s1.core.ref = h.core.ref
  BY <1>2, <1>3, EnterNameKeeps, BlocksLike DEF Like
<1>5. Like(s, s1)
  BY <1>1, <1>2, <1>4, LikeOn
<1>6. Like(s1, s2) /\ s2.core.ref = s1.core.ref
  BY <1>4, AddLinksKeeps DEF Like
<1> HIDE DEF s2
<1>7. /\ Like(s2, s3)
      /\ \A j \in Inos : s3.core.ref[j] = s2.core.ref[j] - Ref(nd, j) - Ref(i, j) - Ref(od, j)
  BY <1>6, IputThrice DEF Like
<1>8. r = <<s1, s3>>
  BY DEF s2
<1> HIDE DEF s3
<1>9. Like(s, s3)
  BY <1>5, <1>6, <1>7, LikeOn
<1>10. Passing(b, s1, exact) /\ Passing(b, s3, exact)
  BY <1>5, <1>9, LikePasses
<1>11. Trail(b, r, exact) /\ Last(r) = s3
  BY <1>8, <1>10, TrailOf2
<1>12. ASSUME NEW j \in Inos PROVE s3.core.ref[j] >= s.core.ref[j]
  <2>1. s.core.ref[j] \in Int /\ Ref(od, j) \in {0, 1} /\ Ref(i, j) \in {0, 1} /\ Ref(nd, j) \in {0, 1}
    BY <1>0, RefsTyped, RefType
  <2> QED BY <1>1, <1>2, <1>4, <1>6, <1>7, <2>1
<1> QED BY <1>11, <1>12 DEF RefsKept

LEMMA TryLinkTrail ==
    ASSUME NEW b, NEW s, NEW u, NEW c, NEW p, NEW q, NEW exact \in BOOLEAN, Passing(b, s, exact)
    PROVE  /\ Trail(b, tryLink(s, u, c, p, q), exact)
           /\ RefsKept(s, Last(tryLink(s, u, c, p, q)))
<1> DEFINE od == getino(s, c, Parent(p))
           i == search(s, od, Base(p))
           nd == getino(s, c, Parent(q))
           s1 == enter_name(iget(iget(iget(s, od), i), nd), nd, i, Base(q))
           l == <<s1, iput3(AddLinks(s1, i, 1), nd, i, od)>>
           r == tryLink(s, u, c, p, q)
<1>1. Trail(b, l, exact) /\ RefsKept(s, Last(l))
  BY LinkedTrail
<1>2. r \in {Stuck(s), <<s>>, l}
  BY DEF tryLink, Outcome
<1> HIDE DEF l, r
<1> QED BY <1>1, <1>2, StuckTrail, NothingTrail DEF r

\* unlink takes the name n of the inode i in the directory d away, and a link; it frees the
\* inode or leaves it.  The inode is that of no directory.
Unlinked(s, s1, s2, s3, i, d, n) ==
    /\ s1 = iput(removeChild(iget(iget(s, i), d), d, n), d)
    /\ s2 = AddLinks(s1, i, -1)
    /\ s3 = idalloc(s2, i) \/ s3 = s2

LEMMA UnlinkedPasses ==
    ASSUME NEW b, NEW s, NEW i \in Inos, NEW d, NEW n, NEW exact \in BOOLEAN, Passing(b, s, exact),
           s.core.inode[i].kind # "dir", exact => i \in s.disk.imap,
           NEW s1, NEW s2, NEW s3, Unlinked(s, s1, s2, s3, i, d, n)
    PROVE  /\ Passing(b, s1, exact) /\ Passing(b, s3, exact) /\ s2.core.inode[i].kind # "dir"
           /\ \A j \in Inos : s3.core.ref[j] = s.core.ref[j] + Ref(i, j)
<1> DEFINE g == iget(iget(s, i), d)
           h == removeChild(g, d, n)
<1>0. Fit(s)
  BY DEF Passing
<1>1. Like(s, g) /\ \A j \in Inos : g.core.ref[j] = s.core.ref[j] + Ref(i, j) + Ref(d, j)
  BY <1>0, IgetTwice
<1>2. s1 = iput(h, d) /\ s2 = AddLinks(s1, i, -1) /\ (s3 = idalloc(s2, i) \/ s3 = s2)
  BY DEF Unlinked
<1> HIDE DEF g
<1>3. Like(g, h) /\ h.core.ref = g.core.ref
  BY <1>1, RemoveChildKeeps, BlocksLike DEF Like
<1> HIDE DEF h
<1>4. Like(h, s1) /\ \A j \in Inos : s1.core.ref[j] = h.core.ref[j] - Ref(d, j)
  BY <1>2, <1>3, IputKeeps DEF Like
<1>5. Like(s, s1)
  BY <1>1, <1>3, <1>4, LikeOn
<1>6. Like(s1, s2) /\ s2.core.ref = s1.core.ref
  BY <1>2, <1>4, AddLinksKeeps DEF Like
<1>7. Like(s, s2)
  BY <1>5, <1>6, LikeOn
<1>8. Passing(b, s1, exact) /\ Passing(b, s2, exact)
  BY <1>5, <1>7, LikePasses
<1>9. s2.core.inode[i].kind # "dir" /\ (exact => i \in s2.disk.imap)
  BY <1>7 DEF Like, Kept
<1>10. ~(b.core.inode[i].kind = "dir" /\ b.core.ref[i] > 0)
  BY <1>8, <1>9 DEF Passing, Keeps, Stays
<1>11. Passing(b, s3, exact) /\ s3.core.ref = s2.core.ref
  BY <1>2, <1>8, <1>9, <1>10, IdallocPasses
<1>12. ASSUME NEW j \in Inos PROVE s3.core.ref[j] = s.core.ref[j] + Ref(i, j)
  <2>1. s.core.ref[j] \in Int /\ Ref(d, j) \in {0, 1} /\ Ref(i, j) \in {0, 1}
    BY <1>0, RefsTyped, RefType
  <2> QED BY <1>1, <1>3, <1>4, <1>6, <1>11, <2>1
<1> QED BY <1>8, <1>9, <1>11, <1>12

LEMMA TryUnlinkTrail ==
    ASSUME NEW b, NEW s, NEW u, NEW c, NEW p, NEW exact \in BOOLEAN, Passing(b, s, exact)
    PROVE  Trail(b, tryUnlink(s, u, c, p), exact)
<1> DEFINE i == getino(s, c, p)
           d == getino(s, c, Parent(p))
           s1 == iput(removeChild(iget(iget(s, i), d), d, Base(p)), d)
           s2 == AddLinks(s1, i, -1)
           s3 == IF s2.core.inode[i].links <= 0 THEN idalloc(s2, i) ELSE s2
           t == <<s1, s3, iput(s3, i), iput(iput(s3, i), d)>>
           r == tryUnlink(s, u, c, p)
<1>1. CASE i \in Inos /\ s.core.inode[i].kind = "reg"
  <2>1. i \in s.disk.imap
    BY <1>1 DEF Passing, Fit, CoreFit, Taken
  <2>2. Passing(b, s1, exact) /\ Passing(b, s3, exact)
    <3> DEFINE n == Base(p)
    <3>1. Unlinked(s, s1, s2, s3, i, d, n)
      BY DEF Unlinked
    <3>2. s.core.inode[i].kind # "dir"
      BY <1>1
    <3> HIDE DEF i, d, n, s1, s2, s3
    <3> QED BY <1>1, <2>1, <3>1, <3>2, UnlinkedPasses
  <2> HIDE DEF i, s1, s3
  <2>3. Passing(b, iput(s3, i), exact) /\ Passing(b, iput(iput(s3, i), d), exact)
    <3>1. Like(s3, iput(s3, i)) /\ Like(s3, iput(iput(s3, i), d))
      BY <2>2, IputKeeps, IputTwice DEF Passing, Like
    <3> QED BY <2>2, <3>1, LikePasses
  <2>4. Trail(b, <<s1, s3>>, exact) /\ Trail(b, <<iput(s3, i), iput(iput(s3, i), d)>>, exact)
    BY <2>2, <2>3, TrailOf2
  <2>5. t = <<s1, s3>> \o <<iput(s3, i), iput(iput(s3, i), d)>>
    OBVIOUS
  <2>6. Trail(b, t, exact)
    BY <2>4, <2>5, TrailOn
  <2>7. r \in {Stuck(s), <<s>>, t}
    BY DEF tryUnlink, s1, s3, i
  <2> HIDE DEF t, r
  <2> QED BY <2>6, <2>7, StuckTrail, NothingTrail DEF r
<1>2. CASE ~(i \in Inos /\ s.core.inode[i].kind = "reg")
  <2>1. r \in {Stuck(s), <<s>>}
    BY <1>2 DEF tryUnlink
  <2> HIDE DEF r
  <2> QED BY <2>1, StuckTrail, NothingTrail DEF r
<1> QED BY <1>1, <1>2

\* rmdir frees a directory that nobody holds but the command itself.
Removed(g, s1, s2, s3, d, i, n) ==
    s1 = truncate(g, i) /\ s2 = idalloc(s1, i) /\ s3 = removeChild(s2, d, n)

LEMMA RemovedTrail ==
    ASSUME NEW s, NEW d, NEW i \in Inos, NEW n, NEW exact \in BOOLEAN, Passing(s, s, exact),
           s.core.inode[i].kind = "dir",
           NEW g, g = iget(iget(s, d), i), g.core.ref[i] = 1,
           NEW s1, NEW s2, NEW s3, Removed(g, s1, s2, s3, d, i, n)
    PROVE  LET r == <<s1, s2, s3, iput(s3, i), iput(iput(s3, i), d)>>
           IN  Trail(s, r, exact) /\ RefsKept(s, Last(r))
<1> DEFINE e == iput(s3, i)
           f == iput(iput(s3, i), d)
           r == <<s1, s2, s3, e, f>>
<1>0. Fit(s)
  BY DEF Passing
<1>1. Like(s, g) /\ \A j \in Inos : g.core.ref[j] = s.core.ref[j] + Ref(d, j) + Ref(i, j)
  BY <1>0, IgetTwice
<1>2. \A j \in Inos : s.core.ref[j] \in Int /\ Ref(d, j) \in {0, 1} /\ Ref(i, j) \in {0, 1}
  BY <1>0, RefsTyped, RefType
<1>3. ~(s.core.ref[i] > 0)
  <2>1. Ref(i, i) = 1
    BY DEF Ref
  <2> QED BY <1>1, <1>2, <2>1
<1>4. Like(g, s1) /\ s1.core.ref = g.core.ref
  BY <1>1, TruncateKeeps, BlocksLike DEF Like, Removed
<1>5. Like(s, s1)
  BY <1>1, <1>4, LikeOn
<1>6. i \in s.disk.imap
  BY <1>0 DEF Fit, CoreFit, Taken
<1>7. Passing(s, s1, exact) /\ i \in s1.disk.imap
  BY <1>5, <1>6, LikePasses DEF Like, Kept
<1>8. Passing(s, s2, exact) /\ s2.core.ref = s1.core.ref
  BY <1>3, <1>7, IdallocPasses DEF Removed
<1>9. Like(s2, s3) /\ s3.core.ref = s2.core.ref
  BY <1>8, RemoveChildKeeps, BlocksLike DEF Passing, Removed
<1>10. Like(s3, e)
  BY <1>9, IputKeeps DEF Like
<1>11. /\ Like(s3, f)
       /\ \A j \in Inos : f.core.ref[j] = s3.core.ref[j] - Ref(i, j) - Ref(d, j)
  BY <1>9, IputTwice DEF Like
<1> HIDE DEF e, f
<1>12. Passing(s, s3, exact)
  BY <1>8, <1>9, LikePasses
<1>13. Passing(s, e, exact) /\ Passing(s, f, exact)
  BY <1>10, <1>11, <1>12, LikePasses
<1>14. Trail(s, r, exact) /\ Last(r) = f
  <2> DEFINE a == <<s1, s2, s3>>
             c == <<e, f>>
  <2>1. r = a \o c
    OBVIOUS
  <2>2. Trail(s, a, exact) /\ Trail(s, c, exact) /\ Last(c) = f
    BY <1>7, <1>8, <1>12, <1>13, TrailOf2, TrailOf3
  <2> HIDE DEF a, c, r
  <2>3. Trail(s, a \o c, exact) /\ Last(a \o c) = Last(c)
    BY <2>2, TrailOn
  <2> QED BY <2>1, <2>2, <2>3
<1>15. ASSUME NEW j \in Inos PROVE f.core.ref[j] >= s.core.ref[j]
  BY <1>1, <1>2, <1>4, <1>8, <1>9, <1>11
<1> HIDE DEF r
<1>16. Trail(s, r, exact) /\ RefsKept(s, Last(r))
  BY <1>14, <1>15 DEF RefsKept
<1> QED BY <1>16 DEF r, e, f

\* One that it does not remove is released.
LEMMA ReleasedTrail ==
    ASSUME NEW b, NEW s, NEW d, NEW i, NEW exact \in BOOLEAN, Passing(b, s, exact),
           NEW r, r = <<iput(iput(iget(iget(s, d), i), i), d)>>
    PROVE  Trail(b, r, exact) /\ RefsKept(s, Last(r))
<1> DEFINE g == iget(iget(s, d), i)
           f == iput(iput(g, i), d)
<1>0. Fit(s)
  BY DEF Passing
<1>1. Like(s, g) /\ \A j \in Inos : g.core.ref[j] = s.core.ref[j] + Ref(d, j) + Ref(i, j)
  BY <1>0, IgetTwice
<1>2. r = <<f>>
  OBVIOUS
<1> HIDE DEF g
<1>3. Like(g, f) /\ \A j \in Inos : f.core.ref[j] = g.core.ref[j] - Ref(i, j) - Ref(d, j)
  BY <1>1, IputTwice DEF Like
<1> HIDE DEF f
<1>4. Passing(b, f, exact)
  BY <1>1, <1>3, LikeOn, LikePasses
<1>5. Trail(b, r, exact) /\ Last(r) = f
  BY <1>2, <1>4, TrailOf1
<1>6. ASSUME NEW j \in Inos PROVE f.core.ref[j] >= s.core.ref[j]
  <2>1. s.core.ref[j] \in Int /\ Ref(d, j) \in {0, 1} /\ Ref(i, j) \in {0, 1}
    BY <1>0, RefsTyped, RefType
  <2> QED BY <1>1, <1>3, <2>1
<1> QED BY <1>5, <1>6 DEF RefsKept

\* That of a parent goes no further.
LEMMA ParentTrail ==
    ASSUME NEW b, NEW s, NEW exact \in BOOLEAN, Passing(b, s, exact)
    PROVE  LET r == <<[s EXCEPT !.up = "rmdir of a parent"]>>
           IN  Trail(b, r, exact) /\ RefsKept(s, Last(r))
<1> DEFINE w == "rmdir of a parent"
           x == [s EXCEPT !.up = w]
<1>1. w \in Outcomes /\ Ended(s, x, w)
  BY DEF Outcomes, Ended
<1> HIDE DEF x, w
<1>2. Passing(b, x, exact) /\ x.core.ref = s.core.ref
  BY <1>1, EndsPassing
<1>3. Trail(b, <<x>>, exact) /\ Last(<<x>>) = x
  BY <1>2, TrailOf1
<1>4. RefsKept(s, x)
  BY <1>2 DEF RefsKept, Passing, Fit, CoreFit
<1>5. Trail(b, <<x>>, exact) /\ RefsKept(s, Last(<<x>>))
  BY <1>3, <1>4
<1> QED BY Zenon, <1>5 DEF x, w

LEMMA TryRemoveDirectoryTrail ==
    ASSUME NEW s, NEW u, NEW c, NEW p, NEW exact \in BOOLEAN, Passing(s, s, exact)
    PROVE  /\ Trail(s, tryRemoveDirectory(s, u, c, p), exact)
           /\ RefsKept(s, Last(tryRemoveDirectory(s, u, c, p)))
<1> DEFINE d == getino(s, c, Parent(p))
           n == Base(p)
           i == search(s, d, n)
           g == iget(iget(s, d), i)
           s1 == truncate(g, i)
           s2 == idalloc(s1, i)
           s3 == removeChild(s2, d, n)
           t == <<s1, s2, s3, iput(s3, i), iput(iput(s3, i), d)>>
           v == <<iput(iput(g, i), d)>>
           x == [s EXCEPT !.up = "rmdir of a parent"]
           r == tryRemoveDirectory(s, u, c, p)
<1>1. r \in {Stuck(s), <<s>>, <<x>>} \/ (IsDir(s, i) /\ r = v) \/ (IsDir(s, i) /\ g.core.ref[i] = 1 /\ r = t)
  <2> DEFINE y == removeDirectory(g, d, i, n)
  <2>1. y = v \/ (g.core.ref[i] = 1 /\ y = t)
    BY DEF removeDirectory
  <2>2. r \in {Stuck(s), <<s>>, <<x>>} \/ (IsDir(s, i) /\ r = y)
    <3> HIDE DEF t, v
    <3>1. r = (CASE d = STUCK -> Stuck(s)
                 [] IsDir(s, d) /\ IsDir(s, i) /\ MayWrite(s, u, d) ->
                        (IF Len(y) > 1 /\ Unnamed(p) THEN <<x>> ELSE y)
                 [] OTHER -> <<s>>)
      BY Zenon DEF tryRemoveDirectory
    <3> HIDE DEF y, x, d, i, r
    <3> QED BY <3>1
  <2> HIDE DEF y, t, v, x, r, g, i, d
  <2> QED BY <2>1, <2>2
<1>2. ASSUME IsDir(s, i), g.core.ref[i] = 1 PROVE Trail(s, t, exact) /\ RefsKept(s, Last(t))
  <2>1. Removed(g, s1, s2, s3, d, i, n)
    BY DEF Removed
  <2>2. i \in Inos /\ s.core.inode[i].kind = "dir"
    BY <1>2 DEF IsDir
  <2>3. g = iget(iget(s, d), i) /\ g.core.ref[i] = 1
    BY <1>2
  <2> HIDE DEF g, s1, s2, s3, i, d, n
  <2> QED BY <2>1, <2>2, <2>3, RemovedTrail
<1>3. Trail(s, v, exact) /\ RefsKept(s, Last(v))
  BY ReleasedTrail
<1>4. Trail(s, <<x>>, exact) /\ RefsKept(s, Last(<<x>>))
  BY ParentTrail
<1> HIDE DEF r, t, v, x
<1>5. Trail(s, r, exact) /\ RefsKept(s, Last(r))
  BY <1>1, <1>2, <1>3, <1>4, StuckTrail, NothingTrail
<1> QED BY <1>5 DEF r

\* symlink: created is what tryCreate has made of the new name, after a reference to the old
\* file, i, and one to its directory, od.
LEMMA SymlinkedTrail ==
    ASSUME NEW b, NEW s, NEW od, NEW i, NEW exact \in BOOLEAN, Passing(b, s, exact),
           NEW created, Trail(b, created, exact),
           RefsKept(iget(iget(s, od), i), Last(created)),
           NEW n, NEW t, t = Last(created), NEW linked, linked = iget(t, n),
           NEW r, r \in {created, created \o <<iput(linked, n), iput3(linked, n, i, od)>>, <<iput(t, od)>>}
    PROVE  Trail(b, r, exact) /\ RefsKept(s, Last(r))
<1> DEFINE g == iget(iget(s, od), i)
           e == iput(linked, n)
           f == iput3(linked, n, i, od)
           h == iput(t, od)
<1>0. Fit(s)
  BY DEF Passing
<1>1. \A j \in Inos : g.core.ref[j] = s.core.ref[j] + Ref(od, j) + Ref(i, j)
  BY <1>0, IgetTwice
<1>2. \A j \in Inos : t.core.ref[j] >= g.core.ref[j]
  BY DEF RefsKept
<1> HIDE DEF g
<1>3. Passing(b, t, exact)
  BY TrailLast
<1>4. Like(t, linked) /\ \A j \in Inos : linked.core.ref[j] = t.core.ref[j] + Ref(n, j)
  BY <1>3, IgetKeeps DEF Passing, Like
<1>5. Like(linked, e)
  BY <1>4, IputKeeps DEF Like
<1>6. /\ Like(linked, f)
      /\ \A j \in Inos : f.core.ref[j] = linked.core.ref[j] - Ref(n, j) - Ref(i, j) - Ref(od, j)
  BY <1>4, IputThrice DEF Like
<1>7. Like(t, h) /\ \A j \in Inos : h.core.ref[j] = t.core.ref[j] - Ref(od, j)
  BY <1>3, IputKeeps DEF Passing, Like
<1>8. \A j \in Inos : /\ s.core.ref[j] \in Int /\ t.core.ref[j] \in Int
                      /\ Ref(od, j) \in {0, 1} /\ Ref(i, j) \in {0, 1} /\ Ref(n, j) \in {0, 1}
  BY <1>0, <1>3, RefsTyped, RefType DEF Passing
<1>9. RefsKept(s, t)
  BY <1>1, <1>2, <1>8 DEF RefsKept
<1>10. RefsKept(s, f)
  BY <1>1, <1>2, <1>4, <1>6, <1>8 DEF RefsKept
<1>11. RefsKept(s, h)
  BY <1>1, <1>2, <1>7, <1>8 DEF RefsKept
<1>12. r \in {created, created \o <<e, f>>, <<h>>}
  OBVIOUS
<1> HIDE DEF e, f, h
<1>13. Passing(b, linked, exact)
  BY <1>3, <1>4, LikePasses
<1>14. Passing(b, e, exact) /\ Passing(b, f, exact) /\ Passing(b, h, exact)
  BY <1>3, <1>5, <1>6, <1>7, <1>13, LikePasses
<1>15. Trail(b, created \o <<e, f>>, exact) /\ Last(created \o <<e, f>>) = f
  <2> DEFINE a == <<e, f>>
  <2>1. Trail(b, a, exact) /\ Last(a) = f
    BY <1>14, TrailOf2
  <2> HIDE DEF a
  <2>2. Trail(b, created \o a, exact) /\ Last(created \o a) = Last(a)
    BY <2>1, TrailOn
  <2> QED BY <2>1, <2>2 DEF a
<1>16. Trail(b, <<h>>, exact) /\ Last(<<h>>) = h
  BY <1>14, TrailOf1
<1> QED BY <1>9, <1>10, <1>11, <1>12, <1>15, <1>16

LEMMA SymlinkTrail ==
    ASSUME NEW b, NEW s, NEW u, NEW c, NEW p, NEW q, NEW exact \in BOOLEAN, Passing(b, s, exact)
    PROVE  /\ Trail(b, symlink(s, u, c, p, q), exact)
           /\ RefsKept(s, Last(symlink(s, u, c, p, q)))
<1> DEFINE od == getino(s, c, Parent(p))
           i == search(s, od, Base(p))
           g == iget(iget(s, od), i)
           created == tryCreate(g, u, c, q)
           t == Last(created)
           n == getino(t, c, q)
           linked == iget(t, n)
           r == symlink(s, u, c, p, q)
<1>1. r \in {Stuck(s), <<s>>} \/
      r \in {created, created \o <<iput(linked, n), iput3(linked, n, i, od)>>, <<iput(t, od)>>}
  BY DEF symlink
<1>2. Like(s, g)
  BY IgetTwice DEF Passing
<1>3. g = iget(iget(s, od), i)
  OBVIOUS
<1> HIDE DEF g
<1>4. Passing(b, g, exact)
  BY <1>2, LikePasses
<1>5. Trail(b, created, exact) /\ RefsKept(g, Last(created))
  BY <1>4, TryCreateTrail
<1>6. t = Last(created) /\ linked = iget(t, n)
  OBVIOUS
<1> HIDE DEF created, t, n, linked, r, od, i
<1>7. CASE r \in {Stuck(s), <<s>>}
  BY <1>7, StuckTrail, NothingTrail DEF r
<1>8. CASE r \in {created, created \o <<iput(linked, n), iput3(linked, n, i, od)>>, <<iput(t, od)>>}
  <2>1. Trail(b, r, exact) /\ RefsKept(s, Last(r))
    BY <1>3, <1>5, <1>6, <1>8, SymlinkedTrail
  <2> QED BY <2>1 DEF r
<1> QED BY <1>1, <1>7, <1>8

-------------------------------------------------------------------------------
\* The commands of level-1.

LEMMA TryMakeTrail ==
    ASSUME NEW b, NEW s, NEW c, NEW p, NEW made, NEW exact \in BOOLEAN, Passing(b, s, exact),
           Trail(b, made, exact), RefsKept(s, Last(made))
    PROVE  /\ Trail(b, TryMake(s, c, p, made), exact)
           /\ RefsKept(s, Last(TryMake(s, c, p, made)))
<1> DEFINE r == TryMake(s, c, p, made)
<1>1. r = Stuck(s) \/ r = made \/ r = <<s>>
  BY DEF TryMake
<1> HIDE DEF r
<1>2. Trail(b, r, exact) /\ RefsKept(s, Last(r))
  BY <1>1, StuckTrail, NothingTrail
<1> QED BY <1>2 DEF r

LEMMA TryCreateOneTrail ==
    ASSUME NEW b, NEW s, NEW c, NEW p, NEW exact \in BOOLEAN, Passing(b, s, exact)
    PROVE  /\ Trail(b, tryCreateOne(s, c, p), exact)
           /\ RefsKept(s, Last(tryCreateOne(s, c, p)))
<1> DEFINE d == getino(s, c, Parent(p))
           made == createFile(iget(s, d), 0, d, Base(p))
<1>1. Trail(b, made, exact) /\ RefsKept(s, Last(made))
  BY MadeTrails
<1>2. tryCreateOne(s, c, p) = TryMake(s, c, p, made)
  BY DEF tryCreateOne, createFileOne
<1> HIDE DEF made
<1> QED BY <1>1, <1>2, TryMakeTrail

LEMMA TryMakeDirectoryOneTrail ==
    ASSUME NEW b, NEW s, NEW c, NEW p, NEW exact \in BOOLEAN, Passing(b, s, exact)
    PROVE  /\ Trail(b, tryMakeDirectoryOne(s, c, p), exact)
           /\ RefsKept(s, Last(tryMakeDirectoryOne(s, c, p)))
<1> DEFINE d == getino(s, c, Parent(p))
           made == makeDirectory(iget(s, d), 0, d, Base(p))
<1>1. Trail(b, made, exact) /\ RefsKept(s, Last(made))
  BY MadeTrails
<1>2. tryMakeDirectoryOne(s, c, p) = TryMake(s, c, p, made)
  BY DEF tryMakeDirectoryOne, makeDirectoryOne
<1> HIDE DEF made
<1> QED BY <1>1, <1>2, TryMakeTrail

LEMMA TryLinkOneTrail ==
    ASSUME NEW b, NEW s, NEW c, NEW p, NEW q, NEW exact \in BOOLEAN, Passing(b, s, exact)
    PROVE  /\ Trail(b, tryLinkOne(s, c, p, q), exact)
           /\ RefsKept(s, Last(tryLinkOne(s, c, p, q)))
<1> DEFINE od == getino(s, c, Parent(p))
           i == search(s, od, Base(p))
           nd == getino(s, c, Parent(q))
           s1 == enter_name(iget(iget(iget(s, od), i), nd), nd, i, Base(q))
           l == <<s1, iput3(AddLinks(s1, i, 1), nd, i, od)>>
           r == tryLinkOne(s, c, p, q)
<1>1. Trail(b, l, exact) /\ RefsKept(s, Last(l))
  BY LinkedTrail
<1>2. r \in {Stuck(s), <<s>>, l}
  BY DEF tryLinkOne
<1> HIDE DEF l, r
<1> QED BY <1>1, <1>2, StuckTrail, NothingTrail DEF r

LEMMA TryUnlinkOneTrail ==
    ASSUME NEW b, NEW s, NEW c, NEW p, NEW exact \in BOOLEAN, Passing(b, s, exact), ~exact
    PROVE  /\ Trail(b, tryUnlinkOne(s, c, p), exact)
           /\ RefsKept(s, Last(tryUnlinkOne(s, c, p)))
<1> DEFINE i == getino(s, c, p)
           d == getino(s, c, Parent(p))
           n == Base(p)
           s1 == iput(removeChild(iget(iget(s, i), d), d, n), d)
           s2 == AddLinks(s1, i, -1)
           s3 == IF s2.core.inode[i].links <= 0 THEN Last(freeInodeAndBlocks(s2, i)) ELSE s2
           e == iput(s3, i)
           t == <<s1, s3, e>>
           r == tryUnlinkOne(s, c, p)
<1>1. CASE i \in Inos /\ s.core.inode[i].kind # "dir"
  <2> DEFINE s0 == idalloc(s2, i)
  <2>1. Unlinked(s, s1, s2, s0, i, d, n) /\ s.core.inode[i].kind # "dir"
    BY <1>1 DEF Unlinked
  <2>2. s2.core.inode[i].kind # "dir"
    <3> HIDE DEF i, d, n, s1, s2, s0
    <3>1. /\ Passing(b, s1, exact) /\ Passing(b, s0, exact) /\ s2.core.inode[i].kind # "dir"
          /\ \A j \in Inos : s0.core.ref[j] = s.core.ref[j] + Ref(i, j)
      BY <1>1, <2>1, UnlinkedPasses
    <3> QED BY <3>1
  <2>3. Last(freeInodeAndBlocks(s2, i)) = s0
    <3>1. freeInodeAndBlocks(s2, i) = <<s2, s0>>
      <4> HIDE DEF s2
      <4> QED BY <2>2 DEF freeInodeAndBlocks, IsDir
    <3> HIDE DEF s0, s2
    <3> QED BY <3>1 DEF Last
  <2>4. Unlinked(s, s1, s2, s3, i, d, n)
    BY <2>3 DEF Unlinked
  <2>5. r \in {Stuck(s), <<s>>, t}
    BY DEF tryUnlinkOne
  <2> HIDE DEF i, d, n, s1, s2, s3
  <2>6. /\ Passing(b, s1, exact) /\ Passing(b, s3, exact)
        /\ \A j \in Inos : s3.core.ref[j] = s.core.ref[j] + Ref(i, j)
    BY <1>1, <2>1, <2>4, UnlinkedPasses
  <2>7. Like(s3, e) /\ \A j \in Inos : e.core.ref[j] = s3.core.ref[j] - Ref(i, j)
    BY <2>6, IputKeeps DEF Passing, Like
  <2> HIDE DEF e
  <2>8. Passing(b, e, exact)
    BY <2>6, <2>7, LikePasses
  <2>9. Trail(b, t, exact) /\ Last(t) = e
    BY <2>6, <2>8, TrailOf3
  <2>10. ASSUME NEW j \in Inos PROVE e.core.ref[j] >= s.core.ref[j]
    <3>1. s.core.ref[j] \in Int /\ Ref(i, j) \in {0, 1}
      BY RefsTyped, RefType DEF Passing
    <3> QED BY <2>6, <2>7, <3>1
  <2>11. RefsKept(s, e)
    BY <2>10 DEF RefsKept
  <2> HIDE DEF t, r
  <2> QED BY <2>5, <2>9, <2>11, StuckTrail, NothingTrail DEF r
<1>2. CASE ~(i \in Inos /\ s.core.inode[i].kind # "dir")
  <2>1. r \in {Stuck(s), <<s>>}
    BY <1>2 DEF tryUnlinkOne, IsDir
  <2> HIDE DEF r
  <2> QED BY <2>1, StuckTrail, NothingTrail DEF r
<1> QED BY <1>1, <1>2

LEMMA TryRemoveDirectoryOneTrail ==
    ASSUME NEW s, NEW c, NEW p, NEW exact \in BOOLEAN, Passing(s, s, exact)
    PROVE  /\ Trail(s, tryRemoveDirectoryOne(s, c, p), exact)
           /\ RefsKept(s, Last(tryRemoveDirectoryOne(s, c, p)))
<1> DEFINE d == getino(s, c, Parent(p))
           n == Base(p)
           i == search(s, d, n)
           g == iget(iget(s, d), i)
           s1 == truncate(g, i)
           s2 == idalloc(s1, i)
           s3 == removeChild(s2, d, n)
           e == iput(s3, i)
           f == iput(iput(s3, i), d)
           t == <<s1, s2, s3, e, f>>
           v == <<iput(iput(g, i), d)>>
           h == <<iget(s, d)>>
           x == [s EXCEPT !.up = "rmdir of a parent"]
           r == tryRemoveDirectoryOne(s, c, p)
<1>1. r \in {Stuck(s), <<s>>, <<x>>, h} \/ (IsDir(s, i) /\ r = v) \/ (IsDir(s, i) /\ g.core.ref[i] = 1 /\ r = t)
  <2> DEFINE y == removeDirectoryOne(g, d, i, n)
  <2>1. ASSUME IsDir(s, i) PROVE y = v \/ (g.core.ref[i] = 1 /\ y = t)
    <3> DEFINE freed == freeInodeAndBlocks(g, i)
               a == <<s3, e, f>>
    <3>1. Like(s, g)
      BY IgetTwice DEF Passing
    <3>2. IsDir(g, i)
      <4> HIDE DEF g
      <4> QED BY <2>1, <3>1 DEF IsDir, Like, Kept
    <3>3. freed = <<s1, s2>>
      <4> HIDE DEF g, i
      <4> QED BY <3>2 DEF freeInodeAndBlocks
    <3>4. y = v \/ (g.core.ref[i] = 1 /\ y = freed \o <<removeChild(Last(freed), d, n),
                                                       iput(removeChild(Last(freed), d, n), i),
                                                       iput(iput(removeChild(Last(freed), d, n), i), d)>>)
      <4> HIDE DEF g, i, d, n
      <4> QED BY DEF removeDirectoryOne
    <3> HIDE DEF freed, s2, s1
    <3>5. Last(freed) = s2
      BY <3>3 DEF Last
    <3>6. y = v \/ (g.core.ref[i] = 1 /\ y = freed \o a)
      BY <3>4, <3>5
    <3> HIDE DEF s3, e, f
    <3>7. t = freed \o a
      <4>1. t = <<s1, s2>> \o a
        OBVIOUS
      <4> QED BY <3>3, <4>1
    <3> HIDE DEF y, v, t, a
    <3> QED BY <3>6, <3>7
  <2>2. r \in {Stuck(s), <<s>>, <<x>>, h} \/ (IsDir(s, i) /\ r = y)
    <3> HIDE DEF t, v
    <3>1. r = (CASE d = STUCK -> Stuck(s)
                 [] d # STUCK /\ ~IsDir(s, d) -> h
                 [] IsDir(s, d) /\ ~IsDir(s, i) -> <<s>>
                 [] IsDir(s, d) /\ IsDir(s, i) ->
                        (IF Len(y) > 1 /\ Unnamed(p) THEN <<x>> ELSE y))
      BY Zenon DEF tryRemoveDirectoryOne
    <3> HIDE DEF y, x, h, d, i, r
    <3> QED BY <3>1
  <2> HIDE DEF y, t, v, x, h, r, g, i, d
  <2> QED BY <2>1, <2>2
<1>2. ASSUME IsDir(s, i), g.core.ref[i] = 1 PROVE Trail(s, t, exact) /\ RefsKept(s, Last(t))
  <2>1. Removed(g, s1, s2, s3, d, i, n)
    BY DEF Removed
  <2>2. i \in Inos /\ s.core.inode[i].kind = "dir"
    BY <1>2 DEF IsDir
  <2>3. g = iget(iget(s, d), i) /\ g.core.ref[i] = 1
    BY <1>2
  <2> HIDE DEF g, s1, s2, s3, i, d, n
  <2> QED BY <2>1, <2>2, <2>3, RemovedTrail
<1>3. Trail(s, v, exact) /\ RefsKept(s, Last(v))
  BY ReleasedTrail
<1>4. Trail(s, h, exact) /\ RefsKept(s, Last(h))
  BY IgetTrail
<1>5. Trail(s, <<x>>, exact) /\ RefsKept(s, Last(<<x>>))
  BY ParentTrail
<1> HIDE DEF r, t, v, x, h
<1>6. Trail(s, r, exact) /\ RefsKept(s, Last(r))
  BY <1>1, <1>2, <1>3, <1>4, <1>5, StuckTrail, NothingTrail
<1> QED BY <1>6 DEF r

LEMMA SymlinkOneTrail ==
    ASSUME NEW b, NEW s, NEW c, NEW p, NEW q, NEW exact \in BOOLEAN, Passing(b, s, exact)
    PROVE  /\ Trail(b, symlinkOne(s, c, p, q), exact)
           /\ RefsKept(s, Last(symlinkOne(s, c, p, q)))
<1> DEFINE od == getino(s, c, Parent(p))
           i == search(s, od, Base(p))
           g == iget(iget(s, od), i)
           created == tryCreateOne(g, c, q)
           t == Last(created)
           n == getino(t, c, q)
           linked == iget(t, n)
           r == symlinkOne(s, c, p, q)
<1>1. r \in {Stuck(s), <<s>>} \/
      r \in {created, created \o <<iput(linked, n), iput3(linked, n, i, od)>>, <<iput(t, od)>>}
  BY DEF symlinkOne
<1>2. Like(s, g)
  BY IgetTwice DEF Passing
<1>3. g = iget(iget(s, od), i)
  OBVIOUS
<1> HIDE DEF g
<1>4. Passing(b, g, exact)
  BY <1>2, LikePasses
<1>5. Trail(b, created, exact) /\ RefsKept(g, Last(created))
  BY <1>4, TryCreateOneTrail
<1>6. t = Last(created) /\ linked = iget(t, n)
  OBVIOUS
<1> HIDE DEF created, t, n, linked, r, od, i
<1>7. CASE r \in {Stuck(s), <<s>>}
  BY <1>7, StuckTrail, NothingTrail DEF r
<1>8. CASE r \in {created, created \o <<iput(linked, n), iput3(linked, n, i, od)>>, <<iput(t, od)>>}
  <2>1. Trail(b, r, exact) /\ RefsKept(s, Last(r))
    BY <1>3, <1>5, <1>6, <1>8, SymlinkedTrail
  <2> QED BY <2>1 DEF r
<1> QED BY <1>1, <1>7, <1>8

-------------------------------------------------------------------------------
\* The ends of a command.

Causes == {"full", "rmdir of a parent"}

\* A command has gone on to the state s.
GoneOn(s, pr, run) ==
    disk' = s.disk /\ core' = s.core /\ proc' = pr /\ running' = run /\ up' = up /\ image' = image

LEMMA FinishCases ==
    ASSUME NEW s, NEW pr, NEW run, NEW command, Fit(s), Finish(s, pr, run, command)
    PROVE  \/ CrashAt(s, command)
           \/ \E cause \in Causes : GiveUp(cause)
           \/ ~(Cwds \subseteq s.disk.imap) /\ GiveUp("rmdir of a cwd")
           \/ s.up = "up" /\ GoneOn(s, pr, run)
<1>1. s.up \in {"up", "stuck", "full", "rmdir of a parent"}
  BY Zenon DEF Fit, Outcomes
<1>2. CASE s.up = "stuck"
  <2>1. CrashAt(s, command)
    BY <1>2, Zenon DEF Finish
  <2> QED BY <2>1
<1>3. CASE s.up \in Causes
  <2>1. GiveUp(s.up)
    BY <1>3, Zenon DEF Finish, Causes
  <2> QED BY <1>3, <2>1
<1>4. CASE s.up = "up" /\ CwdRemoved(s)
  <2>1. GiveUp(IF Cwds \subseteq s.disk.imap THEN "rmdir of a parent" ELSE "rmdir of a cwd")
    BY <1>4, Zenon DEF Finish
  <2>2. "rmdir of a parent" \in Causes
    BY Zenon DEF Causes
  <2> QED BY <2>1, <2>2, Zenon
<1>5. CASE s.up = "up" /\ ~CwdRemoved(s)
  <2>1. GoneOn(s, pr, run)
    BY <1>5, Zenon DEF Finish, GoneOn
  <2> QED BY <1>5, <2>1
<1> QED BY <1>1, <1>2, <1>3, <1>4, <1>5, Zenon DEF Causes

-------------------------------------------------------------------------------
\* The invariants.

\* The memory of a program that runs fits the device.
DeviceFits ==
    /\ DiskFit(disk)
    /\ up = "up" => CoreFit(core, disk.imap)

\* With it, that the counts agree is inductive for FileSystem.
CountInv == DeviceFits /\ CountersAgree

\* The processes of level-1: one, which stands in c.
Alone(c) == [NoProc EXCEPT ![0] = [status |-> "READY", gid |-> 0, cwd |-> c]]

\* Root and the cwd c are directories and are held.
Held(s, c) ==
    /\ s.core.inode[ROOT].kind = "dir" /\ s.core.inode[c].kind = "dir"
    /\ \A i \in Inos : s.core.ref[i] >= Ref(c, i) + Ref(ROOT, i)

\* For LevelOne that is inductive.
HeldInv ==
    /\ DeviceFits
    /\ disk.inode[ROOT].kind = "dir"
    /\ image # "rmdir of a cwd"
    /\ up = "up" => running = 0 /\ \E c \in Inos : proc = Alone(c) /\ Held(Now, c)

-------------------------------------------------------------------------------
\* Every step of FileSystem and LevelOne keeps what they have in common.

LEMMA FreshDiskFits ==
    /\ DiskFit(FreshDisk) /\ FreshDisk.inode[ROOT].kind = "dir" /\ CountRight(FreshDisk)
<1>1. DiskFit(FreshDisk) /\ FreshDisk.inode[ROOT].kind = "dir"
  BY InosFinite DEF DiskFit, FreshDisk, Taken, Directory, NoInode
<1>2. FreshDisk.imap = {ROOT} /\ FreshDisk.inodes = NINODES - ROOT
  BY DEF FreshDisk
<1>3. Inos \ {ROOT} = (ROOT + 1) .. NINODES
  BY FileSystemAssumption DEF Inos, ROOT
<1>4. ROOT + 1 \in Int /\ NINODES \in Int /\ ~(ROOT + 1 > NINODES)
  BY FileSystemAssumption DEF ROOT
<1>5. Cardinality((ROOT + 1) .. NINODES) = NINODES - (ROOT + 1) + 1
  BY <1>4, FS_Interval
<1>6. NINODES - (ROOT + 1) + 1 = NINODES - ROOT
  BY <1>4 DEF ROOT
<1> QED BY <1>1, <1>2, <1>3, <1>5, <1>6 DEF CountRight

LEMMA NowPasses ==
    ASSUME DeviceFits, up = "up", NEW exact \in BOOLEAN
    PROVE  /\ Fit(Now) /\ Passing(Now, Now, exact)
           /\ Now.disk = disk /\ Now.core = core /\ Now.up = "up"
<1>1. Now.disk = disk /\ Now.core = core /\ Now.up = "up" /\ DOMAIN Now = {"disk", "core", "up"}
  BY DEF Now
<1>2. "up" \in Outcomes
  BY Zenon DEF Outcomes
<1>3. Fit(Now)
  BY <1>1, <1>2 DEF Fit, DeviceFits
<1>4. Keeps(Now, Now) /\ CountKept(Now, Now)
  BY DEF Keeps, Stays, CountKept
<1> QED BY <1>1, <1>3, <1>4 DEF Passing

\* The ends of the program.
LEMMA CrashFits ==
    ASSUME NEW s, NEW command, Fit(s), CrashAt(s, command)
    PROVE  DeviceFits'
<1>1. disk' = s.disk /\ up' = "down"
  BY DEF CrashAt
<1>2. DiskFit(disk')
  BY <1>1 DEF Fit
<1> QED BY <1>1, <1>2 DEF DeviceFits

LEMMA GiveUpFits ==
    ASSUME NEW cause, GiveUp(cause)
    PROVE  DeviceFits' /\ disk' = FreshDisk /\ up' = "lost" /\ image' = cause
<1>1. disk' = FreshDisk /\ up' = "lost" /\ image' = cause
  BY DEF GiveUp
<1>2. DiskFit(disk')
  BY <1>1, FreshDiskFits
<1> QED BY <1>1, <1>2 DEF DeviceFits

LEMMA GoneOnFits ==
    ASSUME NEW s, NEW pr, NEW run, Fit(s), GoneOn(s, pr, run)
    PROVE  DeviceFits'
<1>1. disk' = s.disk /\ core' = s.core
  BY DEF GoneOn
<1> QED BY <1>1 DEF DeviceFits, Fit

LEMMA FinishFits ==
    ASSUME NEW s, NEW pr, NEW run, NEW command, Fit(s), Finish(s, pr, run, command)
    PROVE  DeviceFits'
<1>1. \/ CrashAt(s, command)
      \/ \E cause \in Causes : GiveUp(cause)
      \/ ~(Cwds \subseteq s.disk.imap) /\ GiveUp("rmdir of a cwd")
      \/ s.up = "up" /\ GoneOn(s, pr, run)
  BY FinishCases
<1> DEFINE w == "rmdir of a cwd"
<1>2. CrashAt(s, command) \/ (\E cause \in Causes : GiveUp(cause)) \/ GiveUp(w) \/ GoneOn(s, pr, run)
  BY <1>1, Zenon
<1> HIDE DEF w
<1> QED BY <1>2, CrashFits, GiveUpFits, GoneOnFits

\* main of either: the memory is filled from the device.
Booted ==
    /\ core' = [inode |-> disk.inode, ref |-> [i \in Inos |-> IF i = ROOT THEN 2 ELSE 0],
                inodes |-> disk.inodes]
    /\ up' = "up"
    /\ disk' = disk

LEMMA BootedFits ==
    ASSUME DeviceFits, Booted
    PROVE  DeviceFits'
<1>1. CoreFit(core', disk'.imap)
  BY DEF DeviceFits, Booted, CoreFit, DiskFit
<1>2. DiskFit(disk')
  BY DEF DeviceFits, Booted
<1> QED BY <1>1, <1>2 DEF DeviceFits

\* quit of either.
HasQuit ==
    /\ up' = "down"
    /\ disk'.imap = disk.imap /\ DOMAIN disk' = DOMAIN disk
    /\ disk'.inode = [i \in Inos |-> IF core.ref[i] > 0 THEN core.inode[i] ELSE disk.inode[i]]

LEMMA QuitFits ==
    ASSUME DeviceFits, up = "up", HasQuit
    PROVE  DeviceFits'
<1>1. Taken(disk'.inode, disk'.imap)
  BY DEF DeviceFits, HasQuit, DiskFit, CoreFit, Taken
<1>2. DiskFit(disk')
  BY <1>1 DEF DeviceFits, HasQuit, DiskFit
<1> QED BY <1>2 DEF DeviceFits, HasQuit

-------------------------------------------------------------------------------
\* The count of free inodes.

Counting == image = "sound" => IF up = "down" THEN CountRight(disk) ELSE Counted(Now)

LEMMA CountingAgrees ==
    ASSUME DeviceFits
    PROVE  CountersAgree <=> Counting
<1> DEFINE d == [disk EXCEPT !.inodes = IF up = "down" THEN disk.inodes ELSE core.inodes]
<1>1. CountersAgree <=> (image = "sound" => CountRight(d))
  BY DEF CountersAgree
<1>2. d.imap = disk.imap /\ d.inodes = IF up = "down" THEN disk.inodes ELSE core.inodes
  BY DEF DeviceFits, DiskFit
<1> HIDE DEF d
<1>3. CountRight(d) <=> IF up = "down" THEN CountRight(disk) ELSE Counted(Now)
  BY <1>2 DEF CountRight, Counted, Now
<1> QED BY <1>1, <1>3 DEF Counting

LEMMA CountingAgreesPrimed ==
    ASSUME DeviceFits'
    PROVE  CountersAgree' <=> Counting'
<1> DEFINE d == [disk' EXCEPT !.inodes = IF up' = "down" THEN disk'.inodes ELSE core'.inodes]
<1>1. CountersAgree' <=> (image' = "sound" => CountRight(d))
  BY DEF CountersAgree, CountRight
<1>2. d.imap = disk'.imap /\ d.inodes = IF up' = "down" THEN disk'.inodes ELSE core'.inodes
  BY DEF DeviceFits, DiskFit
<1> HIDE DEF d
<1>3. CountRight(d) <=> IF up' = "down" THEN CountRight(disk') ELSE Counted(Now)'
  BY <1>2 DEF CountRight, Counted, Now
<1> QED BY <1>1, <1>3 DEF Counting, CountRight

LEMMA CrashCounts ==
    ASSUME NEW s, NEW command, command # "sound", Fit(s), CrashAt(s, command),
           image = "sound" => Counted(Now), up = "up"
    PROVE  Counting'
<1>1. disk' = s.disk /\ up' = "down"
  BY DEF CrashAt
<1>2. image' = IF ~Sound(s.disk) \/ Misread(s) THEN command
               ELSE IF ~CountRight(s.disk) \/ ~LinksEnough(s.disk) THEN "miscounted" ELSE image
  BY Zenon DEF CrashAt
<1>3. image' = "sound" => CountRight(s.disk)
  BY <1>2
<1> QED BY <1>1, <1>3 DEF Counting, CountRight

LEMMA GiveUpCounts ==
    ASSUME NEW cause, cause # "sound", GiveUp(cause)
    PROVE  Counting'
BY DEF GiveUp, Counting

LEMMA FinishCounts ==
    ASSUME DeviceFits, Counting, up = "up", NEW s, NEW pr, NEW run, NEW command, command # "sound",
           NEW exact \in BOOLEAN, exact, Passing(Now, s, exact), Finish(s, pr, run, command)
    PROVE  CountInv'
<1>1. Fit(s) /\ (Counted(Now) => Counted(s))
  BY DEF Passing, CountKept
<1>2. image = "sound" => Counted(Now)
  BY DEF Counting
<1>3. \/ CrashAt(s, command)
      \/ \E cause \in Causes : GiveUp(cause)
      \/ ~(Cwds \subseteq s.disk.imap) /\ GiveUp("rmdir of a cwd")
      \/ s.up = "up" /\ GoneOn(s, pr, run)
  BY <1>1, FinishCases
<1> DEFINE w == "rmdir of a cwd"
<1>4. w # "sound" /\ "sound" \notin Causes
  BY Zenon DEF Causes
<1>5. CrashAt(s, command) \/ (\E cause \in Causes : GiveUp(cause)) \/ GiveUp(w) \/ GoneOn(s, pr, run)
  BY <1>3, Zenon
<1> HIDE DEF w
<1>6. CASE CrashAt(s, command)
  BY <1>1, <1>2, <1>6, CrashCounts, CrashFits, CountingAgreesPrimed DEF CountInv
<1>7. ASSUME NEW cause, cause # "sound", GiveUp(cause) PROVE CountInv'
  BY <1>7, GiveUpCounts, GiveUpFits, CountingAgreesPrimed DEF CountInv
<1>8. CASE GoneOn(s, pr, run)
  <2>1. DeviceFits'
    BY <1>1, <1>8, GoneOnFits
  <2>2. disk' = s.disk /\ core' = s.core /\ image' = image /\ up' = "up"
    BY <1>8 DEF GoneOn
  <2>3. Counting'
    BY <1>1, <1>2, <2>2 DEF Counting, Counted, Now
  <2> QED BY <2>1, <2>3, CountingAgreesPrimed DEF CountInv
<1> QED BY <1>4, <1>5, <1>6, <1>7, <1>8

LEMMA CommandCounts ==
    ASSUME DeviceFits, Counting, NEW states, NEW command, command # "sound",
           NEW exact \in BOOLEAN, exact, up = "up" => Trail(Now, states, exact),
           Command(states, command)
    PROVE  CountInv'
<1>1. up = "up"
  BY DEF Command
<1>2. Passing(Now, Last(states), exact) /\ \A k \in DOMAIN states : Passing(Now, states[k], exact)
  BY <1>1, TrailLast
<1>3. CASE Finish(Last(states), proc, running, command)
  BY <1>1, <1>2, <1>3, FinishCounts
<1>4. ASSUME NEW k \in DOMAIN states, CrashAt(states[k], command) PROVE CountInv'
  <2> DEFINE s == states[k]
  <2>1. Fit(s)
    BY <1>2 DEF Passing
  <2>2. CrashAt(s, command)
    BY <1>4
  <2> HIDE DEF s
  <2>3. image = "sound" => Counted(Now)
    BY <1>1 DEF Counting
  <2> QED BY <1>1, <2>1, <2>2, <2>3, CrashCounts, CrashFits, CountingAgreesPrimed DEF CountInv
<1> QED BY <1>3, <1>4 DEF Command

-------------------------------------------------------------------------------
\* A removal is a command like the others, or takes the wrong record.
LEMMA RemovalCases ==
    ASSUME NEW states, NEW p, NEW command, Removal(states, p, command)
    PROVE  /\ up = "up"
           /\ Command(states, command) \/ GiveUp("wrong record")
BY Zenon DEF Removal, Command

-------------------------------------------------------------------------------
\* FileSystem: the count of free inodes.

LEMMA CommandsCount ==
    ASSUME DeviceFits, Counting, NEW p, NEW q,
           \/ Mkdir(p) \/ Creat(p) \/ Rmdir(p) \/ Unlink(p) \/ Link(p, q) \/ Symlink(p, q)
    PROVE  CountInv'
<1>1. up = "up"
  BY RemovalCases, Zenon DEF Mkdir, Creat, Rmdir, Unlink, Link, Symlink, Command
<1>2. PICK exact \in BOOLEAN : exact
  OBVIOUS
<1>3. Passing(Now, Now, exact)
  BY <1>1, NowPasses
<1>4. ASSUME NEW states, NEW command, command # "sound", Trail(Now, states, exact),
             Command(states, command)
      PROVE  CountInv'
  BY <1>2, <1>4, CommandCounts
<1>5. CASE Mkdir(p)
  BY <1>3, <1>4, <1>5, TryMakeDirectoryTrail DEF Mkdir
<1>6. CASE Creat(p)
  BY <1>3, <1>4, <1>6, TryCreateTrail DEF Creat
<1>11. ASSUME NEW states, NEW command, command # "sound", Trail(Now, states, exact),
              Removal(states, p, command)
       PROVE  CountInv'
  <2> DEFINE w == "wrong record"
  <2>1. Command(states, command) \/ (w # "sound" /\ GiveUp(w))
    BY <1>11, RemovalCases, Zenon
  <2> HIDE DEF w
  <2>2. CASE w # "sound" /\ GiveUp(w)
    BY <2>2, GiveUpCounts, GiveUpFits, CountingAgreesPrimed DEF CountInv
  <2> QED BY <1>4, <1>11, <2>1, <2>2
<1>7. CASE Rmdir(p)
  BY <1>3, <1>7, <1>11, TryRemoveDirectoryTrail DEF Rmdir
<1>8. CASE Unlink(p)
  BY <1>3, <1>8, <1>11, TryUnlinkTrail DEF Unlink
<1>9. CASE Link(p, q)
  BY <1>3, <1>4, <1>9, TryLinkTrail DEF Link
<1>10. CASE Symlink(p, q)
  BY <1>3, <1>4, <1>10, SymlinkTrail DEF Symlink
<1> QED BY <1>5, <1>6, <1>7, <1>8, <1>9, <1>10

\* What iput leaves of what iget has made.
LEMMA ChdirPasses ==
    ASSUME NEW s, NEW i, NEW c, NEW exact \in BOOLEAN, Passing(s, s, exact)
    PROVE  /\ Passing(s, iput(iget(s, i), c), exact) /\ Like(s, iput(iget(s, i), c))
           /\ \A j \in Inos : iput(iget(s, i), c).core.ref[j] = s.core.ref[j] + Ref(i, j) - Ref(c, j)
<1> DEFINE g == iget(s, i)
           h == iput(g, c)
<1>1. Like(s, g) /\ \A j \in Inos : g.core.ref[j] = s.core.ref[j] + Ref(i, j)
  BY IgetKeeps DEF Passing, Like
<1>2. Passing(s, g, exact)
  BY <1>1, LikePasses
<1> HIDE DEF g
<1>3. Like(g, h) /\ \A j \in Inos : h.core.ref[j] = g.core.ref[j] - Ref(c, j)
  BY <1>2, IputKeeps DEF Passing, Like
<1>4. Passing(s, h, exact)
  BY <1>2, <1>3, LikePasses
<1> HIDE DEF h
<1>5. Like(s, h)
  BY <1>1, <1>3, LikeOn
<1>6. \A j \in Inos : s.core.ref[j] \in Int
  BY RefsTyped DEF Passing
<1>7. \A j \in Inos : h.core.ref[j] = s.core.ref[j] + Ref(i, j) - Ref(c, j)
  BY <1>1, <1>3, <1>6, RefType
<1> QED BY <1>4, <1>5, <1>7 DEF h, g

LEMMA ChdirCounts ==
    ASSUME DeviceFits, Counting, NEW p, Chdir(p)
    PROVE  CountInv'
<1> DEFINE i == getino(Now, Cwd, p)
           x == iput(iget(Now, i), Cwd)
           l == Last(Stuck(Now))
           pr == [proc EXCEPT ![running].cwd = i]
           word == "chdir"
<1>1. up = "up"
  BY DEF Chdir
<1>2. PICK exact \in BOOLEAN : exact
  OBVIOUS
<1>3. Passing(Now, Now, exact) /\ Passing(Now, x, exact) /\ Passing(Now, l, exact)
  BY <1>1, NowPasses, ChdirPasses, StuckTrail
<1>4. \/ Finish(x, pr, running, word)
      \/ Finish(l, proc, running, word)
      \/ Finish(Now, proc, running, word)
  BY Zenon DEF Chdir
<1>5. word # "sound"
  OBVIOUS
<1> HIDE DEF i, x, l, pr, word
<1> QED BY <1>1, <1>2, <1>3, <1>4, <1>5, FinishCounts

LEMMA BootCounts ==
    ASSUME DeviceFits, Counting, Boot
    PROVE  CountInv'
<1>1. Booted /\ up = "down" /\ image' = image
  BY DEF Boot, Booted
<1>2. DeviceFits'
  BY <1>1, BootedFits
<1>3. Counting'
  BY <1>1 DEF Counting, CountRight, Counted, Now, Booted
<1> QED BY <1>2, <1>3, CountingAgreesPrimed DEF CountInv

LEMMA QuitCounts ==
    ASSUME DeviceFits, Counting, Quit
    PROVE  CountInv'
<1>1. up = "up" /\ up' = "down" /\ image' = image
  BY DEF Quit
<1>2. HasQuit /\ disk'.inodes = core.inodes
  BY DEF Quit, HasQuit, DeviceFits, DiskFit
<1>3. DeviceFits'
  BY <1>1, <1>2, QuitFits
<1>4. Counting'
  BY <1>1, <1>2 DEF Counting, CountRight, Counted, Now, HasQuit
<1> QED BY <1>3, <1>4, CountingAgreesPrimed DEF CountInv

\* The ends of the program, and a new image.
LEMMA EndCounts ==
    ASSUME DeviceFits, Counting, Crash \/ Retarget \/ Restore
    PROVE  CountInv'
<1>1. CASE Crash
  <2>1. PICK exact \in BOOLEAN : exact
    OBVIOUS
  <2>2. up = "up" /\ CrashAt(Now, "idle")
    BY <1>1 DEF Crash
  <2>3. Fit(Now)
    BY <2>1, <2>2, NowPasses
  <2>4. image = "sound" => Counted(Now)
    BY <2>2 DEF Counting
  <2>5. "idle" # "sound"
    OBVIOUS
  <2> QED BY <2>2, <2>3, <2>4, <2>5, CrashFits, CrashCounts, CountingAgreesPrimed DEF CountInv
<1>2. CASE Retarget
  <2>1. GiveUp("retarget") /\ "retarget" # "sound"
    BY <1>2 DEF Retarget
  <2> QED BY <2>1, GiveUpFits, GiveUpCounts, CountingAgreesPrimed DEF CountInv
<1>3. CASE Restore
  <2>1. disk' = FreshDisk /\ up' = "down"
    BY <1>3 DEF Restore
  <2>2. DeviceFits'
    BY <2>1, FreshDiskFits DEF DeviceFits
  <2>3. Counting'
    BY <2>1, FreshDiskFits DEF Counting, CountRight
  <2> QED BY <2>2, <2>3, CountingAgreesPrimed DEF CountInv
<1> QED BY <1>1, <1>2, <1>3

LEMMA CountInvInit == Init => CountInv
<1> SUFFICES ASSUME Init PROVE CountInv
  OBVIOUS
<1>1. disk = FreshDisk /\ up = "down"
  BY DEF Init
<1>2. DeviceFits
  BY <1>1, FreshDiskFits DEF DeviceFits
<1>3. Counting
  BY <1>1, FreshDiskFits DEF Counting
<1> QED BY <1>2, <1>3, CountingAgrees DEF CountInv

LEMMA CountInvSame ==
    ASSUME CountInv, UNCHANGED <<disk, core, up, image>>
    PROVE  CountInv'
<1>1. DeviceFits'
  BY DEF CountInv, DeviceFits
<1>2. CountersAgree'
  BY DEF CountInv, CountersAgree, CountRight
<1> QED BY <1>1, <1>2 DEF CountInv

LEMMA CountInvStep == CountInv /\ [Next]_vars => CountInv'
<1> SUFFICES ASSUME CountInv, [Next]_vars PROVE CountInv'
  OBVIOUS
<1>1. DeviceFits /\ Counting
  BY CountingAgrees DEF CountInv
<1>2. CASE Boot
  BY <1>1, <1>2, BootCounts
<1>3. CASE Quit
  BY <1>1, <1>3, QuitCounts
<1>4. CASE Crash \/ Retarget \/ Restore
  BY <1>1, <1>4, EndCounts
<1>5. ASSUME NEW p \in Paths, Mkdir(p) \/ Creat(p) \/ Rmdir(p) \/ Unlink(p)
      PROVE  CountInv'
  BY <1>1, <1>5, CommandsCount
<1>6. ASSUME NEW p \in Paths, NEW q \in Paths, Link(p, q) \/ Symlink(p, q)
      PROVE  CountInv'
  BY <1>1, <1>6, CommandsCount
<1>7. ASSUME NEW p \in Paths \cup {RootPath, UpPath}, Chdir(p)
      PROVE  CountInv'
  BY <1>1, <1>7, ChdirCounts
<1>8. ASSUME NEW p \in Procs,
             SwitchProcess(p) \/ KillProcess(p) \/ \E usertype \in Groups : CreateProcess(usertype, p)
      PROVE  CountInv'
  BY <1>8, CountInvSame DEF SwitchProcess, KillProcess, CreateProcess
<1>9. CASE UNCHANGED vars
  BY <1>9, CountInvSame DEF vars
<1> QED BY <1>2, <1>3, <1>4, <1>5, <1>6, <1>7, <1>8, <1>9 DEF Next

\* Until a crash loses what the memory knew, the number of free inodes that mkdir, creat,
\* symlink, unlink and rmdir count up and down in memory, and quit writes to the device,
\* is the number of clear bits of the inode bitmap, after any of the commands of level-3.
THEOREM CountersAgreeAlways == Spec => []CountersAgree
<1>1. CountInv => CountersAgree
  BY DEF CountInv
<1> QED BY <1>1, CountInvInit, CountInvStep, PTL DEF Spec

-------------------------------------------------------------------------------
\* LevelOne: the references to root and to the cwd.

\* The pointers of a single process.
LEMMA PointersAlone ==
    ASSUME NEW c \in Inos, NEW i \in Inos
    PROVE  Pointers(Alone(c), i) = Ref(c, i) + Ref(ROOT, i)
<1> DEFINE P == {p \in Procs : Alone(c)[p].status = "READY" /\ Alone(c)[p].cwd = i}
<1>1. 0 \in Procs /\ Procs \subseteq Int
  BY FileSystemAssumption DEF Procs
<1>2. /\ Alone(c)[0].status = "READY" /\ Alone(c)[0].cwd = c
      /\ \A p \in Procs \ {0} : Alone(c)[p].status = "FREE"
  BY <1>1 DEF Alone, NoProc
<1>3. P = IF c = i THEN {0} ELSE {}
  BY <1>1, <1>2
<1>4. Cardinality({0}) = 1 /\ Cardinality({}) = 0
  BY FS_EmptySet, FS_Singleton
<1>5. Cardinality(P) = Ref(c, i)
  BY <1>3, <1>4 DEF Ref
<1>6. Pointers(Alone(c), i) = Cardinality(P) + IF i = ROOT THEN 1 ELSE 0
  BY DEF Pointers
<1> HIDE DEF P
<1> QED BY <1>5, <1>6 DEF Ref

LEMMA CwdsAlone ==
    ASSUME NEW c \in Inos, proc = Alone(c), running = 0
    PROVE  Cwds = {c} /\ Cwd = c
<1>1. 0 \in Procs
  BY FileSystemAssumption DEF Procs
<1>2. /\ Alone(c)[0].status = "READY" /\ Alone(c)[0].cwd = c
      /\ \A p \in Procs \ {0} : Alone(c)[p].status = "FREE"
  BY <1>1 DEF Alone, NoProc
<1>3. {q \in Procs : proc[q].status = "READY"} = {0}
  BY <1>1, <1>2
<1> QED BY <1>2, <1>3 DEF Cwds, Cwd

\* cd leaves a single process a single process.
LEMMA AloneMoves ==
    ASSUME NEW c, NEW i
    PROVE  [Alone(c) EXCEPT ![0].cwd = i] = Alone(i)
<1> DEFINE at(k) == [status |-> "READY", gid |-> 0, cwd |-> k]
           a == Alone(c)
<1>1. 0 \in Procs
  BY FileSystemAssumption DEF Procs
<1>2. \A k : Alone(k) = [p \in Procs |-> IF p = 0 THEN at(k) ELSE NoProc[p]]
  BY <1>1 DEF Alone, NoProc
<1>3. a[0] = at(c)
  BY <1>1, <1>2
<1>4. [at(c) EXCEPT !.cwd = i] = at(i)
  OBVIOUS
<1> HIDE DEF at
<1>5. [a EXCEPT ![0].cwd = i] = [a EXCEPT ![0] = [a[0] EXCEPT !.cwd = i]]
  OBVIOUS
<1>6. [a EXCEPT ![0].cwd = i] = [a EXCEPT ![0] = at(i)]
  BY <1>3, <1>4, <1>5
<1>7. [a EXCEPT ![0] = at(i)] = Alone(i)
  BY <1>1, <1>2
<1> QED BY <1>6, <1>7

\* The program at c, about to run a command.
At(c) == DeviceFits /\ disk.inode[ROOT].kind = "dir" /\ image # "rmdir of a cwd"
         /\ up = "up" /\ running = 0 /\ proc = Alone(c) /\ Held(Now, c)

\* What a state of a command still has.
LEMMA StillHeld ==
    ASSUME NEW c \in Inos, At(c), NEW s, NEW exact \in BOOLEAN, Passing(Now, s, exact)
    PROVE  /\ Fit(s) /\ s.disk.inode[ROOT].kind = "dir" /\ Cwds \subseteq s.disk.imap
           /\ s.core.inode[ROOT].kind = "dir" /\ s.core.inode[c].kind = "dir"
<1>1. Now.core = core /\ Now.disk = disk /\ ROOT \in Inos
  BY InosFinite DEF Now
<1>2. Fit(Now)
  BY NowPasses DEF At
<1>3. \A i \in Inos : core.ref[i] \in Int
  BY <1>1, <1>2, RefsTyped
<1>4. core.ref[c] > 0 /\ core.ref[ROOT] > 0
  <2>1. \A i \in Inos : core.ref[i] >= Ref(c, i) + Ref(ROOT, i)
    BY <1>1 DEF At, Held
  <2>2. Ref(c, c) = 1 /\ Ref(ROOT, ROOT) = 1
    BY DEF Ref
  <2> QED BY <1>1, <1>3, <2>1, <2>2, RefType
<1>5. core.inode[ROOT].kind = "dir" /\ core.inode[c].kind = "dir" /\ disk.inode[ROOT].kind = "dir"
  BY <1>1 DEF At, Held
<1>6. Stays(Now, s, ROOT) /\ Stays(Now, s, c)
  BY <1>1 DEF Passing, Keeps
<1>7. /\ s.core.inode[ROOT].kind = "dir" /\ s.core.inode[c].kind = "dir"
      /\ s.disk.inode[ROOT].kind = "dir"
  BY <1>1, <1>4, <1>5, <1>6 DEF Stays
<1>8. c \in s.disk.imap
  BY <1>7 DEF Passing, Fit, CoreFit, Taken
<1>9. Cwds = {c}
  BY CwdsAlone DEF At
<1> QED BY <1>7, <1>8, <1>9 DEF Passing

LEMMA HeldOn ==
    ASSUME NEW c \in Inos, At(c), NEW s, NEW exact \in BOOLEAN, Passing(Now, s, exact),
           RefsKept(Now, s)
    PROVE  Held(s, c)
<1>1. Fit(s) /\ s.core.inode[ROOT].kind = "dir" /\ s.core.inode[c].kind = "dir"
  BY StillHeld
<1>2. \A j \in Inos : s.core.ref[j] \in Int
  BY <1>1, RefsTyped
<1>3. Fit(Now)
  BY NowPasses DEF At
<1>4. \A j \in Inos : Now.core.ref[j] \in Int /\ Now.core.ref[j] >= Ref(c, j) + Ref(ROOT, j)
  BY <1>3, RefsTyped DEF At, Held
<1>5. ASSUME NEW j \in Inos PROVE s.core.ref[j] >= Ref(c, j) + Ref(ROOT, j)
  <2>1. s.core.ref[j] >= Now.core.ref[j]
    BY DEF RefsKept
  <2> QED BY <1>2, <1>4, <2>1, RefType
<1> QED BY <1>1, <1>5 DEF Held

\* A command that is cut short by a crash.
LEMMA CrashHeld ==
    ASSUME NEW c \in Inos, At(c), NEW s, NEW exact \in BOOLEAN, Passing(Now, s, exact),
           NEW command, command # "rmdir of a cwd", CrashAt(s, command)
    PROVE  HeldInv'
<1> DEFINE w == "rmdir of a cwd"
           m == "miscounted"
<1>1. Fit(s) /\ s.disk.inode[ROOT].kind = "dir"
  BY StillHeld
<1>2. disk' = s.disk /\ up' = "down"
  BY DEF CrashAt
<1>3. image' \in {command, m, image}
  BY Zenon DEF CrashAt
<1>4. image # w /\ command # w
  BY Zenon DEF At
<1>5. m # w
  BY Zenon
<1>6. DeviceFits'
  BY <1>1, CrashFits
<1>7. up' # "up"
  BY <1>2
<1>8. disk'.inode[ROOT].kind = "dir"
  BY <1>1, <1>2
<1>9. image' # w
  <2> HIDE DEF w, m
  <2> QED BY <1>3, <1>4, <1>5
<1>10. image' # "rmdir of a cwd"
  BY <1>9, Zenon
<1> QED BY <1>6, <1>7, <1>8, <1>10, Zenon DEF HeldInv

\* A command that comes to its end, with the cwd i.
LEMMA GiveUpHeld ==
    ASSUME NEW cause, cause # "rmdir of a cwd", GiveUp(cause)
    PROVE  HeldInv'
<1>1. DeviceFits' /\ disk' = FreshDisk /\ up' = "lost" /\ image' = cause
  BY GiveUpFits
<1>2. disk'.inode[ROOT].kind = "dir"
  BY <1>1, FreshDiskFits
<1>3. image' # "rmdir of a cwd"
  BY <1>1, Zenon
<1>4. up' # "up"
  BY <1>1
<1> QED BY <1>1, <1>2, <1>3, <1>4, Zenon DEF HeldInv

LEMMA FinishHeld ==
    ASSUME NEW c \in Inos, At(c), NEW s, NEW exact \in BOOLEAN, Passing(Now, s, exact),
           NEW command, command # "rmdir of a cwd",
           NEW i \in Inos, Held(s, i), NEW pr, pr = Alone(i), Finish(s, pr, running, command)
    PROVE  HeldInv'
<1> DEFINE w == "rmdir of a cwd"
<1>1. Fit(s) /\ s.disk.inode[ROOT].kind = "dir" /\ Cwds \subseteq s.disk.imap
  BY StillHeld
<1>2. \/ CrashAt(s, command)
      \/ \E cause \in Causes : GiveUp(cause)
      \/ s.up = "up" /\ GoneOn(s, pr, running)
  BY <1>1, FinishCases, Zenon
<1>3. CASE CrashAt(s, command)
  BY <1>3, CrashHeld
<1>4. ASSUME NEW cause \in Causes, GiveUp(cause) PROVE HeldInv'
  <2>1. cause # "rmdir of a cwd"
    BY <1>4, Zenon DEF Causes
  <2> QED BY <1>4, <2>1, GiveUpHeld
<1>5. CASE s.up = "up" /\ GoneOn(s, pr, running)
  <2>1. DeviceFits'
    BY <1>1, <1>5, GoneOnFits
  <2>2. disk' = s.disk /\ core' = s.core /\ proc' = Alone(i) /\ running' = running /\ image' = image
    BY <1>5 DEF GoneOn
  <2>3. Held(Now, i)'
    BY <2>2 DEF Held, Now
  <2>4. image' # "rmdir of a cwd" /\ running' = 0
    BY <2>2, Zenon DEF At
  <2>5. disk'.inode[ROOT].kind = "dir"
    BY <1>1, <2>2
  <2>6. (running = 0 /\ \E k \in Inos : proc = Alone(k) /\ Held(Now, k))'
    BY <2>2, <2>3, <2>4
  <2> QED BY <2>1, <2>4, <2>5, <2>6, Zenon DEF HeldInv
<1> QED BY <1>2, <1>3, <1>4, <1>5

LEMMA CommandHeld ==
    ASSUME NEW c \in Inos, At(c), NEW states, NEW command, command # "rmdir of a cwd",
           NEW exact \in BOOLEAN, Trail(Now, states, exact), RefsKept(Now, Last(states)),
           Command(states, command)
    PROVE  HeldInv'
<1>1. Passing(Now, Last(states), exact) /\ \A k \in DOMAIN states : Passing(Now, states[k], exact)
  BY TrailLast
<1>2. CASE Finish(Last(states), proc, running, command)
  <2> DEFINE s == Last(states)
  <2>1. Passing(Now, s, exact) /\ RefsKept(Now, s) /\ Finish(s, proc, running, command)
    BY <1>1, <1>2
  <2> HIDE DEF s
  <2>2. Held(s, c)
    BY <2>1, HeldOn
  <2>3. proc = Alone(c)
    BY DEF At
  <2> QED BY <2>1, <2>2, <2>3, FinishHeld
<1>3. ASSUME NEW k \in DOMAIN states, CrashAt(states[k], command) PROVE HeldInv'
  <2> DEFINE s == states[k]
  <2>1. Passing(Now, s, exact) /\ CrashAt(s, command)
    BY <1>1, <1>3
  <2> HIDE DEF s
  <2> QED BY <2>1, CrashHeld
<1> QED BY <1>2, <1>3 DEF Command

LEMMA CommandsHeld ==
    ASSUME NEW c \in Inos, At(c), NEW p, NEW q,
           \/ MkdirOne(p) \/ CreatOne(p) \/ RmdirOne(p) \/ UnlinkOne(p)
           \/ LinkOne(p, q) \/ SymlinkOne(p, q)
    PROVE  HeldInv'
<1>1. PICK exact \in BOOLEAN : ~exact
  OBVIOUS
<1>2. Passing(Now, Now, exact)
  BY NowPasses DEF At
<1>3. ASSUME NEW states, NEW command, command # "rmdir of a cwd", Trail(Now, states, exact),
             RefsKept(Now, Last(states)), Command(states, command)
      PROVE  HeldInv'
  BY <1>3, CommandHeld
<1> DEFINE w == "rmdir of a cwd"
<1>4. w \notin {"mkdir", "creat", "rmdir", "unlink", "link", "symlink"}
  BY Zenon
<1> HIDE DEF w
<1>5. CASE MkdirOne(p)
  BY <1>2, <1>3, <1>4, <1>5, TryMakeDirectoryOneTrail DEF MkdirOne, w
<1>6. CASE CreatOne(p)
  BY <1>2, <1>3, <1>4, <1>6, TryCreateOneTrail DEF CreatOne, w
<1>11. ASSUME NEW states, NEW command, command # "rmdir of a cwd", Trail(Now, states, exact),
              RefsKept(Now, Last(states)), Removal(states, p, command)
       PROVE  HeldInv'
  <2> DEFINE v == "wrong record"
  <2>1. Command(states, command) \/ (v # "rmdir of a cwd" /\ GiveUp(v))
    BY <1>11, RemovalCases, Zenon
  <2> HIDE DEF v
  <2>2. CASE v # "rmdir of a cwd" /\ GiveUp(v)
    BY <2>2, GiveUpHeld
  <2> QED BY <1>3, <1>11, <2>1, <2>2
<1>7. CASE RmdirOne(p)
  BY <1>2, <1>4, <1>7, <1>11, TryRemoveDirectoryOneTrail DEF RmdirOne, w
<1>8. CASE UnlinkOne(p)
  BY <1>1, <1>2, <1>4, <1>8, <1>11, TryUnlinkOneTrail DEF UnlinkOne, w
<1>9. CASE LinkOne(p, q)
  BY <1>2, <1>3, <1>4, <1>9, TryLinkOneTrail DEF LinkOne, w
<1>10. CASE SymlinkOne(p, q)
  BY <1>2, <1>3, <1>4, <1>10, SymlinkOneTrail DEF SymlinkOne, w
<1> QED BY <1>5, <1>6, <1>7, <1>8, <1>9, <1>10

\* A path that leads to no directory leaves the cwd where it is, and the reference
\* behind; one that does changes it, and moves the reference.
LEMMA ChdirHeld ==
    ASSUME NEW c \in Inos, At(c), NEW p, ChdirOne(p)
    PROVE  HeldInv'
<1> DEFINE i == getino(Now, Cwd, p)
           g == iget(Now, i)
           x == iput(g, Cwd)
           l == Last(Stuck(Now))
           pr == [proc EXCEPT ![0].cwd = i]
           word == "chdir"
<1>1. PICK exact \in BOOLEAN : ~exact
  OBVIOUS
<1>2. Passing(Now, Now, exact) /\ Fit(Now)
  BY NowPasses DEF At
<1>3. Cwd = c /\ proc = Alone(c)
  BY CwdsAlone DEF At
<1>4. /\ Passing(Now, l, exact) /\ RefsKept(Now, l)
      /\ Passing(Now, g, exact) /\ \A j \in Inos : g.core.ref[j] = Now.core.ref[j] + Ref(i, j)
  BY <1>2, StuckTrail, IgetTrail, IgetKeeps
<1>5. /\ Passing(Now, x, exact) /\ Like(Now, x)
      /\ \A j \in Inos : x.core.ref[j] = Now.core.ref[j] + Ref(i, j) - Ref(c, j)
  BY <1>2, <1>3, ChdirPasses
<1>6. \/ Finish(l, proc, running, word)
      \/ Finish(g, proc, running, word)
      \/ IsDir(Now, i) /\ Finish(x, pr, running, word)
  BY Zenon DEF ChdirOne
<1>7. word # "rmdir of a cwd"
  BY Zenon
<1>8. IsDir(Now, i) => pr = Alone(i)
  BY <1>3, AloneMoves
<1>9. IsDir(Now, i) => i \in Inos /\ Now.core.inode[i].kind = "dir"
  BY DEF IsDir
<1> HIDE DEF i, g, x, l, pr, word
<1>10. \A j \in Inos : Now.core.ref[j] \in Int /\ Now.core.ref[j] >= Ref(c, j) + Ref(ROOT, j)
  BY <1>2, RefsTyped DEF At, Held
<1>11. ASSUME NEW s, Passing(Now, s, exact), RefsKept(Now, s), Finish(s, proc, running, word)
       PROVE  HeldInv'
  <2>1. Held(s, c)
    BY <1>11, HeldOn
  <2> QED BY <1>3, <1>7, <1>11, <2>1, FinishHeld
<1>12. CASE Finish(l, proc, running, word)
  BY <1>4, <1>11, <1>12
<1>13. CASE Finish(g, proc, running, word)
  <2>1. ASSUME NEW j \in Inos PROVE g.core.ref[j] >= Now.core.ref[j]
    BY <1>4, <1>10, RefType
  <2>2. RefsKept(Now, g)
    BY <2>1 DEF RefsKept
  <2> QED BY <1>4, <1>11, <1>13, <2>2
<1>14. CASE IsDir(Now, i) /\ Finish(x, pr, running, word)
  <2>1. i \in Inos /\ pr = Alone(i) /\ Now.core.inode[i].kind = "dir"
    BY <1>8, <1>9, <1>14
  <2>2. x.core.inode[i].kind = "dir"
    BY <1>5, <2>1 DEF Like, Kept
  <2>3. x.core.inode[ROOT].kind = "dir"
    BY <1>5, StillHeld
  <2>4. ASSUME NEW j \in Inos PROVE x.core.ref[j] >= Ref(i, j) + Ref(ROOT, j)
    BY <1>5, <1>10, RefType
  <2>5. Held(x, i)
    BY <2>2, <2>3, <2>4 DEF Held
  <2> QED BY <1>5, <1>7, <1>14, <2>1, <2>5, FinishHeld
<1> QED BY <1>6, <1>12, <1>13, <1>14

LEMMA BootHeld ==
    ASSUME HeldInv, BootOne
    PROVE  HeldInv'
<1>1. Booted /\ proc' = Alone(ROOT) /\ running' = 0 /\ image' = image
  BY DEF BootOne, Booted, Alone
<1>2. DeviceFits'
  BY <1>1, BootedFits DEF HeldInv
<1>3. ROOT \in Inos
  BY InosFinite
<1>4. disk'.inode[ROOT].kind = "dir" /\ core'.inode[ROOT].kind = "dir"
  BY <1>1 DEF HeldInv, Booted
<1>5. ASSUME NEW j \in Inos PROVE core'.ref[j] >= Ref(ROOT, j) + Ref(ROOT, j)
  BY <1>1 DEF Booted, Ref
<1>6. Held(Now, ROOT)'
  BY <1>4, <1>5 DEF Held, Now
<1>7. image' # "rmdir of a cwd"
  BY <1>1, Zenon DEF HeldInv
<1>8. (running = 0 /\ \E k \in Inos : proc = Alone(k) /\ Held(Now, k))'
  BY <1>1, <1>3, <1>6
<1> QED BY <1>2, <1>4, <1>7, <1>8, Zenon DEF HeldInv

LEMMA QuitHeld ==
    ASSUME HeldInv, QuitOne
    PROVE  HeldInv'
<1>1. up = "up" /\ up' = "down" /\ image' = image
  BY DEF QuitOne
<1>2. HasQuit
  BY DEF QuitOne, HasQuit, HeldInv, DeviceFits, DiskFit
<1>3. DeviceFits'
  BY <1>1, <1>2, QuitFits DEF HeldInv
<1>4. disk'.inode[ROOT].kind = "dir"
  <2>1. core.inode[ROOT].kind = "dir" /\ disk.inode[ROOT].kind = "dir" /\ ROOT \in Inos
    BY <1>1, InosFinite DEF HeldInv, Held, Now
  <2> QED BY <1>2, <2>1 DEF HasQuit
<1>5. image' # "rmdir of a cwd"
  BY <1>1, Zenon DEF HeldInv
<1>6. up' # "up"
  BY <1>1
<1> QED BY <1>3, <1>4, <1>5, <1>6, Zenon DEF HeldInv

\* What holds of a new image.
LEMMA FreshHeld ==
    ASSUME disk' = FreshDisk, up' = "down", image' = "sound"
    PROVE  HeldInv'
<1>1. DeviceFits' /\ disk'.inode[ROOT].kind = "dir" /\ up' # "up"
  BY FreshDiskFits DEF DeviceFits
<1>2. image' # "rmdir of a cwd"
  BY Zenon
<1> QED BY <1>1, <1>2, Zenon DEF HeldInv

LEMMA HeldInvInit == Init => HeldInv
<1> SUFFICES ASSUME Init PROVE HeldInv
  OBVIOUS
<1>1. disk = FreshDisk /\ up = "down" /\ image = "sound"
  BY DEF Init
<1>2. DeviceFits /\ disk.inode[ROOT].kind = "dir" /\ up # "up"
  BY <1>1, FreshDiskFits DEF DeviceFits
<1>3. image # "rmdir of a cwd"
  BY <1>1, Zenon
<1> QED BY <1>2, <1>3, Zenon DEF HeldInv

LEMMA HeldInvStep == HeldInv /\ [NextOne]_vars => HeldInv'
<1> SUFFICES ASSUME HeldInv, [NextOne]_vars PROVE HeldInv'
  OBVIOUS
<1>1. up = "up" => \E c \in Inos : At(c)
  BY Zenon DEF HeldInv, At
<1>2. CASE BootOne
  BY <1>2, BootHeld
<1>3. CASE QuitOne
  BY <1>3, QuitHeld
<1>4. CASE Crash
  <2>1. up = "up" /\ CrashAt(Now, "idle")
    BY <1>4 DEF Crash
  <2>2. PICK c \in Inos : At(c)
    BY <1>1, <2>1
  <2>3. PICK exact \in BOOLEAN : ~exact
    OBVIOUS
  <2>4. Passing(Now, Now, exact)
    BY <2>2, NowPasses DEF At
  <2>5. "idle" # "rmdir of a cwd"
    BY Zenon
  <2> QED BY <2>1, <2>2, <2>4, <2>5, CrashHeld
<1>5. CASE Mkdisk
  BY <1>5, FreshHeld DEF Mkdisk
<1>6. ASSUME NEW p \in Paths, MkdirOne(p) \/ CreatOne(p) \/ RmdirOne(p) \/ UnlinkOne(p)
      PROVE  HeldInv'
  <2>1. up = "up"
    BY <1>6, RemovalCases, Zenon DEF MkdirOne, CreatOne, RmdirOne, UnlinkOne, Command
  <2> QED BY <1>1, <1>6, <2>1, CommandsHeld
<1>7. ASSUME NEW p \in Paths, NEW q \in Paths, LinkOne(p, q) \/ SymlinkOne(p, q)
      PROVE  HeldInv'
  <2>1. up = "up"
    BY <1>7, Zenon DEF LinkOne, SymlinkOne, Command
  <2> QED BY <1>1, <1>7, <2>1, CommandsHeld
<1>8. ASSUME NEW p \in Paths \cup {RootPath, UpPath}, ChdirOne(p)
      PROVE  HeldInv'
  <2>1. up = "up"
    BY <1>8, Zenon DEF ChdirOne
  <2> QED BY <1>1, <1>8, <2>1, ChdirHeld
<1>9. CASE UNCHANGED vars
  BY <1>9 DEF vars, HeldInv, DeviceFits, Held, Now
<1> QED BY <1>2, <1>3, <1>4, <1>5, <1>6, <1>7, <1>8, <1>9 DEF NextOne

\* In level-1 root and the cwd hold a reference each whatever commands fail in between,
\* since no command releases more than it has taken, and rmdir, which takes no directory
\* whose reference count shows that somebody else holds it, removes no cwd.
THEOREM PointersHeldAlways == SpecOne => []PointersHeld
<1>1. HeldInv => PointersHeld
  <2> SUFFICES ASSUME HeldInv PROVE PointersHeld
    OBVIOUS
  <2>1. image # "rmdir of a cwd"
    BY Zenon DEF HeldInv
  <2>2. ASSUME up = "up", NEW i \in Inos PROVE core.ref[i] >= Pointers(proc, i)
    BY <2>2, PointersAlone DEF HeldInv, Held, Now
  <2> QED BY <2>1, <2>2, Zenon DEF PointersHeld
<1> QED BY <1>1, HeldInvInit, HeldInvStep, PTL DEF SpecOne
=============================================================================
