------------------------- MODULE FileSystemTreeProofs -------------------------
(***************************************************************************)
(* Proofs about the tree of directories of FileSystem and of LevelOne, for *)
(* any names and paths and any number of inodes and processes.             *)
(*                                                                         *)
(* The first part is about images: when one is sound (Leads, Linked and    *)
(* Treelike), and what becomes of that when a name is added (GainsName),   *)
(* taken from a file (FileDropped) or from a directory with the directory  *)
(* (DirDropped).  The second is about the paths that lead to those names   *)
(* (Routes), and shows that a name more or less (Renamed) is a step of     *)
(* NameTree (RenamedMoves).  The third is about the states within a        *)
(* command: one that a crash may follow is Crashable, and what the crash   *)
(* leaves is Left; one that the program can go on from is Settled.  The    *)
(* fourth shows of each command that it goes through states of the first   *)
(* kind and ends in one of the second (Goes).  The fifth is about the      *)
(* steps of FileSystem (NameInv and Steps) and of LevelOne, the last about *)
(* the path that pwd prints, which is a recursion over the tree.           *)
(***************************************************************************)
EXTENDS FileSystemProofs

-------------------------------------------------------------------------------
\* The tree of directories, in an image d.

\* What an INODE and a block look like: the entries are finitely many, lead to an inode,
\* and have names of their own.
Plain(n) == n \notin {Dot, DotDot}
Formed(x) ==
    /\ DOMAIN x = {"kind", "uid", "links", "block"}
    /\ x.kind \in {"none", "dir", "reg"} /\ x.links \in Int
Shaped(inode) == DOMAIN inode = Inos /\ \A i \in Inos : Formed(inode[i])
Listed(b) ==
    /\ DOMAIN b = {"dot", "up", "list"} /\ IsFiniteSet(b.list)
    /\ \A r \in b.list : r.ino # 0 /\ Plain(r.name)
Blocked(d) == d.bmap \subseteq Blocks /\ DOMAIN d.dir = Blocks /\ \A b \in Blocks : Listed(d.dir[b])
Proper(d) == d.imap \subseteq Inos /\ Taken(d.inode, d.imap) /\ Shaped(d.inode) /\ Blocked(d)

Entry(i, n, j) == [dir |-> i, name |-> n, ino |-> j]
UpOf(d, i) == d.dir[d.inode[i].block].up
ListOf(d, i) == d.dir[d.inode[i].block].list

\* Below i there is nothing that S leaves out.
Covers(d, S) == \A i \in S : \A e \in EntriesOf(d, i) : e.ino \in OpenDirs(d) => e.ino \in S

LEMMA EntryIs ==
    ASSUME NEW i, NEW n, NEW j
    PROVE  LET x == Entry(i, n, j) IN x = Entry(x.dir, x.name, x.ino) /\ x.dir = i /\ x.name = n /\ x.ino = j
BY DEF Entry

LEMMA EntriesOfIs ==
    ASSUME NEW d, NEW i
    PROVE  /\ \A e \in EntriesOf(d, i) : e = Entry(i, e.name, e.ino) /\ e.dir = i /\ e.ino # 0
           /\ \A r \in ListOf(d, i) : r.ino # 0 => Entry(i, r.name, r.ino) \in EntriesOf(d, i)
           /\ \A e \in EntriesOf(d, i) : \E r \in ListOf(d, i) :
                    r.ino # 0 /\ e = Entry(i, r.name, r.ino)
BY DEF EntriesOf, Entry, ListOf

LEMMA EntriesIs ==
    ASSUME NEW d
    PROVE  \A e : e \in Entries(d) <=> e.dir \in Dirs(d) /\ e \in EntriesOf(d, e.dir)
BY EntriesOfIs DEF Entries

LEMMA DirsOpen ==
    ASSUME NEW d
    PROVE  /\ Dirs(d) \subseteq OpenDirs(d)
           /\ ROOT \in OpenDirs(d) => ROOT \in Dirs(d)
           /\ Covers(d, Dirs(d))
<1> DEFINE open == OpenDirs(d)
           below == [i \in open |-> {e.ino : e \in EntriesOf(d, i)} \cap open]
           closed == {S \in SUBSET open : {ROOT} \cap open \subseteq S
                                          /\ \A i \in S : below[i] \subseteq S}
<1>1. Dirs(d) = {i \in open : \A S \in closed : i \in S}
  BY DEF Dirs
<1>2. ASSUME NEW S \in closed, NEW i \in S, NEW e \in EntriesOf(d, i), e.ino \in open
      PROVE  e.ino \in S
  <2>1. e.ino \in below[i]
    BY <1>2
  <2> QED BY <2>1
<1>3. ASSUME NEW i \in Dirs(d), NEW e \in EntriesOf(d, i), e.ino \in open
      PROVE  e.ino \in Dirs(d)
  <2> HIDE DEF closed
  <2> QED BY <1>1, <1>2, <1>3
<1>4. ROOT \in open => \A S \in closed : ROOT \in S
  OBVIOUS
<1>5. Dirs(d) \subseteq open /\ (ROOT \in open => ROOT \in Dirs(d))
  <2> HIDE DEF closed, open
  <2> QED BY <1>1, <1>4
<1> HIDE DEF closed, below
<1> QED BY <1>3, <1>5 DEF Covers

LEMMA DirsLeast ==
    ASSUME NEW d, NEW S, ROOT \in OpenDirs(d) => ROOT \in S, Covers(d, S)
    PROVE  Dirs(d) \subseteq S
<1> DEFINE open == OpenDirs(d)
           below == [i \in open |-> {e.ino : e \in EntriesOf(d, i)} \cap open]
           closed == {T \in SUBSET open : {ROOT} \cap open \subseteq T
                                          /\ \A i \in T : below[i] \subseteq T}
           R == S \cap open
<1>1. Dirs(d) = {i \in open : \A T \in closed : i \in T}
  BY DEF Dirs
<1>2. ASSUME NEW i \in R PROVE below[i] \subseteq R
  <2>1. below[i] = {e.ino : e \in EntriesOf(d, i)} \cap open
    OBVIOUS
  <2>2. ASSUME NEW j \in below[i] PROVE j \in R
    <3>1. PICK e \in EntriesOf(d, i) : j = e.ino
      BY <2>1, <2>2
    <3> QED BY <2>1, <2>2, <3>1 DEF Covers
  <2> QED BY <2>2
<1>3. R \in closed
  <2> HIDE DEF below
  <2> QED BY <1>2
<1> HIDE DEF closed, open
<1> QED BY <1>1, <1>3

\* Every directory that can be reached but the root has a name.
LEMMA DirsNamed ==
    ASSUME NEW d, NEW j \in Dirs(d), j # ROOT
    PROVE  \E e \in Entries(d) : e.ino = j
<1> SUFFICES ASSUME \A e \in Entries(d) : e.ino # j PROVE FALSE
  OBVIOUS
<1> DEFINE S == Dirs(d) \ {j}
<1>1. ROOT \in OpenDirs(d) => ROOT \in S
  BY DirsOpen
<1>2. ASSUME NEW i \in S, NEW e \in EntriesOf(d, i), e.ino \in OpenDirs(d) PROVE e.ino \in S
  <2>1. e.dir = i
    BY EntriesOfIs
  <2>2. e \in Entries(d)
    BY <2>1, EntriesIs
  <2>3. e.ino \in Dirs(d)
    BY <1>2, DirsOpen DEF Covers
  <2> QED BY <2>2, <2>3
<1>3. Dirs(d) \subseteq S
  <2> HIDE DEF S
  <2> QED BY <1>1, <1>2, DirsLeast DEF Covers
<1> QED BY <1>3

LEMMA ImageFinite ==
    ASSUME NEW S, IsFiniteSet(S), NEW f, NEW T, T = {f[x] : x \in S}
    PROVE  IsFiniteSet(T)
<1> DEFINE g == [x \in S |-> f[x]]
<1>1. g \in Surjection(S, T)
  <2>1. g \in [S -> T] /\ \A t \in T : \E x \in S : g[x] = t
    OBVIOUS
  <2> HIDE DEF g
  <2> QED BY <2>1 DEF Surjection
<1> HIDE DEF g
<1> QED BY <1>1, FS_Surjection

\* All sets are finite.
LEMMA EntriesFinite ==
    ASSUME NEW d, Proper(d)
    PROVE  /\ OpenDirs(d) \subseteq Inos /\ IsFiniteSet(Entries(d))
           /\ \A i \in OpenDirs(d) : IsFiniteSet(EntriesOf(d, i)) /\ d.inode[i].block \in Blocks
<1>1. OpenDirs(d) \subseteq Inos /\ \A i \in OpenDirs(d) : d.inode[i].block \in Blocks
  BY DEF OpenDirs, Allocated, Proper, Blocked
<1>2. ASSUME NEW i \in OpenDirs(d) PROVE IsFiniteSet(EntriesOf(d, i))
  <2> DEFINE L == {r \in ListOf(d, i) : r.ino # 0}
  <2>1. IsFiniteSet(ListOf(d, i))
    BY <1>1 DEF Proper, Blocked, Listed, ListOf
  <2>2. IsFiniteSet(L)
    BY <2>1, FS_Subset
  <2>3. EntriesOf(d, i) = {Entry(i, r.name, r.ino) : r \in L}
    BY DEF EntriesOf, Entry, ListOf
  <2> HIDE DEF L
  <2> DEFINE f == [r \in L |-> Entry(i, r.name, r.ino)]
  <2>4. EntriesOf(d, i) = {f[r] : r \in L}
    BY <2>3
  <2> HIDE DEF f
  <2> QED BY <2>2, <2>4, ImageFinite
<1>3. IsFiniteSet(Dirs(d))
  BY <1>1, InosFinite, DirsOpen, FS_Subset
<1> DEFINE g == [i \in Dirs(d) |-> EntriesOf(d, i)]
<1>4. Entries(d) = UNION {EntriesOf(d, i) : i \in Dirs(d)}
  BY DEF Entries
<1>5. IsFiniteSet({EntriesOf(d, i) : i \in Dirs(d)})
  <2>1. {EntriesOf(d, i) : i \in Dirs(d)} = {g[i] : i \in Dirs(d)}
    OBVIOUS
  <2> HIDE DEF g
  <2> QED BY <1>3, <2>1, ImageFinite
<1>6. \A E \in {EntriesOf(d, i) : i \in Dirs(d)} : IsFiniteSet(E)
  BY <1>2, DirsOpen
<1>7. IsFiniteSet(Entries(d))
  BY <1>4, <1>5, <1>6, FS_UNION
<1> QED BY <1>1, <1>2, <1>7

\* What makes an image sound, part by part.
Leads(d) == \A e \in Entries(d) : e.ino \in Files(d) \cup Dirs(d)
Linked(d) == \A i \in Files(d) : Cardinality(Named(Entries(d), i)) <= d.inode[i].links
RootOnTop(d) == ROOT \in Dirs(d) /\ UpOf(d, ROOT) = ROOT /\ \A e \in Entries(d) : e.ino # ROOT
Hangs(d, i) == \E e \in Entries(d) : Named(Entries(d), i) = {e} /\ UpOf(d, i) = e.dir
Distinct(d) == \A e, f \in Entries(d) : e.dir = f.dir /\ e.name = f.name => e = f
Treelike(d) == RootOnTop(d) /\ (\A i \in Dirs(d) \ {ROOT} : Hangs(d, i)) /\ Distinct(d)

LEMMA TreelikeIs ==
    ASSUME NEW d
    PROVE  TreeShape(d) <=> Treelike(d)
<1> DEFINE E == Entries(d)
<1>1. TreeShape(d) <=>
        /\ ROOT \in Dirs(d)
        /\ \A i \in Dirs(d) :
                IF i = ROOT THEN Named(E, i) = {} /\ UpOf(d, i) = ROOT
                ELSE \E e \in E : Named(E, i) = {e} /\ UpOf(d, i) = e.dir
        /\ Distinct(d)
  BY DEF TreeShape, UpOf, Distinct
<1>2. Named(E, ROOT) = {} <=> \A e \in E : e.ino # ROOT
  BY DEF Named
<1>3. \A i : Hangs(d, i) <=> \E e \in E : Named(E, i) = {e} /\ UpOf(d, i) = e.dir
  BY DEF Hangs
<1> HIDE DEF E
<1> QED BY <1>1, <1>2, <1>3 DEF Treelike, RootOnTop, E

LEMMA NamedFinite ==
    ASSUME NEW d, Proper(d), NEW i
    PROVE  /\ IsFiniteSet(Named(Entries(d), i)) /\ Cardinality(Named(Entries(d), i)) \in Nat
           /\ Files(d) \subseteq Inos /\ \A j \in Inos : d.inode[j].links \in Int
<1>1. IsFiniteSet(Entries(d))
  BY EntriesFinite
<1>2. Named(Entries(d), i) \subseteq Entries(d)
  BY DEF Named
<1>3. IsFiniteSet(Named(Entries(d), i))
  BY <1>1, <1>2, FS_Subset
<1>4. Files(d) \subseteq Inos /\ \A j \in Inos : d.inode[j].links \in Int
  BY DEF Files, Allocated, Proper, Shaped, Formed
<1> QED BY <1>3, <1>4, FS_CardinalityType

LEMMA ExcessIs ==
    ASSUME NEW d, NEW i \in Inos
    PROVE  Excess(d)[i] = IF i \in Files(d) THEN d.inode[i].links - Cardinality(Named(Entries(d), i)) ELSE 0
BY DEF Excess

LEMMA SoundIs ==
    ASSUME NEW d, Proper(d)
    PROVE  Sound(d) <=> Leads(d) /\ Linked(d) /\ Treelike(d)
<1>1. BadEntries(d) = {} <=> Leads(d)
  BY DEF BadEntries, Leads
<1>2. ASSUME NEW i \in Inos
      PROVE  Excess(d)[i] < 0 <=> i \in Files(d) /\ ~(Cardinality(Named(Entries(d), i)) <= d.inode[i].links)
  BY NamedFinite, ExcessIs
<1>3. ShortFiles(d) = {i \in Inos : Excess(d)[i] < 0}
  BY DEF ShortFiles
<1>4. Files(d) \subseteq Inos
  BY NamedFinite
<1>5. ShortFiles(d) = {} <=> Linked(d)
  BY <1>2, <1>3, <1>4 DEF Linked
<1> QED BY <1>1, <1>5, TreelikeIs DEF Sound

-------------------------------------------------------------------------------
\* How the tree of d changes into that of e.

\* The entries x of the directories of d are added.
Added(d, e, x) ==
    \A j \in OpenDirs(d) :
        /\ EntriesOf(e, j) = IF j = x.dir THEN EntriesOf(d, j) \cup {x} ELSE EntriesOf(d, j)
        /\ UpOf(e, j) = UpOf(d, j)

\* The directories have no fewer links.
NoFewer(d, e) == \A j \in OpenDirs(d) : e.inode[j].links >= d.inode[j].links

\* The name n that is not in the directory dd yet.
Fresh(d, x) == x.dir \in Dirs(d) /\ \A y \in EntriesOf(d, x.dir) : y.name # x.name

\* A file gets a name, its first or one more.
FileNamed(d, e, x) ==
    /\ OpenDirs(e) = OpenDirs(d) /\ x.ino \in Inos \ OpenDirs(d) /\ Added(d, e, x) /\ Fresh(d, x)
    /\ Files(e) = Files(d) \cup {x.ino}
    /\ \A j \in Files(d) \ {x.ino} : e.inode[j].links = d.inode[j].links
    /\ e.inode[x.ino].links = IF x.ino \in Files(d) THEN d.inode[x.ino].links + 1 ELSE 1
    /\ NoFewer(d, e)

\* What Added says of all entries.
LEMMA AddedEntries ==
    ASSUME NEW d, NEW e, NEW x, x = Entry(x.dir, x.name, x.ino), Added(d, e, x), x.dir \in Dirs(d),
           NEW D, D = Dirs(d) \/ (x.ino \notin OpenDirs(d) /\ D = Dirs(d) \cup {x.ino} /\ EntriesOf(e, x.ino) = {}),
           Dirs(e) = D
    PROVE  Entries(e) = Entries(d) \cup {x}
<1>1. \A y : y \in Entries(d) <=> y.dir \in Dirs(d) /\ y \in EntriesOf(d, y.dir)
  BY EntriesIs
<1>2. \A y : y \in Entries(e) <=> y.dir \in Dirs(e) /\ y \in EntriesOf(e, y.dir)
  BY EntriesIs
<1>3. Dirs(d) \subseteq OpenDirs(d)
  BY DirsOpen
<1>4. ASSUME NEW y PROVE y \in Entries(e) <=> y \in Entries(d) \cup {x}
  <2>1. CASE y.dir \in Dirs(d)
    <3>1. EntriesOf(e, y.dir) = IF y.dir = x.dir THEN EntriesOf(d, y.dir) \cup {x} ELSE EntriesOf(d, y.dir)
      BY <1>3, <2>1 DEF Added
    <3> QED BY <1>1, <1>2, <2>1, <3>1
  <2>2. CASE y.dir \notin Dirs(d)
    BY <1>1, <1>2, <2>2
  <2> QED BY <2>1, <2>2
<1> QED BY <1>4

\* Who is named by what is added.
LEMMA AddedNamed ==
    ASSUME NEW d, NEW e, NEW x, Proper(d), Entries(e) = Entries(d) \cup {x}, Fresh(d, x), NEW i
    PROVE  /\ i # x.ino => Named(Entries(e), i) = Named(Entries(d), i)
           /\ x \notin Entries(d)
           /\ Cardinality(Named(Entries(e), x.ino)) = Cardinality(Named(Entries(d), x.ino)) + 1
<1>1. i # x.ino => Named(Entries(e), i) = Named(Entries(d), i)
  BY DEF Named
<1>2. x \notin Entries(d)
  BY EntriesIs DEF Fresh
<1>3. Named(Entries(e), x.ino) = Named(Entries(d), x.ino) \cup {x} /\ x \notin Named(Entries(d), x.ino)
  BY <1>2 DEF Named
<1>4. IsFiniteSet(Named(Entries(d), x.ino))
  BY NamedFinite
<1> QED BY <1>1, <1>2, <1>3, <1>4, FS_AddElement

LEMMA AddedDistinct ==
    ASSUME NEW d, NEW e, NEW x, Entries(e) = Entries(d) \cup {x}, Fresh(d, x), Distinct(d)
    PROVE  Distinct(e)
<1>1. \A y \in Entries(d) : ~(y.dir = x.dir /\ y.name = x.name)
  BY EntriesIs DEF Fresh
<1> QED BY <1>1 DEF Distinct

LEMMA FileNamedDirs ==
    ASSUME NEW d, NEW e, NEW x, FileNamed(d, e, x)
    PROVE  Dirs(e) = Dirs(d)
<1>1. ASSUME NEW j \in Dirs(d), NEW y \in EntriesOf(e, j), y.ino \in OpenDirs(e) PROVE y.ino \in Dirs(d)
  <2>1. j \in OpenDirs(d) /\ y.ino # x.ino
    BY <1>1, DirsOpen DEF FileNamed
  <2>2. y \in EntriesOf(d, j)
    BY <2>1 DEF FileNamed, Added
  <2> QED BY <1>1, <2>2, DirsOpen DEF Covers, FileNamed
<1>2. ASSUME NEW j \in Dirs(e), NEW y \in EntriesOf(d, j), y.ino \in OpenDirs(d) PROVE y.ino \in Dirs(e)
  <2>1. j \in OpenDirs(d)
    BY DirsOpen DEF FileNamed
  <2>2. y \in EntriesOf(e, j)
    BY <2>1 DEF FileNamed, Added
  <2> QED BY <1>2, <2>2, DirsOpen DEF Covers, FileNamed
<1>3. Dirs(e) \subseteq Dirs(d)
  BY <1>1, DirsLeast, DirsOpen DEF Covers, FileNamed
<1>4. Dirs(d) \subseteq Dirs(e)
  BY <1>2, DirsLeast, DirsOpen DEF Covers, FileNamed
<1> QED BY <1>3, <1>4

LEMMA FileNamedSound ==
    ASSUME NEW d, NEW e, NEW x, x = Entry(x.dir, x.name, x.ino), Proper(d), Proper(e),
           FileNamed(d, e, x), Sound(d)
    PROVE  Sound(e) /\ Dirs(e) = Dirs(d) /\ Entries(e) = Entries(d) \cup {x}
<1>1. Leads(d) /\ Linked(d) /\ Treelike(d)
  BY SoundIs
<1>2. Dirs(e) = Dirs(d)
  BY FileNamedDirs
<1>3. Entries(e) = Entries(d) \cup {x}
  BY <1>2, AddedEntries DEF FileNamed, Fresh
<1>4. Leads(e)
  BY <1>1, <1>2, <1>3 DEF Leads, FileNamed
<1>5. \A i : /\ i # x.ino => Named(Entries(e), i) = Named(Entries(d), i)
             /\ x \notin Entries(d)
             /\ Cardinality(Named(Entries(e), x.ino)) = Cardinality(Named(Entries(d), x.ino)) + 1
  BY <1>3, AddedNamed DEF FileNamed
<1>6. ASSUME NEW i \in Files(e) PROVE Cardinality(Named(Entries(e), i)) <= e.inode[i].links
  <2>1. CASE i # x.ino
    BY <1>1, <1>5, <1>6, <2>1 DEF Linked, FileNamed
  <2>2. CASE i = x.ino /\ i \in Files(d)
    <3>1. Cardinality(Named(Entries(d), i)) <= d.inode[i].links
      BY <1>1, <2>2 DEF Linked
    <3>2. e.inode[i].links = d.inode[i].links + 1
      BY <2>2 DEF FileNamed
    <3>3. Cardinality(Named(Entries(d), i)) \in Nat /\ d.inode[i].links \in Int
      BY <2>2, NamedFinite
    <3> QED BY <1>5, <2>2, <3>1, <3>2, <3>3
  <2>3. CASE i = x.ino /\ i \notin Files(d)
    <3>1. \A y \in Entries(d) : y.ino # i
      BY <1>1, <2>3, DirsOpen DEF Leads, FileNamed
    <3>2. Named(Entries(d), i) = {}
      BY <3>1 DEF Named
    <3>3. Cardinality(Named(Entries(e), i)) = 1
      BY <1>5, <2>3, <3>2, FS_EmptySet
    <3> QED BY <2>3, <3>3 DEF FileNamed
  <2> QED BY <2>1, <2>2, <2>3
<1>7. ASSUME NEW i \in Dirs(e) \ {ROOT} PROVE Hangs(e, i)
  <2>1. i \in Dirs(d) \ {ROOT} /\ i \in OpenDirs(d) /\ i # x.ino
    BY <1>2, DirsOpen DEF FileNamed
  <2>2. PICK y \in Entries(d) : Named(Entries(d), i) = {y} /\ UpOf(d, i) = y.dir
    BY <1>1, <2>1 DEF Treelike, Hangs
  <2>3. UpOf(e, i) = UpOf(d, i)
    BY <2>1 DEF FileNamed, Added
  <2> QED BY <1>3, <1>5, <2>1, <2>2, <2>3 DEF Hangs
<1>8. RootOnTop(e)
  <2>1. ROOT \in OpenDirs(d)
    BY <1>1, DirsOpen DEF Treelike, RootOnTop
  <2> QED BY <1>1, <1>2, <1>3, <2>1 DEF Treelike, RootOnTop, FileNamed, Added
<1>9. Distinct(e)
  BY <1>1, <1>3, AddedDistinct DEF Treelike, FileNamed
<1>10. Sound(e)
  BY <1>4, <1>6, <1>7, <1>8, <1>9, SoundIs DEF Linked, Treelike
<1> QED BY <1>2, <1>3, <1>10

\* A new directory, with its name and its ".." .
DirNamed(d, e, x) ==
    /\ OpenDirs(e) = OpenDirs(d) \cup {x.ino} /\ x.ino \in Inos /\ x.ino \notin OpenDirs(d) \cup Files(d)
    /\ Added(d, e, x) /\ Fresh(d, x)
    /\ EntriesOf(e, x.ino) = {} /\ UpOf(e, x.ino) = x.dir
    /\ Files(e) = Files(d)
    /\ \A j \in Files(d) : e.inode[j].links = d.inode[j].links
    /\ NoFewer(d, e)
    /\ e.inode[x.dir].links >= d.inode[x.dir].links + 1 /\ e.inode[x.ino].links >= 2

LEMMA DirNamedDirs ==
    ASSUME NEW d, NEW e, NEW x, DirNamed(d, e, x), ROOT \in Dirs(d)
    PROVE  Dirs(e) = Dirs(d) \cup {x.ino}
<1> DEFINE S == Dirs(d) \cup {x.ino}
           T == Dirs(e) \ {x.ino}
<1>1. ASSUME NEW j \in S, NEW y \in EntriesOf(e, j), y.ino \in OpenDirs(e) PROVE y.ino \in S
  <2>1. SUFFICES ASSUME y.ino # x.ino PROVE y.ino \in Dirs(d)
    OBVIOUS
  <2>2. j \in Dirs(d) /\ j \in OpenDirs(d)
    BY <1>1, DirsOpen DEF DirNamed
  <2>3. y \in EntriesOf(d, j) /\ y.ino \in OpenDirs(d)
    BY <1>1, <2>1, <2>2 DEF DirNamed, Added
  <2> QED BY <2>2, <2>3, DirsOpen DEF Covers
<1>2. Dirs(e) \subseteq S
  <2>1. ROOT \in S
    OBVIOUS
  <2> HIDE DEF S
  <2> QED BY <1>1, <2>1, DirsLeast DEF Covers
<1>3. ASSUME NEW j \in T, NEW y \in EntriesOf(d, j), y.ino \in OpenDirs(d) PROVE y.ino \in T
  <2>1. j \in OpenDirs(d) /\ y.ino # x.ino /\ y.ino \in OpenDirs(e)
    BY <1>3, DirsOpen DEF DirNamed
  <2>2. y \in EntriesOf(e, j)
    BY <2>1 DEF DirNamed, Added
  <2> QED BY <2>1, <2>2, DirsOpen DEF Covers
<1>4. Dirs(d) \subseteq T
  <2>1. ROOT \in T
    BY DirsOpen DEF DirNamed
  <2> HIDE DEF T
  <2> QED BY <1>3, <2>1, DirsLeast DEF Covers
<1>5. x.ino \in Dirs(e)
  <2>1. x.dir \in Dirs(e) /\ x.dir \in OpenDirs(d)
    BY <1>4, DirsOpen DEF DirNamed, Fresh
  <2>2. x \in EntriesOf(e, x.dir)
    BY <2>1 DEF DirNamed, Added
  <2> QED BY <2>1, <2>2, DirsOpen DEF Covers, DirNamed
<1> QED BY <1>2, <1>4, <1>5

LEMMA DirNamedSound ==
    ASSUME NEW d, NEW e, NEW x, x = Entry(x.dir, x.name, x.ino), Proper(d), Proper(e),
           DirNamed(d, e, x), Sound(d)
    PROVE  Sound(e) /\ Dirs(e) = Dirs(d) \cup {x.ino} /\ Entries(e) = Entries(d) \cup {x}
<1>1. Leads(d) /\ Linked(d) /\ Treelike(d)
  BY SoundIs
<1>2. Dirs(e) = Dirs(d) \cup {x.ino}
  BY <1>1, DirNamedDirs DEF Treelike, RootOnTop
<1>3. Entries(e) = Entries(d) \cup {x}
  BY <1>2, AddedEntries DEF DirNamed, Fresh
<1>4. Leads(e)
  BY <1>1, <1>2, <1>3 DEF Leads, DirNamed
<1>5. \A i : i # x.ino => Named(Entries(e), i) = Named(Entries(d), i)
  BY <1>3, AddedNamed DEF DirNamed
<1>6. Linked(e)
  <2>1. \A i \in Files(e) : i # x.ino /\ i \in Files(d)
    BY DEF DirNamed
  <2> QED BY <1>1, <1>5, <2>1 DEF Linked, DirNamed
<1>7. \A y \in Entries(d) : y.ino # x.ino
  BY <1>1, DirsOpen DEF Leads, DirNamed
<1>8. ASSUME NEW i \in Dirs(e) \ {ROOT} PROVE Hangs(e, i)
  <2>1. CASE i = x.ino
    <3>1. Named(Entries(e), i) = {x}
      BY <1>3, <1>7, <2>1 DEF Named
    <3> QED BY <1>3, <2>1, <3>1 DEF Hangs, DirNamed
  <2>2. CASE i # x.ino
    <3>1. i \in Dirs(d) \ {ROOT} /\ i \in OpenDirs(d)
      BY <1>2, <2>2, DirsOpen
    <3>2. PICK y \in Entries(d) : Named(Entries(d), i) = {y} /\ UpOf(d, i) = y.dir
      BY <1>1, <3>1 DEF Treelike, Hangs
    <3>3. UpOf(e, i) = UpOf(d, i)
      BY <3>1 DEF DirNamed, Added
    <3> QED BY <1>3, <1>5, <2>2, <3>2, <3>3 DEF Hangs
  <2> QED BY <2>1, <2>2
<1>9. RootOnTop(e)
  <2>1. ROOT \in OpenDirs(d) /\ x.ino # ROOT
    BY <1>1, DirsOpen DEF Treelike, RootOnTop, DirNamed
  <2> QED BY <1>1, <1>2, <1>3, <2>1 DEF Treelike, RootOnTop, DirNamed, Added
<1>10. Distinct(e)
  BY <1>1, <1>3, AddedDistinct DEF Treelike, DirNamed
<1>11. Sound(e)
  BY <1>4, <1>6, <1>8, <1>9, <1>10, SoundIs DEF Treelike
<1> QED BY <1>2, <1>3, <1>11

\* The entry x of d goes.  What has been a directory stays one, unless x names it.
Dropped(d, e, x) ==
    /\ x \in Entries(d)
    /\ OpenDirs(e) \subseteq OpenDirs(d) /\ ROOT \in OpenDirs(e)
    /\ OpenDirs(d) \ {x.ino} \subseteq OpenDirs(e)
    /\ \A j \in OpenDirs(e) : EntriesOf(e, j) = EntriesOf(d, j) \ {x} /\ UpOf(e, j) = UpOf(d, j)

LEMMA DroppedDirs ==
    ASSUME NEW d, NEW e, NEW x, Dropped(d, e, x), Treelike(d),
           x.ino \in OpenDirs(e) => x.ino \notin Dirs(d)
    PROVE  /\ Dirs(e) \subseteq Dirs(d) \cap OpenDirs(e)
           /\ \A y : y \in Entries(e) <=> y \in Entries(d) /\ y # x /\ y.dir \in Dirs(e)
<1> DEFINE S == Dirs(d) \cap OpenDirs(e)
<1>1. ASSUME NEW j \in S, NEW y \in EntriesOf(e, j), y.ino \in OpenDirs(e) PROVE y.ino \in S
  <2>1. y \in EntriesOf(d, j) /\ y.ino \in OpenDirs(d)
    BY <1>1 DEF Dropped
  <2> QED BY <1>1, <2>1, DirsOpen DEF Covers
<1>2. ROOT \in S
  BY DEF Dropped, Treelike, RootOnTop
<1>3. Dirs(e) \subseteq S
  <2> HIDE DEF S
  <2> QED BY <1>1, <1>2, DirsLeast DEF Covers
<1>4. ASSUME NEW y PROVE y \in Entries(e) <=> y \in Entries(d) /\ y # x /\ y.dir \in Dirs(e)
  <2>1. y \in Entries(e) <=> y.dir \in Dirs(e) /\ y \in EntriesOf(e, y.dir)
    BY EntriesIs
  <2>2. y \in Entries(d) <=> y.dir \in Dirs(d) /\ y \in EntriesOf(d, y.dir)
    BY EntriesIs
  <2>3. y.dir \in Dirs(e) => EntriesOf(e, y.dir) = EntriesOf(d, y.dir) \ {x}
    BY <1>3 DEF Dropped
  <2> QED BY <1>3, <2>1, <2>2, <2>3
<1> QED BY <1>3, <1>4

LEMMA DroppedTree ==
    ASSUME NEW d, NEW e, NEW x, Dropped(d, e, x), Treelike(d),
           x.ino \in OpenDirs(e) => x.ino \notin Dirs(d)
    PROVE  Treelike(e)
<1>1. /\ Dirs(e) \subseteq Dirs(d) \cap OpenDirs(e)
      /\ \A y : y \in Entries(e) <=> y \in Entries(d) /\ y # x /\ y.dir \in Dirs(e)
  BY DroppedDirs
<1>2. RootOnTop(e)
  <2>1. ROOT \in Dirs(e) /\ UpOf(e, ROOT) = UpOf(d, ROOT)
    BY DirsOpen DEF Dropped
  <2> QED BY <1>1, <2>1 DEF Treelike, RootOnTop
<1>3. ASSUME NEW i \in Dirs(e) \ {ROOT} PROVE Hangs(e, i)
  <2>1. i \in Dirs(d) \ {ROOT} /\ i \in OpenDirs(e)
    BY <1>1
  <2>2. PICK y \in Entries(d) : Named(Entries(d), i) = {y} /\ UpOf(d, i) = y.dir
    BY <2>1 DEF Treelike, Hangs
  <2>3. PICK z \in Entries(e) : z.ino = i
    BY <1>3, DirsNamed
  <2>4. z \in Named(Entries(d), i)
    BY <1>1, <2>3 DEF Named
  <2>5. y \in Entries(e) /\ y.ino = i
    BY <2>2, <2>3, <2>4
  <2>6. Named(Entries(e), i) = {y}
    BY <1>1, <2>2, <2>5 DEF Named
  <2>7. UpOf(e, i) = UpOf(d, i)
    BY <2>1 DEF Dropped
  <2> QED BY <2>2, <2>5, <2>6, <2>7 DEF Hangs
<1>4. Distinct(e)
  BY <1>1 DEF Treelike, Distinct
<1> QED BY <1>2, <1>3, <1>4 DEF Treelike

\* A file loses a name and a link, and its inode when no link is left.
FileDropped(d, e, x) ==
    /\ Dropped(d, e, x) /\ OpenDirs(e) = OpenDirs(d) /\ x.ino \in Files(d)
    /\ \/ Files(e) = Files(d) /\ e.inode[x.ino].links = d.inode[x.ino].links - 1
       \/ Files(e) = Files(d) \ {x.ino} /\ d.inode[x.ino].links - 1 <= 0
    /\ \A j \in Files(d) \ {x.ino} : e.inode[j].links = d.inode[j].links
    /\ NoFewer(d, e)

LEMMA FileDroppedSound ==
    ASSUME NEW d, NEW e, NEW x, Proper(d), Proper(e), FileDropped(d, e, x), Sound(d)
    PROVE  /\ Sound(e) /\ Dirs(e) = Dirs(d) /\ Entries(e) = Entries(d) \ {x}
           /\ \A i \in Inos : Excess(e)[i] <= Excess(d)[i]
<1>1. Leads(d) /\ Linked(d) /\ Treelike(d)
  BY SoundIs
<1>2. Dropped(d, e, x) /\ x \in Entries(d) /\ x.ino \in Inos /\ x.ino \notin OpenDirs(d)
  BY NamedFinite DEF FileDropped, Dropped, Files, OpenDirs
<1>3. x.ino \notin Dirs(d)
  BY <1>2, DirsOpen
<1>4. /\ Dirs(e) \subseteq Dirs(d) \cap OpenDirs(e)
      /\ \A y : y \in Entries(e) <=> y \in Entries(d) /\ y # x /\ y.dir \in Dirs(e)
  BY <1>1, <1>2, <1>3, DroppedDirs
<1>5. Treelike(e)
  BY <1>1, <1>2, <1>3, DroppedTree
<1>6. Dirs(d) \subseteq Dirs(e)
  <2>1. ASSUME NEW j \in Dirs(e), NEW y \in EntriesOf(d, j), y.ino \in OpenDirs(d) PROVE y.ino \in Dirs(e)
    <3>1. j \in OpenDirs(e) /\ y # x /\ y.ino \in OpenDirs(e)
      BY <1>2, <2>1, DirsOpen DEF FileDropped
    <3>2. y \in EntriesOf(e, j)
      BY <1>2, <3>1 DEF Dropped
    <3> QED BY <3>1, <3>2, DirsOpen DEF Covers
  <2>2. ROOT \in Dirs(e)
    BY <1>5 DEF Treelike, RootOnTop
  <2> QED BY <2>1, <2>2, DirsLeast DEF Covers
<1>7. Dirs(e) = Dirs(d)
  BY <1>4, <1>6
<1>8. Entries(e) = Entries(d) \ {x}
  BY <1>4, <1>7, EntriesIs
<1>9. ASSUME NEW i, i # x.ino PROVE Named(Entries(e), i) = Named(Entries(d), i)
  BY <1>8, <1>9 DEF Named
<1> DEFINE i == x.ino
           D == Named(Entries(d), i)
           E == Named(Entries(e), i)
<1>10. E = D \ {x} /\ x \in D
  BY <1>2, <1>8 DEF Named
<1>11. IsFiniteSet(D) /\ IsFiniteSet(E) /\ Cardinality(D) \in Nat /\ Cardinality(E) \in Nat /\ d.inode[i].links \in Int
  BY <1>2, NamedFinite
<1>12. Cardinality(E) = Cardinality(D) - 1
  BY <1>10, <1>11, FS_RemoveElement
<1>13. Cardinality(D) <= d.inode[i].links
  BY <1>1 DEF Linked, FileDropped
<1>14. CASE Files(e) = Files(d) /\ e.inode[i].links = d.inode[i].links - 1
  <2>1. Leads(e)
    BY <1>1, <1>7, <1>8, <1>14 DEF Leads
  <2>2. Cardinality(E) <= e.inode[i].links
    <3> HIDE DEF D, E, i
    <3> QED BY <1>11, <1>12, <1>13, <1>14
  <2>3. Linked(e)
    BY <1>1, <1>9, <1>14, <2>2 DEF Linked, FileDropped
  <2>4. ASSUME NEW j \in Inos PROVE Excess(e)[j] <= Excess(d)[j]
    <3>1. /\ Excess(d)[j] = IF j \in Files(d) THEN d.inode[j].links - Cardinality(Named(Entries(d), j)) ELSE 0
          /\ Excess(e)[j] = IF j \in Files(e) THEN e.inode[j].links - Cardinality(Named(Entries(e), j)) ELSE 0
      BY ExcessIs
    <3>2. j # i /\ j \in Files(d) => e.inode[j].links = d.inode[j].links /\ Named(Entries(e), j) = Named(Entries(d), j)
      BY <1>9 DEF FileDropped
    <3>3. Cardinality(Named(Entries(d), j)) \in Nat /\ d.inode[j].links \in Int
      BY NamedFinite
    <3>4. CASE j = i
      <4>1. /\ Excess(d)[j] = IF j \in Files(d) THEN d.inode[j].links - Cardinality(D) ELSE 0
            /\ Excess(e)[j] = IF j \in Files(e) THEN e.inode[j].links - Cardinality(E) ELSE 0
        BY <3>1, <3>4
      <4> HIDE DEF D, E, i
      <4> QED BY <1>11, <1>12, <1>14, <3>4, <4>1
    <3>5. CASE j # i
      BY <1>14, <3>1, <3>2, <3>3, <3>5
    <3> QED BY <3>4, <3>5
  <2> QED BY <1>5, <1>7, <1>8, <2>1, <2>3, <2>4, SoundIs
<1>15. CASE Files(e) = Files(d) \ {i} /\ d.inode[i].links - 1 <= 0
  <2>1. Cardinality(E) = 0
    <3> HIDE DEF D, E, i
    <3> QED BY <1>11, <1>12, <1>13, <1>15
  <2>2. E = {}
    <3> HIDE DEF D, E, i
    <3> QED BY <1>11, <2>1, FS_EmptySet
  <2>3. \A y \in Entries(e) : y.ino # i
    BY <2>2 DEF Named
  <2>4. Leads(e)
    BY <1>1, <1>7, <1>8, <1>15, <2>3 DEF Leads
  <2>5. Linked(e)
    BY <1>1, <1>9, <1>15 DEF Linked, FileDropped
  <2>6. ASSUME NEW j \in Inos PROVE Excess(e)[j] <= Excess(d)[j]
    <3>1. /\ Excess(d)[j] = IF j \in Files(d) THEN d.inode[j].links - Cardinality(Named(Entries(d), j)) ELSE 0
          /\ Excess(e)[j] = IF j \in Files(e) THEN e.inode[j].links - Cardinality(Named(Entries(e), j)) ELSE 0
      BY ExcessIs
    <3>2. j # i /\ j \in Files(d) => e.inode[j].links = d.inode[j].links /\ Named(Entries(e), j) = Named(Entries(d), j)
      BY <1>9 DEF FileDropped
    <3>3. Cardinality(Named(Entries(d), j)) \in Nat /\ d.inode[j].links \in Int
      BY NamedFinite
    <3>4. CASE j = i
      <4>1. Excess(e)[j] = 0
        BY <1>15, <3>1, <3>4
      <4>2. j \in Files(d) => Excess(d)[j] = d.inode[i].links - Cardinality(D)
        BY <3>1, <3>4
      <4> HIDE DEF D, E, i
      <4> QED BY <1>11, <1>13, <3>1, <4>1, <4>2
    <3>5. CASE j # i
      BY <1>15, <3>1, <3>2, <3>3, <3>5
    <3> QED BY <3>4, <3>5
  <2> QED BY <1>5, <1>7, <1>8, <2>4, <2>5, <2>6, SoundIs
<1> QED BY <1>14, <1>15 DEF FileDropped

\* A directory goes, with its name; where those below it were nobody gets any more.
DirDropped(d, e, x) ==
    /\ Dropped(d, e, x) /\ OpenDirs(e) = OpenDirs(d) \ {x.ino} /\ x.ino \in Dirs(d)
    /\ Files(e) = Files(d)
    /\ \A j \in Files(d) : e.inode[j].links = d.inode[j].links
    /\ \A j \in OpenDirs(e) : e.inode[j].links >= d.inode[j].links

\* One entry does not lead to what another one leads to, but for files.
LEMMA OneEntry ==
    ASSUME NEW d, Treelike(d), NEW x \in Entries(d), NEW y \in Entries(d), x.ino = y.ino,
           x.ino \in Dirs(d)
    PROVE  x = y
<1>1. x.ino # ROOT
  BY DEF Treelike, RootOnTop
<1>2. PICK z \in Entries(d) : Named(Entries(d), x.ino) = {z}
  BY <1>1 DEF Treelike, Hangs
<1>3. x \in Named(Entries(d), x.ino) /\ y \in Named(Entries(d), x.ino)
  BY DEF Named
<1> QED BY <1>2, <1>3

LEMMA DirDroppedSound ==
    ASSUME NEW d, NEW e, NEW x, Proper(d), Proper(e), DirDropped(d, e, x), Sound(d)
    PROVE  /\ Sound(e) /\ Dirs(e) \subseteq Dirs(d) \ {x.ino}
           /\ \A y : y \in Entries(e) <=> y \in Entries(d) /\ y # x /\ y.dir \in Dirs(e)
<1>1. Leads(d) /\ Linked(d) /\ Treelike(d)
  BY SoundIs
<1>2. Dropped(d, e, x) /\ x \in Entries(d) /\ x.ino \notin OpenDirs(e)
  BY DEF DirDropped, Dropped
<1>3. /\ Dirs(e) \subseteq Dirs(d) \cap OpenDirs(e)
      /\ \A y : y \in Entries(e) <=> y \in Entries(d) /\ y # x /\ y.dir \in Dirs(e)
  BY <1>1, <1>2, DroppedDirs
<1>4. Treelike(e)
  BY <1>1, <1>2, DroppedTree
<1>5. ASSUME NEW y \in Entries(e) PROVE y.ino \in Files(e) \cup Dirs(e)
  <2>1. y \in Entries(d) /\ y # x /\ y.dir \in Dirs(e) /\ y \in EntriesOf(e, y.dir)
    BY <1>3, EntriesIs
  <2>2. CASE y.ino \in Files(d)
    BY <2>2 DEF DirDropped
  <2>3. CASE y.ino \in Dirs(d)
    <3>1. y.ino # x.ino
      BY <1>1, <1>2, <2>1, <2>3, OneEntry
    <3>2. y.ino \in OpenDirs(e)
      BY <2>3, <3>1, DirsOpen DEF DirDropped
    <3> QED BY <2>1, <3>2, DirsOpen DEF Covers
  <2> QED BY <1>1, <2>1, <2>2, <2>3 DEF Leads
<1>6. ASSUME NEW i \in Files(e) PROVE Cardinality(Named(Entries(e), i)) <= e.inode[i].links
  <2> DEFINE D == Named(Entries(d), i)
             E == Named(Entries(e), i)
  <2>1. E \subseteq D
    BY <1>3 DEF Named
  <2>2. IsFiniteSet(D) /\ Cardinality(D) \in Nat /\ Cardinality(E) \in Nat /\ i \in Inos /\ d.inode[i].links \in Int
    BY <1>6, NamedFinite DEF DirDropped
  <2>3. Cardinality(D) <= d.inode[i].links /\ e.inode[i].links = d.inode[i].links
    BY <1>1, <1>6 DEF Linked, DirDropped
  <2> HIDE DEF D, E
  <2>4. Cardinality(E) <= Cardinality(D)
    BY <2>1, <2>2, FS_Subset
  <2>5. Cardinality(E) <= e.inode[i].links
    BY <2>2, <2>3, <2>4
  <2> QED BY <2>5 DEF E
<1>7. Sound(e)
  BY <1>4, <1>5, <1>6, SoundIs DEF Leads, Linked
<1>8. x.ino \notin Dirs(e)
  BY <1>2, <1>3
<1> QED BY <1>3, <1>7, <1>8

-------------------------------------------------------------------------------
\* The links of the directories.

\* The directories below one.
Subdirs(d, i) == {y \in EntriesOf(d, i) : y.ino \in Dirs(d)}

LEMMA LinksIs ==
    ASSUME NEW d
    PROVE  LinksEnough(d) <=> \A i \in Dirs(d) : d.inode[i].links >= 2 + Cardinality(Subdirs(d, i))
BY DEF LinksEnough, Subdirs

LEMMA SubdirsFinite ==
    ASSUME NEW d, Proper(d), NEW i \in OpenDirs(d)
    PROVE  /\ IsFiniteSet(Subdirs(d, i)) /\ Cardinality(Subdirs(d, i)) \in Nat
           /\ d.inode[i].links \in Int /\ i \in Inos
<1>1. IsFiniteSet(EntriesOf(d, i)) /\ i \in Inos
  BY EntriesFinite
<1>2. Subdirs(d, i) \subseteq EntriesOf(d, i)
  BY DEF Subdirs
<1>3. IsFiniteSet(Subdirs(d, i))
  BY <1>1, <1>2, FS_Subset
<1>4. d.inode[i].links \in Int
  BY <1>1 DEF Proper, Shaped, Formed
<1> QED BY <1>1, <1>3, <1>4, FS_CardinalityType

\* Where nothing is below a directory that has not been there before, links stay enough.
LEMMA LinksStay ==
    ASSUME NEW d, NEW e, Proper(d), Proper(e), LinksEnough(d), Dirs(e) \subseteq Dirs(d),
           \A j \in Dirs(e) : Subdirs(e, j) \subseteq Subdirs(d, j) /\ e.inode[j].links >= d.inode[j].links
    PROVE  LinksEnough(e)
<1>1. ASSUME NEW i \in Dirs(e) PROVE e.inode[i].links >= 2 + Cardinality(Subdirs(e, i))
  <2>1. i \in OpenDirs(d) /\ i \in OpenDirs(e) /\ i \in Dirs(d)
    BY DirsOpen
  <2>2. IsFiniteSet(Subdirs(d, i)) /\ Cardinality(Subdirs(d, i)) \in Nat /\ d.inode[i].links \in Int
    BY <2>1, SubdirsFinite
  <2>3. Cardinality(Subdirs(e, i)) \in Nat /\ e.inode[i].links \in Int
    BY <2>1, SubdirsFinite
  <2>4. Cardinality(Subdirs(e, i)) <= Cardinality(Subdirs(d, i))
    BY <2>2, FS_Subset
  <2>5. d.inode[i].links >= 2 + Cardinality(Subdirs(d, i))
    BY <2>1, LinksIs
  <2>6. e.inode[i].links >= d.inode[i].links
    OBVIOUS
  <2> QED BY <2>2, <2>3, <2>4, <2>5, <2>6
<1> QED BY <1>1, LinksIs

LEMMA FileNamedLinks ==
    ASSUME NEW d, NEW e, NEW x, Proper(d), Proper(e), FileNamed(d, e, x), LinksEnough(d)
    PROVE  LinksEnough(e)
<1>1. Dirs(e) = Dirs(d)
  BY FileNamedDirs
<1>2. ASSUME NEW j \in Dirs(e) PROVE Subdirs(e, j) \subseteq Subdirs(d, j) /\ e.inode[j].links >= d.inode[j].links
  <2>1. j \in OpenDirs(d) /\ x.ino \notin Dirs(d)
    BY <1>1, DirsOpen DEF FileNamed
  <2>2. EntriesOf(e, j) \subseteq EntriesOf(d, j) \cup {x}
    BY <2>1 DEF FileNamed, Added
  <2>3. Subdirs(e, j) \subseteq Subdirs(d, j)
    BY <1>1, <2>1, <2>2 DEF Subdirs
  <2> QED BY <2>1, <2>3 DEF FileNamed, NoFewer
<1> QED BY <1>1, <1>2, LinksStay

LEMMA DirNamedLinks ==
    ASSUME NEW d, NEW e, NEW x, Proper(d), Proper(e), DirNamed(d, e, x), Treelike(d),
           LinksEnough(d), Leads(d)
    PROVE  LinksEnough(e)
<1>1. Dirs(e) = Dirs(d) \cup {x.ino}
  BY DirNamedDirs DEF Treelike, RootOnTop
<1>2. ASSUME NEW i \in Dirs(e) PROVE e.inode[i].links >= 2 + Cardinality(Subdirs(e, i))
  <2>1. CASE i = x.ino
    <3>1. Subdirs(e, i) = {}
      BY <2>1 DEF Subdirs, DirNamed
    <3>2. Cardinality(Subdirs(e, i)) = 0
      BY <3>1, FS_EmptySet
    <3> QED BY <2>1, <3>2 DEF DirNamed
  <2>2. CASE i # x.ino
    <3>1. i \in Dirs(d) /\ i \in OpenDirs(d) /\ x.ino \notin OpenDirs(d)
      BY <1>1, <1>2, <2>2, DirsOpen DEF DirNamed
    <3>2. ASSUME NEW y \in EntriesOf(d, i), y.ino \in Dirs(e) PROVE y.ino \in Dirs(d)
      <4>1. y \in Entries(d)
        BY <3>1, EntriesIs, EntriesOfIs
      <4>2. y.ino \in Files(d) \cup Dirs(d)
        BY <4>1 DEF Leads
      <4>3. y.ino # x.ino
        BY <4>2, DirsOpen DEF DirNamed
      <4> QED BY <1>1, <3>2, <4>3
    <3>3. IsFiniteSet(Subdirs(d, i)) /\ Cardinality(Subdirs(d, i)) \in Nat /\ d.inode[i].links \in Int
      BY <3>1, SubdirsFinite
    <3>4. d.inode[i].links >= 2 + Cardinality(Subdirs(d, i))
      BY <3>1, LinksIs
    <3>5. e.inode[i].links \in Int /\ e.inode[i].links >= d.inode[i].links
      BY <1>2, <3>1, SubdirsFinite, DirsOpen DEF DirNamed, NoFewer
    <3>6. CASE i # x.dir
      <4>1. EntriesOf(e, i) = EntriesOf(d, i)
        BY <3>1, <3>6 DEF DirNamed, Added
      <4>2. Subdirs(e, i) = Subdirs(d, i)
        BY <1>1, <3>2, <4>1 DEF Subdirs
      <4> QED BY <3>3, <3>4, <3>5, <4>2
    <3>7. CASE i = x.dir
      <4>1. EntriesOf(e, i) = EntriesOf(d, i) \cup {x}
        BY <3>1, <3>7 DEF DirNamed, Added
      <4>2. Subdirs(e, i) = Subdirs(d, i) \cup {x} /\ x \notin Subdirs(d, i)
        BY <1>1, <3>2, <3>7, <4>1 DEF Subdirs, DirNamed, Fresh
      <4>3. Cardinality(Subdirs(e, i)) = Cardinality(Subdirs(d, i)) + 1
        BY <3>3, <4>2, FS_AddElement
      <4>4. e.inode[i].links >= d.inode[i].links + 1
        BY <3>7 DEF DirNamed
      <4> QED BY <3>3, <3>4, <3>5, <4>3, <4>4
    <3> QED BY <3>6, <3>7
  <2> QED BY <2>1, <2>2
<1> QED BY <1>2, LinksIs

LEMMA DroppedSubdirs ==
    ASSUME NEW d, NEW e, NEW x, Dropped(d, e, x), Dirs(e) \subseteq Dirs(d), NEW j \in Dirs(e)
    PROVE  Subdirs(e, j) \subseteq Subdirs(d, j)
<1>1. EntriesOf(e, j) = EntriesOf(d, j) \ {x}
  BY DirsOpen DEF Dropped
<1> QED BY <1>1 DEF Subdirs

LEMMA FileDroppedLinks ==
    ASSUME NEW d, NEW e, NEW x, Proper(d), Proper(e), FileDropped(d, e, x), Sound(d), LinksEnough(d)
    PROVE  LinksEnough(e)
<1>1. Dirs(e) = Dirs(d)
  BY FileDroppedSound
<1>2. \A j \in Dirs(e) : Subdirs(e, j) \subseteq Subdirs(d, j) /\ e.inode[j].links >= d.inode[j].links
  BY <1>1, DirsOpen, DroppedSubdirs DEF FileDropped, NoFewer
<1> QED BY <1>1, <1>2, LinksStay

LEMMA DirDroppedLinks ==
    ASSUME NEW d, NEW e, NEW x, Proper(d), Proper(e), DirDropped(d, e, x), Sound(d), LinksEnough(d)
    PROVE  LinksEnough(e)
<1>1. Dirs(e) \subseteq Dirs(d)
  BY DirDroppedSound
<1>2. \A j \in Dirs(e) : Subdirs(e, j) \subseteq Subdirs(d, j) /\ e.inode[j].links >= d.inode[j].links
  BY <1>1, DirsOpen, DroppedSubdirs DEF DirDropped
<1> QED BY <1>1, <1>2, LinksStay

-------------------------------------------------------------------------------
\* What the commands do to the INODEs and blocks of an image d, that of e then.

\* The block of dd has the name n of inode i more, or the name n no more; but for the
\* blocks B the others are as they were.
GainsName(d, e, dd, n, i, B) ==
    /\ ListOf(e, dd) = ListOf(d, dd) \cup {Rec(n, i)} /\ UpOf(e, dd) = UpOf(d, dd)
    /\ e.dir[d.inode[dd].block].dot = d.dir[d.inode[dd].block].dot
    /\ \A b \in Blocks \ (B \cup {d.inode[dd].block}) : e.dir[b] = d.dir[b]
LosesName(d, e, dd, n, B) ==
    /\ ListOf(e, dd) = {r \in ListOf(d, dd) : r.name # n} /\ UpOf(e, dd) = UpOf(d, dd)
    /\ e.dir[d.inode[dd].block].dot = d.dir[d.inode[dd].block].dot
    /\ \A b \in Blocks \ (B \cup {d.inode[dd].block}) : e.dir[b] = d.dir[b]

\* The directory j still has the block it had.
StaysPut(d, e, j) ==
    /\ e.inode[j].kind = "dir" /\ j \in e.imap /\ e.inode[j].block = d.inode[j].block
    /\ e.inode[j].block \in e.bmap

LEMMA OwnBlock ==
    ASSUME NEW d, NEW i \in OpenDirs(d), NEW j \in OpenDirs(d), d.inode[i].block = d.inode[j].block
    PROVE  i = j
BY DEF OpenDirs

LEMMA OpenIs ==
    ASSUME NEW d, NEW i
    PROVE  i \in OpenDirs(d) <=> /\ i \in d.imap /\ d.inode[i].kind = "dir"
                                 /\ d.inode[i].block \in d.bmap /\ d.dir[d.inode[i].block].dot = i
BY DEF OpenDirs, Allocated

LEMMA FilesIs ==
    ASSUME NEW d, NEW i
    PROVE  i \in Files(d) <=> i \in d.imap /\ d.inode[i].kind \notin {"none", "dir"}
BY DEF Files, Allocated

LEMMA SameList ==
    ASSUME NEW d, NEW e, NEW j, ListOf(e, j) = ListOf(d, j)
    PROVE  EntriesOf(e, j) = EntriesOf(d, j)
BY DEF EntriesOf, ListOf

LEMMA MoreList ==
    ASSUME NEW d, NEW e, NEW j, NEW n, NEW i, i # 0, ListOf(e, j) = ListOf(d, j) \cup {Rec(n, i)}
    PROVE  EntriesOf(e, j) = EntriesOf(d, j) \cup {Entry(j, n, i)}
<1>1. Rec(n, i).name = n /\ Rec(n, i).ino = i
  BY DEF Rec
<1>2. ASSUME NEW y \in EntriesOf(e, j) PROVE y \in EntriesOf(d, j) \cup {Entry(j, n, i)}
  <2>1. PICK r \in ListOf(e, j) : r.ino # 0 /\ y = Entry(j, r.name, r.ino)
    BY EntriesOfIs
  <2> QED BY <1>1, <2>1, EntriesOfIs
<1>3. ASSUME NEW y \in EntriesOf(d, j) PROVE y \in EntriesOf(e, j)
  <2>1. PICK r \in ListOf(d, j) : r.ino # 0 /\ y = Entry(j, r.name, r.ino)
    BY EntriesOfIs
  <2> QED BY <2>1, EntriesOfIs
<1>4. Entry(j, n, i) \in EntriesOf(e, j)
  BY <1>1, EntriesOfIs
<1> QED BY <1>2, <1>3, <1>4

ListWithout(d, e, j, n) == ListOf(e, j) = {r \in ListOf(d, j) : r.name # n}

LEMMA LessList ==
    ASSUME NEW d, NEW e, NEW j, NEW n, ListWithout(d, e, j, n)
    PROVE  \A y : y \in EntriesOf(e, j) <=> y \in EntriesOf(d, j) /\ y.name # n
<1>0. \A r : r \in ListOf(e, j) <=> r \in ListOf(d, j) /\ r.name # n
  BY DEF ListWithout
<1>1. ASSUME NEW y \in EntriesOf(e, j) PROVE y \in EntriesOf(d, j) /\ y.name # n
  <2>1. PICK r \in ListOf(e, j) : r.ino # 0 /\ y = Entry(j, r.name, r.ino)
    BY EntriesOfIs
  <2>2. y.name = r.name
    BY <2>1 DEF Entry
  <2> QED BY <1>0, <2>1, <2>2, EntriesOfIs
<1>2. ASSUME NEW y \in EntriesOf(d, j), y.name # n PROVE y \in EntriesOf(e, j)
  <2>1. PICK r \in ListOf(d, j) : r.ino # 0 /\ y = Entry(j, r.name, r.ino)
    BY EntriesOfIs
  <2>2. y.name = r.name
    BY <2>1 DEF Entry
  <2> QED BY <1>0, <1>2, <2>1, <2>2, EntriesOfIs
<1> QED BY <1>1, <1>2

\* A name more.
LEMMA GainsAdded ==
    ASSUME NEW d, NEW e, Proper(d), NEW dd \in OpenDirs(d), NEW n, NEW i \in Inos, NEW B,
           GainsName(d, e, dd, n, i, B),
           \A j \in OpenDirs(d) : d.inode[j].block \notin B /\ StaysPut(d, e, j)
    PROVE  Added(d, e, Entry(dd, n, i)) /\ OpenDirs(d) \subseteq OpenDirs(e)
<1>1. ASSUME NEW j \in OpenDirs(d), j # dd PROVE e.dir[e.inode[j].block] = d.dir[d.inode[j].block]
  <2>1. d.inode[j].block # d.inode[dd].block
    BY <1>1, OwnBlock
  <2>2. d.inode[j].block \in Blocks \ (B \cup {d.inode[dd].block})
    BY <2>1, EntriesFinite
  <2> QED BY <2>2 DEF GainsName, StaysPut
<1>2. i # 0
  BY DEF Inos, ROOT
<1>3. ASSUME NEW j \in OpenDirs(d)
      PROVE  /\ EntriesOf(e, j) = IF j = dd THEN EntriesOf(d, j) \cup {Entry(dd, n, i)} ELSE EntriesOf(d, j)
             /\ UpOf(e, j) = UpOf(d, j) /\ j \in OpenDirs(e)
  <2>1. CASE j = dd
    <3>1. ListOf(e, j) = ListOf(d, j) \cup {Rec(n, i)} /\ UpOf(e, j) = UpOf(d, j)
      BY <2>1 DEF GainsName
    <3>2. EntriesOf(e, j) = EntriesOf(d, j) \cup {Entry(dd, n, i)}
      BY <1>2, <2>1, <3>1, MoreList
    <3>3. j \in OpenDirs(e)
      BY <2>1, OpenIs DEF GainsName, StaysPut
    <3> QED BY <2>1, <3>1, <3>2, <3>3
  <2>2. CASE j # dd
    <3>1. ListOf(e, j) = ListOf(d, j) /\ UpOf(e, j) = UpOf(d, j)
      BY <1>1, <2>2 DEF ListOf, UpOf
    <3> QED BY <1>1, <2>2, <3>1, SameList, OpenIs DEF StaysPut
  <2> QED BY <2>1, <2>2
<1>4. Entry(dd, n, i).dir = dd
  BY DEF Entry
<1> QED BY <1>3, <1>4 DEF Added

\* A name less, which is that of the entry x.
LEMMA LosesDropped ==
    ASSUME NEW d, NEW e, Proper(d), Treelike(d), NEW x \in Entries(d), NEW B,
           LosesName(d, e, x.dir, x.name, B), OpenDirs(e) \subseteq OpenDirs(d),
           NEW j \in OpenDirs(e), d.inode[j].block \notin B, StaysPut(d, e, j)
    PROVE  EntriesOf(e, j) = EntriesOf(d, j) \ {x} /\ UpOf(e, j) = UpOf(d, j)
<1>1. x.dir \in Dirs(d) /\ x \in EntriesOf(d, x.dir) /\ x.dir \in OpenDirs(d) /\ j \in OpenDirs(d)
  BY EntriesIs, DirsOpen
<1>2. CASE j = x.dir
  <2>1. \A y : y \in EntriesOf(e, j) <=> y \in EntriesOf(d, j) /\ y.name # x.name
    <3>1. ListWithout(d, e, j, x.name)
      BY <1>2 DEF LosesName, ListWithout
    <3> QED BY <3>1, LessList
  <2>2. ASSUME NEW y \in EntriesOf(d, j) PROVE y.name # x.name <=> y # x
    <3>1. y.dir = j /\ y \in Entries(d)
      BY <1>1, <1>2, EntriesOfIs, EntriesIs
    <3> QED BY <1>2, <3>1 DEF Treelike, Distinct
  <2>3. EntriesOf(e, j) = EntriesOf(d, j) \ {x}
    BY <2>1, <2>2
  <2> QED BY <1>2, <2>3 DEF LosesName
<1>3. CASE j # x.dir
  <2>1. d.inode[j].block # d.inode[x.dir].block
    BY <1>1, <1>3, OwnBlock
  <2>2. d.inode[j].block \in Blocks \ (B \cup {d.inode[x.dir].block})
    BY <1>1, <2>1, EntriesFinite
  <2>3. e.dir[e.inode[j].block] = d.dir[d.inode[j].block]
    BY <2>2 DEF LosesName, StaysPut
  <2>4. ListOf(e, j) = ListOf(d, j) /\ UpOf(e, j) = UpOf(d, j)
    BY <2>3 DEF ListOf, UpOf
  <2>5. x \notin EntriesOf(d, j)
    BY <1>3, EntriesOfIs
  <2> QED BY <2>4, <2>5, SameList
<1> QED BY <1>2, <1>3

\* creat and symlink.
Created(d, e, dd, n, i) ==
    /\ e.imap = d.imap \cup {i} /\ e.bmap = d.bmap /\ GainsName(d, e, dd, n, i, {})
    /\ e.inode[i].kind = "reg" /\ e.inode[i].links = 1
    /\ \A j \in Inos \ {i} : e.inode[j] = d.inode[j]

LEMMA CreatedNames ==
    ASSUME NEW d, NEW e, Proper(d), Proper(e), NEW dd \in Dirs(d), NEW n, NEW i \in Inos \ d.imap,
           Fresh(d, Entry(dd, n, i)), Created(d, e, dd, n, i)
    PROVE  FileNamed(d, e, Entry(dd, n, i))
<1> DEFINE x == Entry(dd, n, i)
<1>1. x.ino = i /\ x.dir = dd /\ dd \in OpenDirs(d) /\ OpenDirs(d) \subseteq Inos
  BY DirsOpen, EntriesFinite DEF Entry
<1>2. i \notin OpenDirs(d) /\ i \notin Files(d)
  BY OpenIs, FilesIs
<1>3. \A j \in OpenDirs(d) : StaysPut(d, e, j) /\ e.inode[j] = d.inode[j]
  BY <1>1, <1>2, OpenIs DEF Created, StaysPut
<1>4. Added(d, e, x) /\ OpenDirs(d) \subseteq OpenDirs(e)
  <2>1. GainsName(d, e, dd, n, i, {}) /\ \A j \in OpenDirs(d) : d.inode[j].block \notin {}
    BY DEF Created
  <2> QED BY <1>1, <1>3, <2>1, GainsAdded
<1>5. ASSUME NEW j \in OpenDirs(e) PROVE j \in OpenDirs(d)
  <2>1. j \in Inos /\ j # i /\ j \in d.imap
    BY OpenIs, EntriesFinite DEF Created
  <2>2. e.inode[j] = d.inode[j] /\ d.inode[j].kind = "dir" /\ d.inode[j].block \in d.bmap /\ d.inode[j].block \in Blocks
    BY <2>1, OpenIs, EntriesFinite DEF Created
  <2>3. e.dir[d.inode[j].block].dot = d.dir[d.inode[j].block].dot
    BY <2>2 DEF Created, GainsName
  <2> QED BY <2>1, <2>2, <2>3, OpenIs
<1>6. Files(e) = Files(d) \cup {i}
  <2>1. ASSUME NEW j PROVE j \in Files(e) <=> j \in Files(d) \cup {i}
    <3>1. CASE j = i
      BY <3>1, FilesIs DEF Created
    <3>2. CASE j # i
      BY <3>2, FilesIs DEF Created, Proper
    <3> QED BY <3>1, <3>2
  <2> QED BY <2>1
<1>7. \A j \in Files(d) : j \in Inos
  BY NamedFinite
<1>8. NoFewer(d, e)
  BY <1>1, <1>3 DEF NoFewer, Proper, Shaped, Formed
<1> HIDE DEF x
<1>9. FileNamed(d, e, x)
  BY <1>1, <1>2, <1>4, <1>5, <1>6, <1>7, <1>8 DEF FileNamed, Created, x
<1> QED BY <1>9 DEF x

\* link.
LinkAdded(d, e, dd, n, i) ==
    /\ e.imap = d.imap /\ e.bmap = d.bmap /\ GainsName(d, e, dd, n, i, {})
    /\ e.inode[i].kind = d.inode[i].kind /\ e.inode[i].links = d.inode[i].links + 1
    /\ \A j \in Inos \ {i} : e.inode[j] = d.inode[j]

LEMMA LinkAddedNames ==
    ASSUME NEW d, NEW e, Proper(d), Proper(e), NEW dd \in Dirs(d), NEW n, NEW i \in Files(d),
           Fresh(d, Entry(dd, n, i)), LinkAdded(d, e, dd, n, i)
    PROVE  FileNamed(d, e, Entry(dd, n, i))
<1> DEFINE x == Entry(dd, n, i)
<1>1. x.ino = i /\ x.dir = dd /\ dd \in OpenDirs(d) /\ OpenDirs(d) \subseteq Inos /\ i \in Inos
  BY DirsOpen, EntriesFinite, NamedFinite DEF Entry
<1>2. i \notin OpenDirs(d)
  BY OpenIs, FilesIs
<1>3. \A j \in OpenDirs(d) : StaysPut(d, e, j) /\ e.inode[j] = d.inode[j]
  BY <1>1, <1>2, OpenIs DEF LinkAdded, StaysPut
<1>4. Added(d, e, x) /\ OpenDirs(d) \subseteq OpenDirs(e)
  <2>1. GainsName(d, e, dd, n, i, {}) /\ \A j \in OpenDirs(d) : d.inode[j].block \notin {}
    BY DEF LinkAdded
  <2> QED BY <1>1, <1>3, <2>1, GainsAdded
<1>5. ASSUME NEW j \in OpenDirs(e) PROVE j \in OpenDirs(d)
  <2>1. j \in Inos /\ j # i /\ j \in d.imap
    BY OpenIs, EntriesFinite, FilesIs DEF LinkAdded
  <2>2. e.inode[j] = d.inode[j] /\ d.inode[j].kind = "dir" /\ d.inode[j].block \in d.bmap /\ d.inode[j].block \in Blocks
    BY <2>1, OpenIs, EntriesFinite DEF LinkAdded
  <2>3. e.dir[d.inode[j].block].dot = d.dir[d.inode[j].block].dot
    BY <2>2 DEF LinkAdded, GainsName
  <2> QED BY <2>1, <2>2, <2>3, OpenIs
<1>6. Files(e) = Files(d) \cup {i}
  <2>1. ASSUME NEW j PROVE j \in Files(e) <=> j \in Files(d)
    <3>1. CASE j = i
      BY <3>1, FilesIs DEF LinkAdded
    <3>2. CASE j # i
      BY <3>2, FilesIs DEF LinkAdded, Proper
    <3> QED BY <3>1, <3>2
  <2> QED BY <2>1
<1>7. \A j \in Files(d) : j \in Inos
  BY NamedFinite
<1>8. NoFewer(d, e)
  BY <1>1, <1>3 DEF NoFewer, Proper, Shaped, Formed
<1> HIDE DEF x
<1>9. FileNamed(d, e, x)
  BY <1>1, <1>2, <1>4, <1>5, <1>6, <1>7, <1>8 DEF FileNamed, LinkAdded, x
<1> QED BY <1>9 DEF x

\* mkdir, which takes the block b.
Made(d, e, dd, n, i, b) ==
    /\ e.imap = d.imap \cup {i} /\ e.bmap = d.bmap \cup {b} /\ GainsName(d, e, dd, n, i, {b})
    /\ e.inode[i].kind = "dir" /\ e.inode[i].links = 2 /\ e.inode[i].block = b
    /\ e.dir[b] = Dir(i, dd)
    /\ e.inode[dd].kind = d.inode[dd].kind /\ e.inode[dd].block = d.inode[dd].block
    /\ e.inode[dd].links = d.inode[dd].links + 1
    /\ \A j \in Inos \ {i, dd} : e.inode[j] = d.inode[j]

LEMMA MadeNames ==
    ASSUME NEW d, NEW e, Proper(d), Proper(e), NEW dd \in Dirs(d), NEW n, NEW i \in Inos \ d.imap,
           NEW b \in Blocks \ d.bmap, Fresh(d, Entry(dd, n, i)), Made(d, e, dd, n, i, b)
    PROVE  DirNamed(d, e, Entry(dd, n, i))
<1> DEFINE x == Entry(dd, n, i)
<1>1. x.ino = i /\ x.dir = dd /\ dd \in OpenDirs(d) /\ OpenDirs(d) \subseteq Inos
  BY DirsOpen, EntriesFinite DEF Entry
<1>2. i \notin OpenDirs(d) /\ i \notin Files(d) /\ dd \notin Files(d) /\ dd # i
  BY <1>1, OpenIs, FilesIs
<1>3. \A j \in OpenDirs(d) : /\ StaysPut(d, e, j) /\ e.inode[j].links >= d.inode[j].links
                             /\ d.inode[j].block \notin {b}
  <2>1. ASSUME NEW j \in OpenDirs(d)
        PROVE  StaysPut(d, e, j) /\ e.inode[j].links >= d.inode[j].links /\ d.inode[j].block # b
    <3>1. j \in Inos /\ j # i /\ d.inode[j].links \in Int /\ d.inode[j].block \in d.bmap
      BY <1>1, <1>2, OpenIs DEF Proper, Shaped, Formed
    <3>2. CASE j = dd
      BY <3>1, <3>2, OpenIs DEF Made, StaysPut
    <3>3. CASE j # dd
      BY <3>1, <3>3, OpenIs DEF Made, StaysPut
    <3> QED BY <3>2, <3>3
  <2> QED BY <2>1
<1>4. Added(d, e, x) /\ OpenDirs(d) \subseteq OpenDirs(e)
  <2>1. GainsName(d, e, dd, n, i, {b})
    BY DEF Made
  <2> QED BY <1>1, <1>3, <2>1, GainsAdded
<1>5. i \in OpenDirs(e) /\ EntriesOf(e, i) = {} /\ UpOf(e, i) = dd
  <2>1. e.dir[b].dot = i /\ e.dir[b].up = dd /\ e.dir[b].list = {}
    BY DEF Made, Dir
  <2> QED BY <2>1, OpenIs DEF Made, EntriesOf, UpOf
<1>6. ASSUME NEW j \in OpenDirs(e), j # i PROVE j \in OpenDirs(d)
  <2>1. j \in Inos /\ j \in d.imap /\ e.inode[j].block \in Blocks
    BY <1>6, OpenIs, EntriesFinite DEF Made
  <2>2. /\ e.inode[j].kind = d.inode[j].kind /\ e.inode[j].block = d.inode[j].block
    BY <1>6, <2>1 DEF Made
  <2>3. e.inode[j].block # b
    BY <1>6, OpenIs DEF Made, Dir
  <2>4. e.dir[d.inode[j].block].dot = d.dir[d.inode[j].block].dot
    BY <2>1, <2>2, <2>3 DEF Made, GainsName
  <2> QED BY <2>1, <2>2, <2>3, <2>4, OpenIs DEF Made
<1>7. Files(e) = Files(d)
  <2>1. ASSUME NEW j PROVE j \in Files(e) <=> j \in Files(d)
    <3>1. CASE j = i
      BY <1>2, <3>1, FilesIs DEF Made
    <3>2. CASE j # i
      <4>1. j \in Inos => e.inode[j].kind = d.inode[j].kind
        BY <3>2 DEF Made
      <4> QED BY <3>2, <4>1, FilesIs DEF Made, Proper
    <3> QED BY <3>1, <3>2
  <2> QED BY <2>1
<1>8. \A j \in Files(d) : j \in Inos /\ j # i /\ j # dd
  BY <1>2, NamedFinite
<1>9. NoFewer(d, e)
  BY <1>3 DEF NoFewer
<1>10. d.inode[dd].links \in Int
  BY <1>1 DEF Proper, Shaped, Formed
<1> HIDE DEF x
<1>11. DirNamed(d, e, x)
  BY <1>1, <1>2, <1>4, <1>5, <1>6, <1>7, <1>8, <1>9, <1>10 DEF DirNamed, Made, x
<1> QED BY <1>11 DEF x

\* unlink takes the name x away.
NameGone(d, e, x) ==
    /\ e.bmap = d.bmap /\ LosesName(d, e, x.dir, x.name, {})
    /\ \A j \in Inos \ {x.ino} : e.inode[j] = d.inode[j]
    /\ \/ /\ e.imap = d.imap /\ e.inode[x.ino].kind = d.inode[x.ino].kind
          /\ e.inode[x.ino].links = d.inode[x.ino].links - 1
       \/ /\ e.imap = d.imap \ {x.ino} /\ e.inode[x.ino].kind = "none"
          /\ d.inode[x.ino].links - 1 <= 0

LEMMA NameGoneDrops ==
    ASSUME NEW d, NEW e, Proper(d), Proper(e), Treelike(d), NEW x \in Entries(d),
           x.ino \in Files(d),
           NameGone(d, e, x)
    PROVE  FileDropped(d, e, x)
<1> DEFINE i == x.ino
<1>1. i \in Inos /\ i \notin OpenDirs(d) /\ OpenDirs(d) \subseteq Inos /\ ROOT \in OpenDirs(d)
  <2>1. i \in Inos
    BY NamedFinite
  <2>2. i \notin OpenDirs(d)
    BY FilesIs, OpenIs
  <2>3. OpenDirs(d) \subseteq Inos
    BY EntriesFinite
  <2>4. ROOT \in OpenDirs(d)
    BY DirsOpen DEF Treelike, RootOnTop
  <2> QED BY <2>1, <2>2, <2>3, <2>4
<1>2. \A j \in OpenDirs(d) : StaysPut(d, e, j) /\ e.inode[j] = d.inode[j]
  BY <1>1, OpenIs DEF NameGone, StaysPut
<1>3. \A b \in Blocks : e.dir[b].dot = d.dir[b].dot
  BY DEF NameGone, LosesName
<1>4. ASSUME NEW j PROVE j \in OpenDirs(e) <=> j \in OpenDirs(d)
  <2>1. CASE j \in OpenDirs(d)
    <3>1. e.dir[d.inode[j].block].dot = d.dir[d.inode[j].block].dot
      BY <1>3, <2>1, EntriesFinite
    <3> QED BY <1>2, <2>1, <3>1, OpenIs DEF StaysPut
  <2>2. CASE j \in OpenDirs(e)
    <3>1. j \in Inos /\ e.inode[j].kind = "dir" /\ e.inode[j].block \in Blocks /\ j \in e.imap
      BY <2>2, OpenIs, EntriesFinite
    <3>2. j # i
      BY <3>1, FilesIs DEF NameGone
    <3>3. e.inode[j] = d.inode[j] /\ j \in d.imap
      BY <3>1, <3>2 DEF NameGone
    <3>4. e.dir[d.inode[j].block].dot = d.dir[d.inode[j].block].dot
      BY <1>3, <3>1, <3>3
    <3> QED BY <2>2, <3>3, <3>4, OpenIs DEF NameGone
  <2> QED BY <2>1, <2>2
<1>5. OpenDirs(e) = OpenDirs(d)
  BY <1>4
<1>6. ASSUME NEW j \in OpenDirs(e) PROVE EntriesOf(e, j) = EntriesOf(d, j) \ {x} /\ UpOf(e, j) = UpOf(d, j)
  <2>1. OpenDirs(e) \subseteq OpenDirs(d) /\ d.inode[j].block \notin {} /\ StaysPut(d, e, j)
    BY <1>2, <1>5
  <2>2. LosesName(d, e, x.dir, x.name, {})
    BY DEF NameGone
  <2> QED BY <2>1, <2>2, LosesDropped
<1>7. Dropped(d, e, x)
  BY <1>1, <1>5, <1>6 DEF Dropped
<1>8. \A j \in Files(d) : j \in Inos
  BY NamedFinite
<1>9. ASSUME NEW j, j # i PROVE j \in Files(e) <=> j \in Files(d)
  BY <1>9, FilesIs DEF NameGone, Proper
<1>10. \/ Files(e) = Files(d) /\ e.inode[i].links = d.inode[i].links - 1
       \/ Files(e) = Files(d) \ {i} /\ d.inode[i].links - 1 <= 0
  <2>1. CASE /\ e.imap = d.imap /\ e.inode[i].kind = d.inode[i].kind
             /\ e.inode[i].links = d.inode[i].links - 1
    <3>1. i \in Files(e) <=> i \in Files(d)
      BY <2>1, FilesIs
    <3>2. Files(e) = Files(d)
      BY <1>9, <3>1
    <3> QED BY <2>1, <3>2
  <2>2. CASE e.imap = d.imap \ {i} /\ e.inode[i].kind = "none" /\ d.inode[i].links - 1 <= 0
    <3>1. i \notin Files(e)
      BY <2>2, FilesIs
    <3>2. Files(e) = Files(d) \ {i}
      BY <1>9, <3>1
    <3> QED BY <2>2, <3>2
  <2> QED BY <2>1, <2>2 DEF NameGone
<1>11. NoFewer(d, e)
  BY <1>1, <1>2 DEF NoFewer, Proper, Shaped, Formed
<1> QED BY <1>5, <1>7, <1>8, <1>10, <1>11 DEF FileDropped, NameGone

\* No directory is below itself.
LEMMA NotOwn ==
    ASSUME NEW d, Treelike(d), NEW x \in Entries(d), x.ino \in Dirs(d)
    PROVE  x.dir # x.ino /\ x.ino # ROOT /\ x.dir \in Dirs(d)
<1>1. x.ino # ROOT /\ x.dir \in Dirs(d)
  BY EntriesIs DEF Treelike, RootOnTop
<1>2. SUFFICES ASSUME x.dir = x.ino PROVE FALSE
  BY <1>1
<1> DEFINE S == Dirs(d) \ {x.ino}
<1>3. ASSUME NEW j \in S, NEW y \in EntriesOf(d, j), y.ino \in OpenDirs(d) PROVE y.ino \in S
  <2>1. y.dir = j /\ y \in Entries(d) /\ y.ino \in Dirs(d)
    BY <1>3, EntriesOfIs, EntriesIs, DirsOpen DEF Covers
  <2>2. y.ino # x.ino
    <3>1. y # x
      BY <1>2, <2>1
    <3> QED BY <2>1, <3>1, OneEntry
  <2> QED BY <2>1, <2>2
<1>4. ROOT \in S
  BY <1>1 DEF Treelike, RootOnTop
<1>5. Dirs(d) \subseteq S
  <2> HIDE DEF S
  <2> QED BY <1>3, <1>4, DirsLeast DEF Covers
<1> QED BY <1>5

\* rmdir takes the directory of the name x away.
DirGone(d, e, x) ==
    /\ e.imap = d.imap \ {x.ino} /\ e.bmap = d.bmap \ {d.inode[x.ino].block}
    /\ e.inode[x.ino].kind = "none"
    /\ \A j \in Inos \ {x.ino} : e.inode[j] = d.inode[j]
    /\ LosesName(d, e, x.dir, x.name, {d.inode[x.ino].block})

LEMMA DirGoneDrops ==
    ASSUME NEW d, NEW e, Proper(d), Proper(e), Treelike(d), NEW x \in Entries(d), x.ino \in Dirs(d),
           DirGone(d, e, x)
    PROVE  DirDropped(d, e, x)
<1> DEFINE i == x.ino
           b == d.inode[i].block
<1>1. i \in OpenDirs(d) /\ OpenDirs(d) \subseteq Inos /\ ROOT \in OpenDirs(d) /\ i # ROOT /\ x.dir \in OpenDirs(d) /\ x.dir # i
  BY EntriesFinite, DirsOpen, NotOwn DEF Treelike, RootOnTop
<1>2. \A j \in OpenDirs(d) \ {i} : d.inode[j].block # b
  BY <1>1, OwnBlock
<1>3. \A j \in OpenDirs(d) \ {i} : StaysPut(d, e, j) /\ e.inode[j] = d.inode[j]
  BY <1>1, <1>2, OpenIs DEF DirGone, StaysPut
<1>4. \A c \in Blocks \ {b} : e.dir[c].dot = d.dir[c].dot
  BY DEF DirGone, LosesName
<1>5. ASSUME NEW j PROVE j \in OpenDirs(e) <=> j \in OpenDirs(d) \ {i}
  <2>1. CASE j \in OpenDirs(d) \ {i}
    <3>1. e.dir[d.inode[j].block].dot = d.dir[d.inode[j].block].dot
      BY <1>2, <1>4, <2>1, EntriesFinite
    <3> QED BY <1>3, <2>1, <3>1, OpenIs DEF StaysPut
  <2>2. CASE j \in OpenDirs(e)
    <3>1. j \in Inos /\ e.inode[j].kind = "dir" /\ e.inode[j].block \in Blocks /\ j \in e.imap /\ e.inode[j].block # b
      BY <2>2, OpenIs, EntriesFinite DEF DirGone
    <3>2. j # i
      BY <3>1 DEF DirGone
    <3>3. e.inode[j] = d.inode[j] /\ j \in d.imap
      BY <3>1, <3>2 DEF DirGone
    <3>4. e.dir[d.inode[j].block].dot = d.dir[d.inode[j].block].dot
      BY <1>4, <3>1, <3>3
    <3> QED BY <2>2, <3>2, <3>3, <3>4, OpenIs DEF DirGone
  <2> QED BY <2>1, <2>2
<1>6. OpenDirs(e) = OpenDirs(d) \ {i}
  BY <1>5
<1>7. ASSUME NEW j \in OpenDirs(e) PROVE EntriesOf(e, j) = EntriesOf(d, j) \ {x} /\ UpOf(e, j) = UpOf(d, j)
  <2>1. OpenDirs(e) \subseteq OpenDirs(d) /\ d.inode[j].block \notin {b} /\ StaysPut(d, e, j)
    BY <1>2, <1>3, <1>6
  <2>2. LosesName(d, e, x.dir, x.name, {b})
    BY DEF DirGone
  <2> HIDE DEF b
  <2> QED BY <2>1, <2>2, LosesDropped
<1>8. Dropped(d, e, x)
  BY <1>1, <1>6, <1>7 DEF Dropped
<1>9. \A j \in Files(d) : j \in Inos /\ j # i
  BY <1>1, NamedFinite, FilesIs, OpenIs
<1>10. ASSUME NEW j PROVE j \in Files(e) <=> j \in Files(d)
  <2>1. j # i => (j \in Files(e) <=> j \in Files(d))
    BY FilesIs DEF DirGone, Proper
  <2>2. i \notin Files(e)
    BY FilesIs DEF DirGone
  <2> QED BY <1>9, <2>1, <2>2
<1>11. \A j \in OpenDirs(e) : e.inode[j].links >= d.inode[j].links
  BY <1>1, <1>3, <1>6 DEF Proper, Shaped, Formed
<1> QED BY <1>6, <1>8, <1>9, <1>10, <1>11 DEF DirDropped, DirGone

-------------------------------------------------------------------------------
\* What is lost on the way from d to e.

Lost(d, e) ==
    /\ Cardinality(Dirs(d) \ Dirs(e)) <= 1
    /\ \A i \in Inos : Excess(e)[i] > Excess(d)[i] =>
            \E y \in Named(Entries(d), i) : y.dir \in Dirs(d) \ Dirs(e)

LEMMA NothingLost ==
    ASSUME NEW d, NEW e, Proper(d), Proper(e), Dirs(d) \subseteq Dirs(e),
           \A i \in Inos : Excess(e)[i] <= Excess(d)[i]
    PROVE  Lost(d, e)
<1>1. Dirs(d) \ Dirs(e) = {}
  OBVIOUS
<1>2. Cardinality(Dirs(d) \ Dirs(e)) <= 1
  BY <1>1, FS_EmptySet
<1>3. ASSUME NEW i \in Inos PROVE ~(Excess(e)[i] > Excess(d)[i])
  <2>1. Excess(e)[i] \in Int /\ Excess(d)[i] \in Int
    BY ExcessIs, NamedFinite
  <2> QED BY <2>1
<1> QED BY <1>2, <1>3 DEF Lost

LEMMA FileNamedLost ==
    ASSUME NEW d, NEW e, NEW x, x = Entry(x.dir, x.name, x.ino), Proper(d), Proper(e),
           FileNamed(d, e, x), Sound(d)
    PROVE  Lost(d, e)
<1>1. Dirs(e) = Dirs(d) /\ Entries(e) = Entries(d) \cup {x} /\ Leads(d)
  BY FileNamedSound, SoundIs
<1>2. \A i : /\ i # x.ino => Named(Entries(e), i) = Named(Entries(d), i)
             /\ Cardinality(Named(Entries(e), x.ino)) = Cardinality(Named(Entries(d), x.ino)) + 1
  <2>1. Fresh(d, x)
    BY DEF FileNamed
  <2> QED BY <1>1, <2>1, AddedNamed
<1>3. ASSUME NEW i \in Inos PROVE Excess(e)[i] <= Excess(d)[i]
  <2>1. /\ Excess(d)[i] = IF i \in Files(d) THEN d.inode[i].links - Cardinality(Named(Entries(d), i)) ELSE 0
        /\ Excess(e)[i] = IF i \in Files(e) THEN e.inode[i].links - Cardinality(Named(Entries(e), i)) ELSE 0
    BY ExcessIs
  <2>2. Cardinality(Named(Entries(d), i)) \in Nat /\ d.inode[i].links \in Int
    BY NamedFinite
  <2>3. CASE i # x.ino
    BY <1>2, <2>1, <2>2, <2>3 DEF FileNamed
  <2>4. CASE i = x.ino /\ i \in Files(d)
    BY <1>2, <2>1, <2>2, <2>4 DEF FileNamed
  <2>5. CASE i = x.ino /\ i \notin Files(d)
    <3>1. \A y \in Entries(d) : y.ino # i
      BY <1>1, <2>5, DirsOpen DEF Leads, FileNamed
    <3>2. Named(Entries(d), i) = {}
      BY <3>1 DEF Named
    <3>3. Cardinality(Named(Entries(d), i)) = 0
      BY <3>2, FS_EmptySet
    <3> QED BY <1>2, <2>1, <2>5, <3>3 DEF FileNamed
  <2> QED BY <2>3, <2>4, <2>5
<1> QED BY <1>1, <1>3, NothingLost

LEMMA DirNamedLost ==
    ASSUME NEW d, NEW e, NEW x, x = Entry(x.dir, x.name, x.ino), Proper(d), Proper(e),
           DirNamed(d, e, x), Sound(d)
    PROVE  Lost(d, e)
<1>1. Dirs(d) \subseteq Dirs(e) /\ Entries(e) = Entries(d) \cup {x}
  BY DirNamedSound
<1>2. \A i : i # x.ino => Named(Entries(e), i) = Named(Entries(d), i)
  <2>1. Fresh(d, x)
    BY DEF DirNamed
  <2> QED BY <1>1, <2>1, AddedNamed
<1>3. ASSUME NEW i \in Inos PROVE Excess(e)[i] <= Excess(d)[i]
  <2>1. /\ Excess(d)[i] = IF i \in Files(d) THEN d.inode[i].links - Cardinality(Named(Entries(d), i)) ELSE 0
        /\ Excess(e)[i] = IF i \in Files(e) THEN e.inode[i].links - Cardinality(Named(Entries(e), i)) ELSE 0
    BY ExcessIs
  <2>2. Cardinality(Named(Entries(d), i)) \in Nat /\ d.inode[i].links \in Int
    BY NamedFinite
  <2>3. i \in Files(d) => i # x.ino
    BY DEF DirNamed
  <2> QED BY <1>2, <2>1, <2>2, <2>3 DEF DirNamed
<1> QED BY <1>1, <1>3, NothingLost

LEMMA FileDroppedLost ==
    ASSUME NEW d, NEW e, NEW x, Proper(d), Proper(e), FileDropped(d, e, x), Sound(d)
    PROVE  Lost(d, e)
BY FileDroppedSound, NothingLost

\* A directory with two links has none below it.
LEMMA DirDroppedLost ==
    ASSUME NEW d, NEW e, NEW x, Proper(d), Proper(e), DirDropped(d, e, x), Sound(d), LinksEnough(d),
           d.inode[x.ino].links <= 2
    PROVE  Lost(d, e)
<1> DEFINE i == x.ino
<1>1. Leads(d) /\ Linked(d) /\ Treelike(d)
  BY SoundIs
<1>2. Dropped(d, e, x) /\ x \in Entries(d) /\ i \in Dirs(d) /\ i \in OpenDirs(d) /\ OpenDirs(e) = OpenDirs(d) \ {i}
  BY DirsOpen DEF DirDropped, Dropped
<1>3. /\ Dirs(e) \subseteq Dirs(d) \ {i}
      /\ \A y : y \in Entries(e) <=> y \in Entries(d) /\ y # x /\ y.dir \in Dirs(e)
  BY DirDroppedSound
<1>4. Subdirs(d, i) = {}
  <2> DEFINE D == Subdirs(d, i)
  <2>1. IsFiniteSet(D) /\ Cardinality(D) \in Nat /\ d.inode[i].links \in Int
    BY <1>2, SubdirsFinite
  <2>2. d.inode[i].links >= 2 + Cardinality(D)
    BY <1>2, LinksIs
  <2>3. Cardinality(D) = 0
    <3> HIDE DEF D, i
    <3> QED BY <2>1, <2>2 DEF i
  <2> HIDE DEF D
  <2>4. D = {}
    BY <2>1, <2>3, FS_EmptySet
  <2> QED BY <2>4 DEF D
<1>5. Dirs(d) \subseteq Dirs(e) \cup {i}
  <2> DEFINE S == Dirs(e) \cup {i}
  <2>1. ASSUME NEW j \in S, NEW y \in EntriesOf(d, j), y.ino \in OpenDirs(d) PROVE y.ino \in S
    <3>1. CASE j = i
      <4>1. y.ino \in Dirs(d)
        BY <1>2, <2>1, <3>1, DirsOpen DEF Covers
      <4> QED BY <1>4, <3>1, <4>1 DEF Subdirs
    <3>2. CASE j # i /\ y.ino # i
      <4>1. j \in OpenDirs(e) /\ y # x /\ y.ino \in OpenDirs(e)
        BY <1>2, <2>1, <3>2, DirsOpen
      <4>2. y \in EntriesOf(e, j)
        BY <1>2, <4>1 DEF Dropped
      <4> QED BY <3>2, <4>1, <4>2, DirsOpen DEF Covers
    <3> QED BY <3>1, <3>2
  <2>2. ROOT \in S
    BY <1>2, DirsOpen DEF Dropped
  <2> HIDE DEF S
  <2>3. Dirs(d) \subseteq S
    BY <2>1, <2>2, DirsLeast DEF Covers
  <2> QED BY <2>3 DEF S
<1>6. Dirs(d) \ Dirs(e) = {i}
  BY <1>2, <1>3, <1>5
<1>7. Cardinality(Dirs(d) \ Dirs(e)) <= 1
  <2>1. Cardinality({i}) = 1
    <3> HIDE DEF i
    <3> QED BY FS_Singleton
  <2> HIDE DEF i
  <2> QED BY <1>6, <2>1
<1>8. ASSUME NEW j \in Inos, Excess(e)[j] > Excess(d)[j]
      PROVE  \E y \in Named(Entries(d), j) : y.dir \in Dirs(d) \ Dirs(e)
  <2>1. SUFFICES ASSUME \A y \in Named(Entries(d), j) : y.dir \in Dirs(e) PROVE FALSE
    BY EntriesIs DEF Named
  <2>2. /\ Excess(d)[j] = IF j \in Files(d) THEN d.inode[j].links - Cardinality(Named(Entries(d), j)) ELSE 0
        /\ Excess(e)[j] = IF j \in Files(e) THEN e.inode[j].links - Cardinality(Named(Entries(e), j)) ELSE 0
    BY ExcessIs
  <2>3. j \in Files(d) /\ Files(e) = Files(d) /\ e.inode[j].links = d.inode[j].links
    BY <1>8, <2>2 DEF DirDropped
  <2>4. j # i
    BY <1>2, <2>3, FilesIs, OpenIs
  <2>5. Named(Entries(e), j) = Named(Entries(d), j)
    BY <1>3, <2>1, <2>4 DEF Named
  <2>6. Excess(e)[j] = Excess(d)[j] /\ Excess(d)[j] \in Int
    BY <2>2, <2>3, <2>5, NamedFinite
  <2> QED BY <1>8, <2>6
<1> QED BY <1>7, <1>8 DEF Lost

-------------------------------------------------------------------------------
\* What the operations leave of an image that can be gone on with.

\* An inode that is not a file may have a block, and there are no more blocks than that.
Holders(imap, inode) == {i \in imap : inode[i].kind # "reg"}
Room(d, inode) == Cardinality(d.bmap) <= Cardinality(Holders(d.imap, inode))
Roomy(d, inode) == Cardinality(d.bmap) < Cardinality(Holders(d.imap, inode))

\* What the disk has of an inode is of no other kind, and has no other block.
Follows(x, y) == x.kind = "none" \/ (x.kind = y.kind /\ x.block = y.block)
Behind(s) == \A i \in Inos : Follows(s.disk.inode[i], s.core.inode[i])

\* An INODE that nothing refers to has gone to the disk.
CleanAt(s, i) == s.core.ref[i] <= 0 => s.disk.inode[i] = s.core.inode[i]

\* A state of a command that a crash may follow, and one a command may end in.
Crashable(s) ==
    /\ Fit(s) /\ Shaped(s.disk.inode) /\ Shaped(s.core.inode) /\ Blocked(s.disk)
    /\ Behind(s) /\ Room(s.disk, s.core.inode)
Settled(s) == Crashable(s) /\ Sound(Seen(s)) /\ \A i \in Inos : CleanAt(s, i)

\* Nothing but references and what has gone to the disk has changed.
Quiet(s, t) ==
    /\ t.up = s.up /\ t.core.inode = s.core.inode /\ t.disk.inodes = s.disk.inodes
    /\ t.disk.imap = s.disk.imap /\ t.disk.bmap = s.disk.bmap /\ t.disk.dir = s.disk.dir
    /\ \A j \in Inos : /\ t.disk.inode[j] \in {s.disk.inode[j], s.core.inode[j]}
                       /\ CleanAt(s, j) => CleanAt(t, j)

LEMMA SeenIs ==
    ASSUME NEW s, Fit(s)
    PROVE  /\ Seen(s).imap = s.disk.imap /\ Seen(s).bmap = s.disk.bmap /\ Seen(s).dir = s.disk.dir
           /\ Seen(s).inode = s.core.inode
           /\ Seen(s) = [imap |-> s.disk.imap, bmap |-> s.disk.bmap, inode |-> s.core.inode,
                         dir |-> s.disk.dir, inodes |-> s.disk.inodes]
BY DEF Seen, Fit, DiskFit

LEMMA SeenProper ==
    ASSUME NEW s, Crashable(s)
    PROVE  Proper(Seen(s)) /\ Proper(s.disk)
BY SeenIs DEF Crashable, Proper, Blocked, Fit, DiskFit, CoreFit

LEMMA QuietOn ==
    ASSUME NEW s, NEW t, NEW x, Quiet(s, t), Quiet(t, x)
    PROVE  Quiet(s, x)
<1>1. ASSUME NEW j \in Inos
      PROVE  /\ x.disk.inode[j] \in {s.disk.inode[j], s.core.inode[j]}
             /\ CleanAt(s, j) => CleanAt(x, j)
  BY DEF Quiet
<1> QED BY <1>1 DEF Quiet

LEMMA QuietCrashable ==
    ASSUME NEW s, NEW t, Crashable(s), Fit(t), Quiet(s, t)
    PROVE  Crashable(t) /\ Seen(t) = Seen(s)
<1>1. Seen(t) = Seen(s)
  BY SeenIs DEF Quiet, Crashable
<1>2. Shaped(t.disk.inode) /\ Behind(t)
  <2>1. DOMAIN t.disk.inode = Inos
    BY DEF Fit, DiskFit, Taken
  <2> QED BY <2>1 DEF Follows, Crashable, Shaped, Behind, Quiet
<1>3. Blocked(t.disk) /\ Room(t.disk, t.core.inode) /\ Shaped(t.core.inode)
  BY DEF Crashable, Quiet, Blocked, Room
<1> QED BY <1>1, <1>2, <1>3 DEF Crashable

LEMMA QuietSettled ==
    ASSUME NEW s, NEW t, Settled(s), Fit(t), Quiet(s, t)
    PROVE  Settled(t) /\ Seen(t) = Seen(s)
BY QuietCrashable DEF Settled, Quiet

LEMMA IgetQuiet ==
    ASSUME NEW s, NEW i, Fit(s)
    PROVE  Fit(iget(s, i)) /\ Quiet(s, iget(s, i))
<1> DEFINE t == iget(s, i)
<1>1. Fit(t) /\ \A j \in Inos : t.core.ref[j] = s.core.ref[j] + Ref(i, j)
  BY IgetKeeps
<1>2. t.disk = s.disk /\ t.up = s.up /\ t.core.inode = s.core.inode
  BY DEF iget, Fit, CoreFit
<1> HIDE DEF t
<1>3. ASSUME NEW j \in Inos PROVE CleanAt(s, j) => CleanAt(t, j)
  <2>1. s.core.ref[j] \in Int /\ Ref(i, j) \in {0, 1}
    BY RefType DEF Fit, CoreFit
  <2> QED BY <1>1, <1>2, <2>1 DEF CleanAt
<1>4. Quiet(s, t)
  BY <1>2, <1>3 DEF Quiet
<1> QED BY <1>1, <1>4 DEF t

LEMMA IputQuiet ==
    ASSUME NEW s, NEW i, Fit(s)
    PROVE  /\ Fit(iput(s, i)) /\ Quiet(s, iput(s, i))
           /\ i \in Inos => CleanAt(iput(s, i), i)
<1> DEFINE x == iput(s, i)
<1>1. Fit(x) /\ \A j \in Inos : x.core.ref[j] = s.core.ref[j] - Ref(i, j)
  BY IputKeeps
<1>2. CASE i = 0
  <2>1. x = s /\ i \notin Inos
    <3>1. x = s
      BY <1>2, Zenon DEF iput
    <3>2. 0 \notin Inos
      BY FileSystemAssumption DEF Inos, ROOT
    <3> QED BY <1>2, <3>1, <3>2
  <2>2. Quiet(s, s)
    BY DEF Quiet
  <2> QED BY <1>1, <2>1, <2>2
<1>3. CASE i # 0
  <2> DEFINE t == [s EXCEPT !.core.ref[i] = s.core.ref[i] - 1]
  <2>1. t.disk = s.disk /\ t.up = s.up /\ t.core.inode = s.core.inode /\ DOMAIN t = DOMAIN s
    BY DEF Fit, CoreFit
  <2>2. x = IF t.core.ref[i] > 0 THEN t ELSE WriteInode(t, i)
    BY <1>3, Zenon DEF iput
  <2> HIDE DEF t, x
  <2> DEFINE w == WriteInode(t, i)
  <2>3. /\ w.core = t.core /\ w.up = s.up
        /\ w.disk.imap = s.disk.imap /\ w.disk.bmap = s.disk.bmap /\ w.disk.dir = s.disk.dir
        /\ w.disk.inodes = s.disk.inodes
        /\ w.disk.inode = [s.disk.inode EXCEPT ![i] = s.core.inode[i]]
    <3> DEFINE v == t.core.inode[i]
    <3>1. w = [t EXCEPT !.disk.inode[i] = v]
      BY DEF WriteInode
    <3> HIDE DEF v, w
    <3>2. /\ w.core = t.core /\ w.up = t.up
          /\ w.disk = [t.disk EXCEPT !.inode = [t.disk.inode EXCEPT ![i] = v]]
      BY <2>1, <3>1 DEF Fit
    <3>3. v = s.core.inode[i]
      BY <2>1 DEF v
    <3> QED BY <2>1, <3>2, <3>3 DEF Fit, DiskFit
  <2> HIDE DEF w
  <2>4. \A j \in Inos : w.disk.inode[j] = IF j = i THEN s.core.inode[j] ELSE s.disk.inode[j]
    BY <2>3 DEF Fit, DiskFit, Taken
  <2>5. x = t \/ x = w
    BY <2>2 DEF w
  <2>6. \A j \in Inos : x.disk.inode[j] \in {s.disk.inode[j], s.core.inode[j]}
    BY <2>1, <2>4, <2>5
  <2>7. /\ x.up = s.up /\ x.core.inode = s.core.inode /\ x.disk.inodes = s.disk.inodes
        /\ x.disk.imap = s.disk.imap /\ x.disk.bmap = s.disk.bmap /\ x.disk.dir = s.disk.dir
    BY <2>1, <2>3, <2>5
  <2>8. i \in Inos => CleanAt(x, i)
    <3>1. CASE t.core.ref[i] > 0
      <4>1. x = t
        BY <2>2, <3>1
      <4> QED BY <1>1, <3>1, <4>1 DEF CleanAt, Fit, CoreFit
    <3>2. CASE ~(t.core.ref[i] > 0)
      <4>1. x = w
        BY <2>2, <3>2 DEF w
      <4> QED BY <2>1, <2>3, <2>4, <4>1 DEF CleanAt
    <3> QED BY <3>1, <3>2
  <2>9. ASSUME NEW j \in Inos, j # i PROVE CleanAt(s, j) => CleanAt(x, j)
    <3>1. x.core.ref[j] = s.core.ref[j]
      BY <1>1, <2>9 DEF Ref, Fit, CoreFit
    <3>2. x.disk.inode[j] = s.disk.inode[j]
      BY <2>1, <2>4, <2>5, <2>9
    <3> QED BY <2>7, <3>1, <3>2 DEF CleanAt
  <2>10. Quiet(s, x)
    BY <2>6, <2>7, <2>8, <2>9 DEF Quiet
  <2> QED BY <1>1, <2>8, <2>10 DEF x
<1> QED BY <1>2, <1>3

\* What a writing operation makes: the bits M and B, the blocks D, and the INODEs X on the
\* disk and Y in memory.
Turns(s, t, M, B, D, X, Y) ==
    /\ DOMAIN t = DOMAIN s /\ DOMAIN t.disk = DOMAIN s.disk /\ DOMAIN t.core = DOMAIN s.core
    /\ t.up = s.up /\ t.core.ref = s.core.ref
    /\ t.disk.imap = M /\ t.disk.bmap = B /\ t.disk.dir = D
    /\ t.disk.inode = X /\ t.core.inode = Y

\* Blocks of directories, all in order.
Listing(D) == DOMAIN D = Blocks /\ \A b \in Blocks : Listed(D[b])

LEMMA TurnsCrashable ==
    ASSUME NEW s, NEW t, NEW M, NEW B, NEW D, NEW X, NEW Y, Crashable(s),
           Turns(s, t, M, B, D, X, Y),
           M \subseteq Inos, Taken(X, M), Taken(Y, M), Shaped(X), Shaped(Y), B \subseteq Blocks, Listing(D),
           \A i \in Inos : Follows(X[i], Y[i]),
           Cardinality(B) <= Cardinality(Holders(M, Y))
    PROVE  Crashable(t)
<1>1. Fit(t)
  BY DEF Turns, Crashable, Fit, DiskFit, CoreFit
<1>2. Blocked(t.disk) /\ Behind(t) /\ Room(t.disk, t.core.inode)
  BY DEF Turns, Blocked, Listing, Behind, Room
<1> QED BY <1>1, <1>2 DEF Crashable, Turns

LEMMA CrashableIs ==
    ASSUME NEW s, Crashable(s)
    PROVE  /\ s.disk.imap \subseteq Inos /\ Taken(s.disk.inode, s.disk.imap) /\ Taken(s.core.inode, s.disk.imap)
           /\ Shaped(s.disk.inode) /\ Shaped(s.core.inode) /\ s.disk.bmap \subseteq Blocks /\ Listing(s.disk.dir)
           /\ \A i \in Inos : Follows(s.disk.inode[i], s.core.inode[i])
           /\ Cardinality(s.disk.bmap) <= Cardinality(Holders(s.disk.imap, s.core.inode))
           /\ IsFiniteSet(s.disk.bmap) /\ IsFiniteSet(Holders(s.disk.imap, s.core.inode))
           /\ Cardinality(s.disk.bmap) \in Nat /\ Cardinality(Holders(s.disk.imap, s.core.inode)) \in Nat
<1>1. s.disk.imap \subseteq Inos /\ s.disk.bmap \subseteq Blocks
  BY DEF Crashable, Fit, DiskFit, Blocked
<1>2. IsFiniteSet(s.disk.bmap)
  <2>1. Blocks = Inos
    BY DEF Blocks, Inos
  <2> QED BY <1>1, <2>1, InosFinite, FS_Subset
<1>3. IsFiniteSet(Holders(s.disk.imap, s.core.inode))
  <2>1. Holders(s.disk.imap, s.core.inode) \subseteq Inos
    BY <1>1 DEF Holders
  <2> QED BY <2>1, InosFinite, FS_Subset
<1>4. Cardinality(s.disk.bmap) \in Nat /\ Cardinality(Holders(s.disk.imap, s.core.inode)) \in Nat
  BY <1>2, <1>3, FS_CardinalityType
<1> QED BY <1>1, <1>2, <1>3, <1>4 DEF Crashable, Fit, DiskFit, CoreFit, Blocked, Listing, Behind, Room

LEMMA ShapedOn ==
    ASSUME NEW X, Shaped(X), NEW i, NEW x, Formed(x)
    PROVE  Shaped([X EXCEPT ![i] = x])
<1>1. \A j \in Inos : [X EXCEPT ![i] = x][j] = IF j = i THEN x ELSE X[j]
  BY DEF Shaped
<1> QED BY <1>1 DEF Shaped

LEMMA TakenOn ==
    ASSUME NEW X, NEW M, Taken(X, M), NEW N, NEW i, M \subseteq N \cup {i}, NEW x, Formed(x), i \in N \/ x.kind = "none"
    PROVE  Taken([X EXCEPT ![i] = x], N)
<1>1. \A j \in Inos : [X EXCEPT ![i] = x][j] = IF j = i THEN x ELSE X[j]
  BY DEF Taken
<1> QED BY <1>1 DEF Taken, Formed

LEMMA TakenMore ==
    ASSUME NEW X, NEW M, Taken(X, M), NEW N, M \subseteq N
    PROVE  Taken(X, N)
BY DEF Taken

LEMMA ListingOn ==
    ASSUME NEW D, Listing(D), NEW b, NEW x, Listed(x)
    PROVE  Listing([D EXCEPT ![b] = x])
<1>1. \A j \in Blocks : [D EXCEPT ![b] = x][j] = IF j = b THEN x ELSE D[j]
  BY DEF Listing
<1> QED BY <1>1 DEF Listing

LEMMA NewForms ==
    /\ \A u : Formed(File(u)) /\ File(u).kind = "reg" /\ File(u).links = 1
    /\ \A u, b : /\ Formed(Directory(u, b)) /\ Directory(u, b).kind = "dir"
                 /\ Directory(u, b).links = 2 /\ Directory(u, b).block = b
    /\ Formed(NoInode) /\ NoInode.kind = "none"
    /\ \A i, j : /\ Listed(Dir(i, j)) /\ Dir(i, j).dot = i /\ Dir(i, j).up = j /\ Dir(i, j).list = {}
BY FS_EmptySet DEF Formed, File, Directory, NoInode, Listed, Dir

\* A set with or without one element, of two that are counted.
LEMMA HoldersSame ==
    ASSUME NEW M, NEW X, NEW Y, \A j \in M : X[j].kind = "reg" <=> Y[j].kind = "reg"
    PROVE  Holders(M, Y) = Holders(M, X)
BY DEF Holders

\* ialloc has found the inode i.
LEMMA TakeInodeCrashable ==
    ASSUME NEW s, Crashable(s), NEW i \in Inos \ s.disk.imap, NEW t, t = TakeInode(s, i)
    PROVE  /\ Crashable(t) /\ Roomy(t.disk, t.core.inode)
           /\ Turns(s, t, s.disk.imap \cup {i}, s.disk.bmap, s.disk.dir, s.disk.inode, s.core.inode)
<1> DEFINE k == Count(s, -1)
           M == s.disk.imap \cup {i}
           h == Holders(s.disk.imap, s.core.inode)
<1>0. Fit(s)
  BY DEF Crashable
<1>1. /\ k.up = s.up /\ DOMAIN k = DOMAIN s
      /\ DOMAIN k.disk = DOMAIN s.disk /\ DOMAIN k.core = DOMAIN s.core
      /\ k.disk.imap = s.disk.imap /\ k.disk.inode = s.disk.inode
      /\ k.core.inode = s.core.inode /\ k.core.ref = s.core.ref
  BY <1>0, CountEffect
<1>2. k.disk.bmap = s.disk.bmap /\ k.disk.dir = s.disk.dir
  BY <1>0 DEF Count, Fit, DiskFit
<1>3. t = [k EXCEPT !.disk.imap = k.disk.imap \cup {i}]
  BY DEF TakeInode
<1> HIDE DEF k
<1>4. Turns(s, t, M, s.disk.bmap, s.disk.dir, s.disk.inode, s.core.inode)
  BY <1>0, <1>1, <1>2, <1>3 DEF Fit, DiskFit, Turns
<1>5. Taken(s.disk.inode, M) /\ Taken(s.core.inode, M) /\ M \subseteq Inos
  BY CrashableIs, TakenMore
<1>6. Cardinality(s.disk.bmap) < Cardinality(Holders(M, s.core.inode))
  <2>1. Holders(M, s.core.inode) = h \cup {i}
    BY <1>0 DEF Holders, Fit, CoreFit, Taken
  <2>2. i \notin h
    BY DEF Holders
  <2> HIDE DEF h, M
  <2>3. IsFiniteSet(h) /\ Cardinality(h) \in Nat /\ Cardinality(s.disk.bmap) \in Nat /\ Cardinality(s.disk.bmap) <= Cardinality(h)
    BY CrashableIs DEF h
  <2>4. Cardinality(h \cup {i}) = Cardinality(h) + 1
    BY <2>2, <2>3, FS_AddElement
  <2> QED BY <2>1, <2>3, <2>4
<1>7. Cardinality(s.disk.bmap) <= Cardinality(Holders(M, s.core.inode))
  <2>1. IsFiniteSet(Holders(M, s.core.inode))
    <3>1. Holders(M, s.core.inode) \subseteq Inos
      BY <1>5 DEF Holders
    <3> QED BY <3>1, InosFinite, FS_Subset
  <2>2. Cardinality(Holders(M, s.core.inode)) \in Nat /\ Cardinality(s.disk.bmap) \in Nat
    BY <2>1, CrashableIs, FS_CardinalityType
  <2> QED BY <1>6, <2>2
<1> HIDE DEF M
<1>8. Crashable(t)
  BY <1>4, <1>5, <1>7, CrashableIs, TurnsCrashable
<1>9. Roomy(t.disk, t.core.inode)
  BY <1>4, <1>6 DEF Roomy, Turns
<1> QED BY <1>4, <1>8, <1>9 DEF M

LEMMA TakeBlockCrashable ==
    ASSUME NEW s, Crashable(s), Roomy(s.disk, s.core.inode), NEW b \in Blocks \ s.disk.bmap,
           NEW t, t = TakeBlock(s, b)
    PROVE  /\ Crashable(t)
           /\ Turns(s, t, s.disk.imap, s.disk.bmap \cup {b}, s.disk.dir, s.disk.inode, s.core.inode)
<1> DEFINE B == s.disk.bmap \cup {b}
<1>1. Turns(s, t, s.disk.imap, B, s.disk.dir, s.disk.inode, s.core.inode)
  BY DEF Crashable, Fit, DiskFit, Turns, TakeBlock
<1>2. B \subseteq Blocks
  BY CrashableIs
<1>3. Cardinality(B) <= Cardinality(Holders(s.disk.imap, s.core.inode))
  <2>1. Cardinality(B) = Cardinality(s.disk.bmap) + 1
    BY CrashableIs, FS_AddElement
  <2> QED BY <2>1, CrashableIs DEF Roomy
<1> HIDE DEF B
<1>4. Crashable(t)
  BY <1>1, <1>2, <1>3, CrashableIs, TurnsCrashable
<1> QED BY <1>1, <1>4 DEF B

\* balloc finds a block as long as there is an inode more than there are blocks.
LEMMA BallocFree ==
    ASSUME NEW s, Crashable(s), ialloc(s) # 0
    PROVE  balloc(s) \in Blocks \ s.disk.bmap
<1> DEFINE S == Blocks \ s.disk.bmap
           h == Holders(s.disk.imap, s.core.inode)
<1>1. Blocks = Inos
  BY DEF Blocks, Inos
<1>2. s.disk.imap \subseteq Inos /\ s.disk.imap # Inos
  BY CrashableIs DEF ialloc
<1>3. Cardinality(h) < Cardinality(Inos)
  <2>1. h \subseteq Inos /\ h # Inos
    BY <1>2 DEF Holders
  <2> HIDE DEF h
  <2>2. Cardinality(h) <= Cardinality(Inos) /\ (Cardinality(h) = Cardinality(Inos) => h = Inos)
    BY <2>1, InosFinite, FS_Subset
  <2>3. Cardinality(h) \in Nat /\ Cardinality(Inos) \in Nat
    BY <2>1, InosFinite, FS_Subset, FS_CardinalityType
  <2> QED BY <2>1, <2>2, <2>3
<1>4. S # {}
  <2> SUFFICES ASSUME S = {} PROVE FALSE
    OBVIOUS
  <2>1. s.disk.bmap = Inos
    BY <1>1, CrashableIs
  <2>2. Cardinality(s.disk.bmap) <= Cardinality(h) /\ Cardinality(s.disk.bmap) \in Nat /\ Cardinality(h) \in Nat
    BY CrashableIs
  <2> HIDE DEF h
  <2> QED BY <1>3, <2>1, <2>2
<1>5. S \in SUBSET Nat
  BY <1>1, InosFinite
<1> HIDE DEF S
<1>6. \E x \in S : \A y \in S : x <= y
  BY <1>4, <1>5, LeastNat
<1>7. Least(S) \in S
  BY <1>6 DEF Least
<1> QED BY <1>7 DEF S, balloc

\* The new INODE of a file.
LEMMA FileCrashable ==
    ASSUME NEW s, Crashable(s), Roomy(s.disk, s.core.inode), NEW i \in s.disk.imap,
           s.core.inode[i].kind = "none", s.disk.inode[i].kind = "none",
           NEW u, NEW t, t = [s EXCEPT !.core.inode[i] = File(u)]
    PROVE  /\ Crashable(t)
           /\ Turns(s, t, s.disk.imap, s.disk.bmap, s.disk.dir, s.disk.inode, [s.core.inode EXCEPT ![i] = File(u)])
<1> DEFINE Y == [s.core.inode EXCEPT ![i] = File(u)]
           h == Holders(s.disk.imap, s.core.inode)
           f == File(u)
<1>1. Turns(s, t, s.disk.imap, s.disk.bmap, s.disk.dir, s.disk.inode, Y)
  <2>1. t = [s EXCEPT !.core.inode[i] = f]
    OBVIOUS
  <2> HIDE DEF f
  <2>2. Turns(s, t, s.disk.imap, s.disk.bmap, s.disk.dir, s.disk.inode, [s.core.inode EXCEPT ![i] = f])
    BY <2>1 DEF Crashable, Fit, CoreFit, Turns
  <2> QED BY <2>2 DEF f
<1>2. i \in Inos
  BY CrashableIs
<1> HIDE DEF f
<1>3. Formed(f) /\ f.kind = "reg"
  BY NewForms DEF f
<1>4. Shaped(Y) /\ Taken(Y, s.disk.imap)
  BY <1>3, CrashableIs, ShapedOn, TakenOn DEF f
<1>5. \A j \in Inos : Y[j] = IF j = i THEN f ELSE s.core.inode[j]
  BY CrashableIs DEF Shaped, f
<1> HIDE DEF Y
<1>6. \A j \in Inos : Follows(s.disk.inode[j], Y[j])
  BY <1>5, CrashableIs DEF Follows
<1>7. Cardinality(s.disk.bmap) <= Cardinality(Holders(s.disk.imap, Y))
  <2>1. Holders(s.disk.imap, Y) = h \ {i} /\ i \in h
    BY <1>3, <1>5, CrashableIs DEF Holders
  <2> HIDE DEF h
  <2>2. IsFiniteSet(h) /\ Cardinality(h) \in Nat /\ Cardinality(s.disk.bmap) \in Nat /\ Cardinality(s.disk.bmap) < Cardinality(h)
    BY CrashableIs DEF h, Roomy
  <2>3. Cardinality(h \ {i}) = Cardinality(h) - 1
    BY <2>1, <2>2, FS_RemoveElement
  <2> QED BY <2>1, <2>2, <2>3
<1>8. Crashable(t)
  BY <1>1, <1>4, <1>6, <1>7, CrashableIs, TurnsCrashable
<1> QED BY <1>1, <1>8 DEF Y

\* The new INODE of a directory, and its block.
LEMMA DirectoryCrashable ==
    ASSUME NEW s, Crashable(s), NEW i \in s.disk.imap,
           s.core.inode[i].kind = "none", s.disk.inode[i].kind = "none",
           NEW u, NEW b, NEW d, NEW t,
           t = [s EXCEPT !.core.inode[i] = Directory(u, b), !.disk.dir[b] = Dir(i, d)]
    PROVE  /\ Crashable(t)
           /\ Turns(s, t, s.disk.imap, s.disk.bmap, [s.disk.dir EXCEPT ![b] = Dir(i, d)], s.disk.inode,
                    [s.core.inode EXCEPT ![i] = Directory(u, b)])
<1> DEFINE f == Directory(u, b)
           g == Dir(i, d)
           Y == [s.core.inode EXCEPT ![i] = f]
           D == [s.disk.dir EXCEPT ![b] = g]
<1>1. Turns(s, t, s.disk.imap, s.disk.bmap, D, s.disk.inode, Y)
  <2>1. t = [s EXCEPT !.core.inode[i] = f, !.disk.dir[b] = g]
    OBVIOUS
  <2> HIDE DEF f, g
  <2>2. Fit(s)
    BY DEF Crashable
  <2>3. /\ t.core = [s.core EXCEPT !.inode = Y] /\ t.disk = [s.disk EXCEPT !.dir = D]
        /\ t.up = s.up /\ DOMAIN t = DOMAIN s
    BY <2>1, <2>2 DEF Fit
  <2> HIDE DEF Y, D
  <2> QED BY <2>2, <2>3 DEF Fit, CoreFit, DiskFit, Turns
<1>2. i \in Inos
  BY CrashableIs
<1> HIDE DEF f, g
<1>3. Formed(f) /\ f.kind = "dir" /\ Listed(g)
  BY NewForms DEF f, g
<1>4. Shaped(Y) /\ Taken(Y, s.disk.imap) /\ Listing(D)
  BY <1>3, CrashableIs, ShapedOn, TakenOn, ListingOn
<1>5. \A j \in Inos : Y[j] = IF j = i THEN f ELSE s.core.inode[j]
  BY CrashableIs DEF Shaped
<1> HIDE DEF Y, D
<1>6. \A j \in Inos : Follows(s.disk.inode[j], Y[j])
  BY <1>5, CrashableIs DEF Follows
<1>7. Holders(s.disk.imap, Y) = Holders(s.disk.imap, s.core.inode)
  BY <1>3, <1>5, CrashableIs, HoldersSame
<1>8. Crashable(t)
  BY <1>1, <1>4, <1>6, <1>7, CrashableIs, TurnsCrashable
<1> QED BY <1>1, <1>8 DEF Y, D, f, g

LEMMA AddLinksCrashable ==
    ASSUME NEW s, Crashable(s), NEW i \in Inos, NEW n \in Int, NEW t, t = AddLinks(s, i, n)
    PROVE  /\ Crashable(t)
           /\ Turns(s, t, s.disk.imap, s.disk.bmap, s.disk.dir, s.disk.inode,
                    [s.core.inode EXCEPT ![i] = [s.core.inode[i] EXCEPT !.links = s.core.inode[i].links + n]])
<1> DEFINE f == [s.core.inode[i] EXCEPT !.links = s.core.inode[i].links + n]
           Y == [s.core.inode EXCEPT ![i] = f]
<1>1. Turns(s, t, s.disk.imap, s.disk.bmap, s.disk.dir, s.disk.inode, Y)
  BY DEF AddLinks, Crashable, Fit, CoreFit, Turns
<1>2. Formed(f) /\ f.kind = s.core.inode[i].kind /\ f.block = s.core.inode[i].block
  BY CrashableIs DEF Shaped, Formed
<1> HIDE DEF f
<1>3. \A j \in Inos : Y[j] = IF j = i THEN f ELSE s.core.inode[j]
  BY CrashableIs DEF Shaped
<1>4. Shaped(Y)
  BY <1>2, CrashableIs, ShapedOn
<1> HIDE DEF Y
<1>5. Taken(Y, s.disk.imap)
  BY <1>2, <1>3, <1>4, CrashableIs DEF Taken, Shaped, Formed
<1>6. \A j \in Inos : Follows(s.disk.inode[j], Y[j])
  BY <1>2, <1>3, CrashableIs DEF Follows
<1>7. Holders(s.disk.imap, Y) = Holders(s.disk.imap, s.core.inode)
  BY <1>2, <1>3, CrashableIs, HoldersSame
<1>8. Crashable(t)
  BY <1>1, <1>4, <1>5, <1>6, <1>7, CrashableIs, TurnsCrashable
<1> QED BY <1>1, <1>8 DEF Y, f

\* The block k comes to have the entries L.
Relisted(D, k, L) == [D EXCEPT ![k] = [D[k] EXCEPT !.list = L]]

LEMMA RelistedListing ==
    ASSUME NEW D, Listing(D), NEW k \in Blocks, NEW L, IsFiniteSet(L),
           \A r \in L : r.ino # 0 /\ Plain(r.name)
    PROVE  Listing(Relisted(D, k, L))
<1> DEFINE x == [D[k] EXCEPT !.list = L]
<1>1. Listed(x)
  BY DEF Listing, Listed
<1> HIDE DEF x
<1>2. Listing([D EXCEPT ![k] = x])
  BY <1>1, ListingOn
<1> QED BY <1>2 DEF x, Relisted

LEMMA RelistedCrashable ==
    ASSUME NEW s, Crashable(s), NEW k \in Blocks, NEW L, IsFiniteSet(L),
           \A r \in L : r.ino # 0 /\ Plain(r.name),
           NEW t, t = [s EXCEPT !.disk.dir[k].list = L]
    PROVE  /\ Crashable(t)
           /\ Turns(s, t, s.disk.imap, s.disk.bmap, Relisted(s.disk.dir, k, L), s.disk.inode, s.core.inode)
<1> DEFINE D == Relisted(s.disk.dir, k, L)
<1>0. Fit(s)
  BY DEF Crashable
<1>1. /\ t.disk = [s.disk EXCEPT !.dir = D] /\ t.core = s.core /\ t.up = s.up /\ DOMAIN t = DOMAIN s
  BY <1>0 DEF Fit, Relisted
<1> HIDE DEF D
<1>2. Turns(s, t, s.disk.imap, s.disk.bmap, D, s.disk.inode, s.core.inode)
  BY <1>0, <1>1 DEF Fit, DiskFit, Turns
<1>3. Listing(D)
  BY CrashableIs, RelistedListing DEF D
<1>4. Crashable(t)
  BY <1>2, <1>3, CrashableIs, TurnsCrashable
<1> QED BY <1>2, <1>4 DEF D

LEMMA EnterNameCrashable ==
    ASSUME NEW s, Crashable(s), NEW d, s.core.inode[d].block \in Blocks, NEW i, i # 0, NEW n,
           Plain(n),
           NEW t, t = enter_name(s, d, i, n)
    PROVE  /\ Crashable(t)
           /\ Turns(s, t, s.disk.imap, s.disk.bmap,
                    Relisted(s.disk.dir, s.core.inode[d].block,
                             s.disk.dir[s.core.inode[d].block].list \cup {Rec(n, i)}),
                    s.disk.inode, s.core.inode)
<1> DEFINE k == s.core.inode[d].block
           L == s.disk.dir[k].list \cup {Rec(n, i)}
<1>1. t = [s EXCEPT !.disk.dir[k].list = L]
  BY DEF enter_name
<1>2. IsFiniteSet(s.disk.dir[k].list) /\ \A r \in s.disk.dir[k].list : r.ino # 0 /\ Plain(r.name)
  BY CrashableIs DEF Listing, Listed
<1>3. Rec(n, i).ino # 0 /\ Plain(Rec(n, i).name)
  BY DEF Rec
<1>4. IsFiniteSet(L)
  BY <1>2, FS_AddElement
<1>5. \A r \in L : r.ino # 0 /\ Plain(r.name)
  BY <1>2, <1>3
<1> HIDE DEF k, L
<1>6. k \in Blocks
  BY DEF k
<1>7. /\ Crashable(t)
      /\ Turns(s, t, s.disk.imap, s.disk.bmap, Relisted(s.disk.dir, k, L), s.disk.inode, s.core.inode)
  BY <1>1, <1>4, <1>5, <1>6, RelistedCrashable
<1> QED BY <1>7 DEF k, L

LEMMA RemoveChildCrashable ==
    ASSUME NEW s, Crashable(s), NEW d, s.core.inode[d].block \in Blocks, NEW n,
           NEW t, t = removeChild(s, d, n)
    PROVE  /\ Crashable(t)
           /\ Turns(s, t, s.disk.imap, s.disk.bmap,
                    Relisted(s.disk.dir, s.core.inode[d].block,
                             {r \in s.disk.dir[s.core.inode[d].block].list : r.name # n}),
                    s.disk.inode, s.core.inode)
<1> DEFINE k == s.core.inode[d].block
           L == {r \in s.disk.dir[k].list : r.name # n}
<1>1. t = [s EXCEPT !.disk.dir[k].list = L]
  BY DEF removeChild
<1>2. IsFiniteSet(s.disk.dir[k].list) /\ \A r \in s.disk.dir[k].list : r.ino # 0 /\ Plain(r.name)
  BY CrashableIs DEF Listing, Listed
<1>3. \A r \in L : r.ino # 0 /\ Plain(r.name)
  BY <1>2
<1>4. L \subseteq s.disk.dir[k].list
  OBVIOUS
<1> HIDE DEF k, L
<1>5. IsFiniteSet(L)
  BY <1>2, <1>4, FS_Subset
<1>6. k \in Blocks
  BY DEF k
<1>7. /\ Crashable(t)
      /\ Turns(s, t, s.disk.imap, s.disk.bmap, Relisted(s.disk.dir, k, L), s.disk.inode, s.core.inode)
  BY <1>1, <1>3, <1>5, <1>6, RelistedCrashable
<1> QED BY <1>7 DEF k, L

\* The block of a directory is given back.
LEMMA TruncateCrashable ==
    ASSUME NEW s, Crashable(s), NEW i, s.core.inode[i].block \in s.disk.bmap, NEW t,
           t = truncate(s, i)
    PROVE  /\ Crashable(t) /\ Roomy(t.disk, t.core.inode)
           /\ Turns(s, t, s.disk.imap, s.disk.bmap \ {s.core.inode[i].block},
                    [s.disk.dir EXCEPT ![s.core.inode[i].block] = Dir(0, 0)], s.disk.inode, s.core.inode)
<1> DEFINE k == s.core.inode[i].block
           B == s.disk.bmap \ {k}
           f == Dir(0, 0)
           D == [s.disk.dir EXCEPT ![k] = f]
<1>0. Fit(s)
  BY DEF Crashable
<1>1. t = [s EXCEPT !.disk.bmap = B, !.disk.dir[k] = f]
  BY DEF truncate
<1> HIDE DEF f, B, k
<1>2. /\ t.disk = [s.disk EXCEPT !.bmap = B, !.dir = D] /\ t.core = s.core
      /\ t.up = s.up /\ DOMAIN t = DOMAIN s
  BY <1>0, <1>1 DEF Fit, DiskFit
<1>3. Listing(D)
  BY CrashableIs, ListingOn, NewForms DEF f
<1> HIDE DEF D
<1>4. Turns(s, t, s.disk.imap, B, D, s.disk.inode, s.core.inode)
  BY <1>0, <1>2 DEF Fit, DiskFit, Turns
<1>5. B \subseteq Blocks
  BY CrashableIs DEF B
<1> DEFINE h == Holders(s.disk.imap, s.core.inode)
<1>6. Cardinality(B) < Cardinality(h) /\ Cardinality(B) <= Cardinality(h)
  <2>1. /\ IsFiniteSet(s.disk.bmap) /\ Cardinality(s.disk.bmap) \in Nat /\ Cardinality(h) \in Nat
        /\ Cardinality(s.disk.bmap) <= Cardinality(h)
    BY CrashableIs
  <2>2. k \in s.disk.bmap
    BY DEF k
  <2>3. Cardinality(B) = Cardinality(s.disk.bmap) - 1
    BY <2>1, <2>2, FS_RemoveElement DEF B
  <2> HIDE DEF h
  <2> QED BY <2>1, <2>3
<1>7. Crashable(t)
  BY <1>3, <1>4, <1>5, <1>6, CrashableIs, TurnsCrashable
<1>8. Roomy(t.disk, t.core.inode)
  BY <1>4, <1>6 DEF Roomy, Turns
<1> QED BY <1>4, <1>7, <1>8 DEF k, B, D, f

\* A file is freed, or a directory whose block has been.
LEMMA IdallocCrashable ==
    ASSUME NEW s, Crashable(s), NEW i \in Inos, s.core.inode[i].kind = "reg" \/ Roomy(s.disk, s.core.inode),
           NEW t, t = idalloc(s, i)
    PROVE  /\ Crashable(t) /\ \A j \in Inos : j = i \/ CleanAt(s, j) => CleanAt(t, j)
           /\ Turns(s, t, s.disk.imap \ {i}, s.disk.bmap, s.disk.dir,
                    [s.disk.inode EXCEPT ![i] = NoInode], [s.core.inode EXCEPT ![i] = NoInode])
<1> DEFINE k == Count(s, 1)
           M == s.disk.imap \ {i}
           X == [s.disk.inode EXCEPT ![i] = NoInode]
           Y == [s.core.inode EXCEPT ![i] = NoInode]
           h == Holders(s.disk.imap, s.core.inode)
<1>0. Fit(s)
  BY DEF Crashable
<1>1. /\ k.up = s.up /\ DOMAIN k = DOMAIN s
      /\ DOMAIN k.disk = DOMAIN s.disk /\ DOMAIN k.core = DOMAIN s.core
      /\ k.disk.imap = s.disk.imap /\ k.disk.inode = s.disk.inode
      /\ k.core.inode = s.core.inode /\ k.core.ref = s.core.ref
  BY <1>0, CountEffect
<1>2. k.disk.bmap = s.disk.bmap /\ k.disk.dir = s.disk.dir
  BY <1>0 DEF Count, Fit, DiskFit
<1>3. t = [k EXCEPT !.disk.imap = k.disk.imap \ {i}, !.disk.inode[i] = NoInode, !.core.inode[i] = NoInode]
  BY DEF idalloc
<1> HIDE DEF k
<1>4. /\ t.core = [k.core EXCEPT !.inode = Y] /\ t.up = s.up /\ DOMAIN t = DOMAIN s
  BY <1>0, <1>1, <1>3 DEF Fit
<1>5. t.disk = [k.disk EXCEPT !.imap = M, !.inode = X]
  BY <1>0, <1>1, <1>3 DEF Fit, DiskFit
<1>6. \A j \in Inos : /\ Y[j] = IF j = i THEN NoInode ELSE s.core.inode[j]
                      /\ X[j] = IF j = i THEN NoInode ELSE s.disk.inode[j]
  BY CrashableIs DEF Shaped
<1>7. Shaped(X) /\ Shaped(Y)
  BY NewForms, CrashableIs, ShapedOn
<1>8. Taken(X, M) /\ Taken(Y, M)
  <2>1. s.disk.imap \subseteq M \cup {i}
    OBVIOUS
  <2> HIDE DEF M
  <2> QED BY <2>1, NewForms, CrashableIs, TakenOn
<1> HIDE DEF X, Y
<1>9. Turns(s, t, M, s.disk.bmap, s.disk.dir, X, Y)
  BY <1>0, <1>1, <1>2, <1>4, <1>5 DEF Fit, DiskFit, CoreFit, Turns
<1>10. \A j \in Inos : Follows(X[j], Y[j])
  BY <1>6, NewForms, CrashableIs DEF Follows
<1>11. M \subseteq Inos
  BY CrashableIs
<1>12. Cardinality(s.disk.bmap) <= Cardinality(Holders(M, Y))
  <2>1. Holders(M, Y) = h \ {i}
    BY <1>6, CrashableIs DEF Holders
  <2>2. /\ IsFiniteSet(h) /\ Cardinality(s.disk.bmap) \in Nat /\ Cardinality(h) \in Nat
        /\ Cardinality(s.disk.bmap) <= Cardinality(h)
    BY CrashableIs
  <2>3. CASE i \notin h
    <3>1. Holders(M, Y) = h
      BY <2>1, <2>3
    <3> QED BY <2>2, <3>1
  <2>4. CASE i \in h
    <3>1. s.core.inode[i].kind # "reg"
      BY <2>4 DEF Holders
    <3>2. Cardinality(s.disk.bmap) < Cardinality(h)
      BY <3>1 DEF Roomy
    <3> HIDE DEF h
    <3>3. Cardinality(h \ {i}) = Cardinality(h) - 1
      BY <2>2, <2>4, FS_RemoveElement
    <3> HIDE DEF M
    <3> QED BY <2>1, <2>2, <3>2, <3>3
  <2> QED BY <2>3, <2>4
<1> HIDE DEF M
<1>13. Crashable(t)
  BY <1>7, <1>8, <1>9, <1>10, <1>11, <1>12, CrashableIs, TurnsCrashable
<1>14. ASSUME NEW j \in Inos, j = i \/ CleanAt(s, j) PROVE CleanAt(t, j)
  BY <1>6, <1>9, <1>14 DEF CleanAt, Turns
<1> QED BY <1>9, <1>13, <1>14 DEF M, X, Y

-------------------------------------------------------------------------------
\* Where a path leads, in a sound image.

\* What search can find from a directory of the tree, and from anything a path leads to.
Known(d) == Dirs(d) \cup Files(d)
Reachable(d) == Known(d) \cup {0, STUCK}

\* The next component of a path.
StepOf(s, i, n) == IF i \in {0, STUCK} THEN i ELSE search(s, i, n)

LEMMA Numbers ==
    /\ 0 \notin Inos /\ STUCK \notin Inos /\ STUCK # 0 /\ ROOT \in Inos
    /\ Dot # DotDot /\ Dot \notin Names /\ DotDot \notin Names
  BY InosFinite, FileSystemAssumption DEF Inos, ROOT, STUCK, Dot, DotDot

LEMMA KnownIs ==
    ASSUME NEW s, Crashable(s), NEW d, d = Seen(s)
    PROVE  /\ Known(d) \subseteq Inos
           /\ \A i \in Dirs(d) : IsDir(s, i) /\ i \in OpenDirs(d) /\ i \in s.disk.imap
           /\ \A i \in Files(d) : ~IsDir(s, i) /\ i \in s.disk.imap
           /\ \A i : i \in Reachable(d) /\ IsDir(s, i) => i \in Dirs(d)
<1>1. Proper(d) /\ d.inode = s.core.inode /\ d.imap = s.disk.imap
  BY SeenProper, SeenIs DEF Crashable
<1>2. Dirs(d) \subseteq Inos /\ Files(d) \subseteq Inos
  BY <1>1, DirsOpen, EntriesFinite, NamedFinite
<1>3. \A i \in Dirs(d) : IsDir(s, i) /\ i \in OpenDirs(d) /\ i \in s.disk.imap
  BY <1>1, <1>2, DirsOpen, OpenIs DEF IsDir
<1>4. \A i \in Files(d) : ~IsDir(s, i) /\ i \in s.disk.imap
  BY <1>1, <1>2, FilesIs DEF IsDir
<1>5. ASSUME NEW i \in Reachable(d), IsDir(s, i) PROVE i \in Dirs(d)
  BY <1>4, <1>5, Numbers DEF Reachable, Known, IsDir
<1> QED BY <1>2, <1>3, <1>4, <1>5 DEF Known

\* search in a directory of the tree.
LEMMA SearchDir ==
    ASSUME NEW s, Crashable(s), NEW d, d = Seen(s), Sound(d), NEW i \in Dirs(d), NEW n, NEW x,
           x = search(s, i, n)
    PROVE  /\ n = Dot => x = i
           /\ n = DotDot => x = UpOf(d, i)
           /\ n \notin {Dot, DotDot} =>
                \/ x = 0 /\ \A e \in EntriesOf(d, i) : e.name # n
                \/ Entry(i, n, x) \in EntriesOf(d, i)
<1> DEFINE b == BlockOf(s, i)
           found == {r \in b.list : r.name = n}
<1>1. Proper(d) /\ d.inode = s.core.inode /\ d.dir = s.disk.dir /\ i \in Inos
  BY SeenProper, SeenIs, KnownIs DEF Crashable, Known
<1>2. s.core.inode[i].kind = "dir" /\ i \in OpenDirs(d)
  BY KnownIs DEF IsDir
<1>3. b.dot = i /\ b.up = UpOf(d, i) /\ b.list = ListOf(d, i)
  BY <1>1, <1>2, OpenIs DEF BlockOf, UpOf, ListOf
<1>4. x = (CASE n = Dot -> b.dot
             [] n = DotDot -> b.up
             [] n \notin {Dot, DotDot} /\ found # {} -> (CHOOSE r \in found : TRUE).ino
             [] OTHER -> 0)
  BY <1>2, Zenon DEF search
<1>5. ASSUME n \notin {Dot, DotDot}, found # {}
      PROVE  \E r \in ListOf(d, i) : r.name = n /\ x = r.ino
  <2> DEFINE r == CHOOSE r \in found : TRUE
  <2>1. r \in found
    BY <1>5
  <2>2. x = (CASE n = Dot -> b.dot
               [] n = DotDot -> b.up
               [] n \notin {Dot, DotDot} /\ found # {} -> r.ino
               [] OTHER -> 0)
    BY <1>4
  <2>3. r \in ListOf(d, i) /\ r.name = n
    BY <1>3, <2>1
  <2> HIDE DEF r, found, b
  <2>4. x = r.ino
    BY <1>5, <2>2
  <2> QED BY <2>3, <2>4
<1>6. ASSUME n \notin {Dot, DotDot}, found = {} PROVE x = 0 /\ \A r \in ListOf(d, i) : r.name # n
  <2>1. \A r \in ListOf(d, i) : r.name # n
    BY <1>3, <1>6
  <2> HIDE DEF found, b
  <2> QED BY <1>4, <1>6, <2>1
<1>7. \A r \in ListOf(d, i) : r.ino # 0
  BY <1>1, <1>2, EntriesFinite DEF ListOf, Proper, Blocked, Listed
<1>8. ASSUME n \notin {Dot, DotDot}
      PROVE  \/ x = 0 /\ \A e \in EntriesOf(d, i) : e.name # n
             \/ Entry(i, n, x) \in EntriesOf(d, i)
  <2>1. CASE found = {}
    <3>1. x = 0 /\ \A r \in ListOf(d, i) : r.name # n
      BY <1>6, <1>8, <2>1
    <3>2. \A e \in EntriesOf(d, i) : e.name # n
      BY <3>1, EntriesOfIs DEF Entry
    <3> QED BY <3>1, <3>2
  <2>2. CASE found # {}
    <3>1. PICK r \in ListOf(d, i) : r.name = n /\ x = r.ino
      BY <1>5, <1>8, <2>2
    <3> QED BY <1>7, <3>1, EntriesOfIs
  <2> QED BY <2>1, <2>2
<1> HIDE DEF b, found
<1>9. n = Dot => x = i
  BY <1>3, <1>4, Numbers
<1>10. n = DotDot => x = UpOf(d, i)
  BY <1>3, <1>4, Numbers
<1> QED BY <1>8, <1>9, <1>10

\* One component leads on to something that is known, or nowhere.
LEMMA StepReaches ==
    ASSUME NEW s, Crashable(s), NEW d, d = Seen(s), Sound(d), NEW i \in Reachable(d), NEW n
    PROVE  /\ StepOf(s, i, n) \in Reachable(d)
           /\ StepOf(s, i, n) \notin {0, STUCK} => i \in Dirs(d) /\ StepOf(s, i, n) = search(s, i, n)
<1>1. Leads(d) /\ Treelike(d)
  BY SeenProper, SoundIs
<1>2. CASE i \in {0, STUCK}
  BY <1>2 DEF StepOf, Reachable
<1>3. CASE i \in Files(d) /\ i \notin {0, STUCK}
  <2>1. StepOf(s, i, n) = STUCK
    <3>1. i \in Inos /\ ~IsDir(s, i)
      BY <1>3, KnownIs DEF Known
    <3> QED BY <1>3, <3>1 DEF StepOf, search, IsDir
  <2> QED BY <2>1 DEF Reachable
<1>4. CASE i \in Dirs(d) /\ i \notin {0, STUCK}
  <2> DEFINE x == search(s, i, n)
  <2>1. StepOf(s, i, n) = x
    BY <1>4 DEF StepOf
  <2>2. x \in Reachable(d)
    <3>1. CASE n = Dot
      BY <1>4, <3>1, SearchDir DEF Reachable, Known
    <3>2. CASE n = DotDot
      <4>1. x = UpOf(d, i)
        BY <1>4, <3>2, SearchDir
      <4>2. UpOf(d, i) \in Dirs(d)
        <5>1. CASE i = ROOT
          BY <1>1, <5>1 DEF Treelike, RootOnTop
        <5>2. CASE i # ROOT
          <6>1. PICK e \in Entries(d) : UpOf(d, i) = e.dir
            BY <1>1, <1>4, <5>2 DEF Treelike, Hangs
          <6> QED BY <6>1, EntriesIs
        <5> QED BY <5>1, <5>2
      <4> QED BY <4>1, <4>2 DEF Reachable, Known
    <3>3. CASE n \notin {Dot, DotDot}
      <4>1. x = 0 \/ Entry(i, n, x) \in EntriesOf(d, i)
        BY <1>4, <3>3, SearchDir
      <4>2. Entry(i, n, x).dir = i /\ Entry(i, n, x).ino = x
        BY DEF Entry
      <4>3. x = 0 \/ Entry(i, n, x) \in Entries(d)
        BY <1>4, <4>1, <4>2, EntriesIs
      <4> QED BY <1>1, <4>2, <4>3 DEF Leads, Reachable, Known
    <3> QED BY <3>1, <3>2, <3>3
  <2> QED BY <1>4, <2>1, <2>2
<1> QED BY <1>2, <1>3, <1>4 DEF Reachable, Known

\* The walk w of getino from c over the components of a path.
Walks(s, c, p, w) ==
    /\ w[0] = (IF p.abs THEN ROOT ELSE c)
    /\ \A k \in 1 .. Len(p.comps) : w[k] = StepOf(s, w[k - 1], p.comps[k])
    /\ getino(s, c, p) = w[Len(p.comps)]

LEMMA GetinoWalks ==
    ASSUME NEW s, Crashable(s), NEW d, d = Seen(s), Sound(d), NEW c \in Dirs(d),
           NEW p, Len(p.comps) \in Nat
    PROVE  \E w : Walks(s, c, p, w) /\ \A k \in 0 .. Len(p.comps) : w[k] \in Reachable(d)
<1> DEFINE N == Len(p.comps)
           S == Reachable(d)
           start == IF p.abs THEN ROOT ELSE c
           g == [n \in 1 .. N |-> [i \in S |-> StepOf(s, i, p.comps[n])]]
           Loop(h) == [k \in 0 .. N |->
                        IF k = 0 THEN IF p.abs THEN ROOT ELSE c
                        ELSE LET i == h[k - 1]
                             IN  IF i \in {0, STUCK} THEN i ELSE search(s, i, p.comps[k])]
           walk == CHOOSE h : h = Loop(h)
<1>1. N \in Nat
  OBVIOUS
<1>2. start \in S
  <2>1. ROOT \in Dirs(d)
    BY SeenProper, SoundIs DEF Treelike, RootOnTop
  <2> QED BY <2>1 DEF Reachable, Known
<1>3. \A i \in S, n \in 1 .. N : StepOf(s, i, p.comps[n]) \in S
  BY StepReaches
<1>4. getino(s, c, p) = walk[N]
  BY Zenon DEF getino
<1>5. ASSUME NEW h PROVE /\ DOMAIN Loop(h) = 0 .. N /\ Loop(h)[0] = start
                         /\ \A k \in 1 .. N : Loop(h)[k] = StepOf(s, h[k - 1], p.comps[k])
  BY <1>1 DEF StepOf
<1> HIDE DEF N, start, S
<1>6. \E h : h = Loop(h)
  <2>1. g \in [1 .. N -> [S -> S]]
    BY <1>3
  <2> HIDE DEF g
  <2>2. HasRecursion(N, S, start, g)
    BY <1>1, <1>2, <2>1, RecursionExists
  <2>3. PICK h \in [0 .. N -> S] : h[0] = start /\ \A n \in 1 .. N : h[n] = g[n][h[n - 1]]
    BY <2>2 DEF HasRecursion
  <2>4. ASSUME NEW n \in 1 .. N PROVE h[n] = StepOf(s, h[n - 1], p.comps[n])
    <3>1. n - 1 \in 0 .. N
      BY <1>1
    <3>2. h[n - 1] \in S
      BY <3>1
    <3>3. g[n][h[n - 1]] = StepOf(s, h[n - 1], p.comps[n])
      BY <3>2 DEF g
    <3> QED BY <2>3, <3>3
  <2> DEFINE l == Loop(h)
  <2>5. l = [k \in 0 .. N |-> l[k]] /\ l[0] = start /\ \A k \in 1 .. N : l[k] = StepOf(s, h[k - 1], p.comps[k])
    <3>1. DOMAIN l = 0 .. N /\ l[0] = start /\ \A k \in 1 .. N : l[k] = StepOf(s, h[k - 1], p.comps[k])
      BY <1>5
    <3> QED BY <3>1
  <2> HIDE DEF l
  <2>6. \A k \in 0 .. N : h[k] = l[k]
    BY <1>1, <2>3, <2>4, <2>5
  <2>7. h = l
    BY <2>3, <2>5, <2>6
  <2> QED BY <2>7 DEF l
<1>7. walk = Loop(walk)
  BY <1>6, Zenon
<1> HIDE DEF walk
<1>8. walk[0] = start /\ \A n \in 1 .. N : walk[n] = StepOf(s, walk[n - 1], p.comps[n])
  <2>1. /\ Loop(walk)[0] = start
        /\ \A k \in 1 .. N : Loop(walk)[k] = StepOf(s, walk[k - 1], p.comps[k])
    BY <1>5
  <2> QED BY <1>7, <2>1, Zenon
<1>9. \A n \in 1 .. N : walk[n - 1] \in S => walk[n] \in S
  BY <1>3, <1>8
<1>10. walk[0] \in S
  BY <1>2, <1>8
<1>11. \A n \in 0 .. N : walk[n] \in S
  BY <1>1, <1>9, <1>10, LoopStays
<1>12. Walks(s, c, p, walk)
  BY <1>4, <1>8 DEF Walks, N, start
<1> QED BY <1>11, <1>12 DEF N, S

\* A path leads to something known, or nowhere.
LEMMA GetinoReaches ==
    ASSUME NEW s, Crashable(s), NEW d, d = Seen(s), Sound(d), NEW c \in Dirs(d),
           NEW p, Len(p.comps) \in Nat
    PROVE  getino(s, c, p) \in Reachable(d)
<1>1. PICK w : Walks(s, c, p, w) /\ \A k \in 0 .. Len(p.comps) : w[k] \in Reachable(d)
  BY GetinoWalks
<1>2. Len(p.comps) \in 0 .. Len(p.comps)
  OBVIOUS
<1> QED BY <1>1, <1>2 DEF Walks

LEMMA ParentIs ==
    ASSUME NEW p \in Paths
    PROVE  LET N == Len(p.comps)
               q == Parent(p)
           IN  /\ N \in Nat \ {0} /\ Base(p) = p.comps[N] /\ q.abs = p.abs /\ p.abs \in BOOLEAN
               /\ N = 1 /\ ~p.abs => q.comps = <<Dot>>
               /\ ~(N = 1 /\ ~p.abs) => Len(q.comps) = N - 1 /\ \A k \in 1 .. N - 1 : q.comps[k] = p.comps[k]
               /\ \A k \in 1 .. N : p.comps[k] \in Names \cup {Dot, DotDot}
<1> DEFINE N == Len(p.comps)
           q == Parent(p)
           S == Names \cup {Dot, DotDot}
           f == Front(p.comps)
<1>1. p \in [abs : BOOLEAN, comps : Seq(S)] /\ p.comps # <<>>
  BY FileSystemAssumption
<1>2. DOMAIN p = {"abs", "comps"} /\ p.comps \in Seq(S) /\ p.abs \in BOOLEAN
  BY <1>1
<1> HIDE DEF S
<1>3. N \in Nat \ {0} /\ \A k \in 1 .. N : p.comps[k] \in S
  BY <1>1, <1>2
<1>4. q = [p EXCEPT !.comps = IF N = 1 /\ ~p.abs THEN <<Dot>> ELSE f]
  BY DEF Parent
<1>5. q.abs = p.abs /\ q.comps = IF N = 1 /\ ~p.abs THEN <<Dot>> ELSE f
  BY <1>2, <1>4
<1>6. Len(f) = N - 1 /\ \A k \in 1 .. N - 1 : f[k] = p.comps[k]
  <2>1. f = SubSeq(p.comps, 1, N - 1)
    BY DEF Front
  <2>2. f = [k \in 1 .. N - 1 |-> p.comps[k]]
    BY <1>2, <1>3, <2>1
  <2>3. Len(f) = N - 1
    BY <1>3, <2>2
  <2> QED BY <2>2, <2>3
<1>7. Base(p) = p.comps[N]
  BY DEF Base, Last
<1> QED BY <1>2, <1>3, <1>5, <1>6, <1>7 DEF S

LEMMA ParentTyped ==
    ASSUME NEW p \in Paths
    PROVE  Len(p.comps) \in Nat /\ Len(Parent(p).comps) \in Nat /\ Base(p) \in Names \cup {Dot, DotDot}
<1> DEFINE N == Len(p.comps)
           q == Parent(p)
<1>1. /\ N \in Nat \ {0}
      /\ N = 1 /\ ~p.abs => q.comps = <<Dot>>
      /\ ~(N = 1 /\ ~p.abs) => Len(q.comps) = N - 1
      /\ Base(p) = p.comps[N] /\ \A k \in 1 .. N : p.comps[k] \in Names \cup {Dot, DotDot}
  BY ParentIs
<1>2. Len(<<Dot>>) = 1
  OBVIOUS
<1> HIDE DEF q, N
<1>3. N \in Nat /\ N \in 1 .. N /\ Len(q.comps) \in Nat
  BY <1>1, <1>2
<1> QED BY <1>1, <1>3 DEF N, q

\* The last component is looked up where the ones before it lead.
LEMMA GetinoLast ==
    ASSUME NEW s, Crashable(s), NEW d, d = Seen(s), Sound(d), NEW c \in Dirs(d), NEW p \in Paths
    PROVE  getino(s, c, p) = StepOf(s, getino(s, c, Parent(p)), Base(p))
<1> DEFINE N == Len(p.comps)
           q == Parent(p)
           M == Len(q.comps)
<1>1. N \in Nat /\ M \in Nat
  BY ParentTyped
<1>2. PICK w : Walks(s, c, p, w) /\ \A k \in 0 .. N : w[k] \in Reachable(d)
  BY <1>1, GetinoWalks
<1>3. PICK v : Walks(s, c, q, v) /\ \A k \in 0 .. M : v[k] \in Reachable(d)
  BY <1>1, GetinoWalks
<1>4. /\ N \in Nat \ {0} /\ Base(p) = p.comps[N] /\ q.abs = p.abs
      /\ N = 1 /\ ~p.abs => q.comps = <<Dot>>
      /\ ~(N = 1 /\ ~p.abs) => Len(q.comps) = N - 1 /\ \A k \in 1 .. N - 1 : q.comps[k] = p.comps[k]
  BY ParentIs
<1>5. w[N] = StepOf(s, w[N - 1], Base(p)) /\ getino(s, c, p) = w[N] /\ getino(s, c, q) = v[M] /\ w[0] = v[0]
  BY <1>2, <1>3, <1>4 DEF Walks
<1> HIDE DEF q
<1>6. CASE N = 1 /\ ~p.abs
  <2>1. M = 1 /\ q.comps[1] = Dot
    <3>1. q.comps = <<Dot>>
      BY <1>4, <1>6
    <3>2. Len(<<Dot>>) = 1 /\ <<Dot>>[1] = Dot
      OBVIOUS
    <3> QED BY <3>1, <3>2, Zenon
  <2>2. v[1] = StepOf(s, v[0], Dot) /\ v[0] = c
    BY <1>3, <1>4, <1>6, <2>1 DEF Walks
  <2>3. search(s, c, Dot) = c
    BY SearchDir
  <2>4. v[1] = c
    BY <2>2, <2>3 DEF StepOf
  <2>5. w[N - 1] = v[M]
    BY <1>5, <1>6, <2>1, <2>2, <2>4
  <2> QED BY <1>5, <2>5 DEF q
<1>7. CASE ~(N = 1 /\ ~p.abs)
  <2> DEFINE T == {k \in 0 .. M : w[k] = v[k]}
  <2>1. M = N - 1
    BY <1>4, <1>7
  <2>2. ASSUME NEW k \in 0 .. M - 1, k \in T PROVE k + 1 \in T
    <3>1. k + 1 \in 1 .. M /\ k + 1 \in 1 .. N /\ (k + 1) - 1 = k /\ k + 1 \in 0 .. M
      BY <1>1, <2>1
    <3>2. w[k + 1] = StepOf(s, w[k], p.comps[k + 1]) /\ v[k + 1] = StepOf(s, v[k], q.comps[k + 1])
      BY <1>2, <1>3, <3>1 DEF Walks
    <3>3. q.comps[k + 1] = p.comps[k + 1]
      BY <1>4, <1>7, <2>1, <3>1
    <3>4. w[k] = v[k]
      BY <2>2
    <3> QED BY <3>1, <3>2, <3>3, <3>4
  <2>3. 0 \in T
    BY <1>1, <1>5
  <2> HIDE DEF T
  <2>4. 0 .. M \subseteq T
    BY <1>1, <2>2, <2>3, SetInduction
  <2>5. w[M] = v[M]
    BY <1>1, <2>4 DEF T
  <2> QED BY <1>5, <2>1, <2>5 DEF q
<1> QED BY <1>6, <1>7

-------------------------------------------------------------------------------
\* From the root down.

\* What the root has, and what a directory has that the one above it has, all have.
LEMMA TreeInduction ==
    ASSUME NEW d, Treelike(d), NEW S, ROOT \in S,
           \A j \in Dirs(d) \ {ROOT} : UpOf(d, j) \in S => j \in S
    PROVE  Dirs(d) \subseteq S
<1> DEFINE T == S \cap Dirs(d)
<1>1. ROOT \in T
  BY DEF Treelike, RootOnTop
<1>2. ASSUME NEW i \in T, NEW e \in EntriesOf(d, i), e.ino \in OpenDirs(d) PROVE e.ino \in T
  <2>1. e.dir = i /\ e \in Entries(d)
    BY <1>2, EntriesOfIs, EntriesIs
  <2>2. e.ino \in Dirs(d) \ {ROOT}
    BY <1>2, <2>1, DirsOpen DEF Covers, Treelike, RootOnTop
  <2>3. PICK f \in Entries(d) : Named(Entries(d), e.ino) = {f} /\ UpOf(d, e.ino) = f.dir
    BY <2>2 DEF Treelike, Hangs
  <2>4. e \in Named(Entries(d), e.ino)
    BY <2>1 DEF Named
  <2>5. UpOf(d, e.ino) = i
    BY <2>1, <2>3, <2>4
  <2> QED BY <2>2, <2>5
<1>3. Dirs(d) \subseteq T
  <2> HIDE DEF T
  <2> QED BY <1>1, <1>2, DirsLeast DEF Covers
<1> QED BY <1>3

\* h goes down the tree over the directories S: root at the root, and g[j] leads to j.
Descends(d, root, g, S, h) ==
    /\ ROOT \in S /\ h[ROOT] = root
    /\ \A j \in S \ {ROOT} : UpOf(d, j) \in S /\ h[j] = g[j][h[UpOf(d, j)]]

LEMMA DescentsAgree ==
    ASSUME NEW d, Treelike(d), NEW root, NEW g, NEW S, NEW h, Descends(d, root, g, S, h),
           NEW T, NEW k, Descends(d, root, g, T, k), NEW j \in Dirs(d), j \in S, j \in T
    PROVE  h[j] = k[j]
<1> DEFINE A == {i \in Dirs(d) : i \in S /\ i \in T => h[i] = k[i]}
<1>1. ROOT \in A
  BY DEF Treelike, RootOnTop, Descends
<1>2. ASSUME NEW i \in Dirs(d) \ {ROOT}, UpOf(d, i) \in A PROVE i \in A
  BY <1>2 DEF Descends
<1> HIDE DEF A
<1>3. Dirs(d) \subseteq A
  BY <1>1, <1>2, TreeInduction
<1> QED BY <1>3 DEF A

LEMMA DescentsReach ==
    ASSUME NEW d, Treelike(d), NEW G, NEW root \in G, NEW g \in [Dirs(d) -> [G -> G]],
           NEW j \in Dirs(d)
    PROVE  \E S \in SUBSET Dirs(d) : \E h \in [S -> G] : j \in S /\ Descends(d, root, g, S, h)
<1> DEFINE A == {i \in Dirs(d) :
                    \E S \in SUBSET Dirs(d) : \E h \in [S -> G] : i \in S /\ Descends(d, root, g, S, h)}
<1>1. ROOT \in A
  <2> DEFINE S == {ROOT}
             h == [i \in S |-> root]
  <2>1. S \in SUBSET Dirs(d) /\ h \in [S -> G] /\ ROOT \in S
    BY DEF Treelike, RootOnTop
  <2>2. Descends(d, root, g, S, h)
    BY DEF Descends
  <2> QED BY <2>1, <2>2
<1>2. ASSUME NEW i \in Dirs(d) \ {ROOT}, UpOf(d, i) \in A PROVE i \in A
  <2> DEFINE higher == UpOf(d, i)
  <2>1. PICK S \in SUBSET Dirs(d) : \E h \in [S -> G] : higher \in S /\ Descends(d, root, g, S, h)
    BY <1>2
  <2>2. PICK h \in [S -> G] : higher \in S /\ Descends(d, root, g, S, h)
    BY <2>1
  <2>3. CASE i \in S
    BY <1>2, <2>2, <2>3
  <2>4. CASE i \notin S
    <3> DEFINE T == S \cup {i}
               k == [n \in T |-> IF n = i THEN g[i][h[higher]] ELSE h[n]]
    <3>1. T \in SUBSET Dirs(d) /\ i \in T
      BY <1>2
    <3>2. h[higher] \in G /\ g[i][h[higher]] \in G
      BY <1>2, <2>2
    <3>3. k \in [T -> G]
      BY <2>2, <3>2
    <3>4. k[i] = g[i][h[higher]] /\ \A n \in S : k[n] = h[n]
      BY <2>4
    <3> HIDE DEF k
    <3>5. ASSUME NEW n \in T \ {ROOT} PROVE UpOf(d, n) \in T /\ k[n] = g[n][k[UpOf(d, n)]]
      <4>1. CASE n = i
        BY <2>2, <3>4, <4>1
      <4>2. CASE n # i
        <5>1. n \in S \ {ROOT}
          BY <3>5, <4>2
        <5>2. UpOf(d, n) \in S /\ h[n] = g[n][h[UpOf(d, n)]]
          BY <2>2, <5>1 DEF Descends
        <5> QED BY <3>4, <5>1, <5>2
      <4> QED BY <4>1, <4>2
    <3>6. ROOT \in T /\ k[ROOT] = root
      BY <2>2, <3>4 DEF Descends
    <3>7. Descends(d, root, g, T, k)
      BY <3>5, <3>6 DEF Descends
    <3> QED BY <1>2, <3>1, <3>3, <3>7
  <2> QED BY <2>3, <2>4
<1> HIDE DEF A
<1>3. Dirs(d) \subseteq A
  BY <1>1, <1>2, TreeInduction
<1> QED BY <1>3 DEF A

\* A recursion over the tree defines something.
LEMMA TreeRecursion ==
    ASSUME NEW d, Treelike(d), NEW G, NEW root \in G, NEW g \in [Dirs(d) -> [G -> G]]
    PROVE  \E h \in [Dirs(d) -> G] : Descends(d, root, g, Dirs(d), h)
<1> DEFINE D == Dirs(d)
           Of(j, x) == \E S \in SUBSET D : \E k \in [S -> G] : j \in S /\ Descends(d, root, g, S, k) /\ x = k[j]
           h == [j \in D |-> CHOOSE x \in G : Of(j, x)]
<1>1. ASSUME NEW j \in D PROVE \E x \in G : Of(j, x)
  <2>1. PICK S \in SUBSET D : \E k \in [S -> G] : j \in S /\ Descends(d, root, g, S, k)
    BY DescentsReach
  <2>2. PICK k \in [S -> G] : j \in S /\ Descends(d, root, g, S, k)
    BY <2>1
  <2> QED BY <2>2
<1>2. ASSUME NEW j \in D PROVE h[j] \in G /\ Of(j, h[j])
  <2> HIDE DEF Of
  <2> QED BY <1>1
<1>3. h \in [D -> G]
  <2>1. h = [j \in D |-> h[j]]
    OBVIOUS
  <2> HIDE DEF h
  <2> QED BY <1>2, <2>1
<1> HIDE DEF h
<1>4. ASSUME NEW S \in SUBSET D, NEW k \in [S -> G], Descends(d, root, g, S, k), NEW j \in S
      PROVE  h[j] = k[j]
  <2>1. PICK T \in SUBSET D : \E l \in [T -> G] : j \in T /\ Descends(d, root, g, T, l) /\ h[j] = l[j]
    BY <1>2, <1>4
  <2>2. PICK l \in [T -> G] : j \in T /\ Descends(d, root, g, T, l) /\ h[j] = l[j]
    BY <2>1
  <2>3. j \in Dirs(d)
    BY <1>4
  <2>4. l[j] = k[j]
    BY <1>4, <2>2, <2>3, DescentsAgree
  <2> QED BY <2>2, <2>4
<1>5. ASSUME NEW j \in D
      PROVE  /\ j = ROOT => h[j] = root
             /\ j # ROOT => UpOf(d, j) \in D /\ h[j] = g[j][h[UpOf(d, j)]]
  <2>1. PICK S \in SUBSET D : \E k \in [S -> G] : j \in S /\ Descends(d, root, g, S, k)
    BY DescentsReach
  <2>2. PICK k \in [S -> G] : j \in S /\ Descends(d, root, g, S, k)
    BY <2>1
  <2>3. \A i \in S : h[i] = k[i]
    BY <1>4, <2>2
  <2> QED BY <2>2, <2>3 DEF Descends
<1>6. ROOT \in D
  BY DEF Treelike, RootOnTop
<1>7. Descends(d, root, g, D, h)
  BY <1>5, <1>6 DEF Descends
<1> QED BY <1>3, <1>7

\* What holds of a path that goes on by one name.
LEMMA PrefixOn ==
    ASSUME NEW N, NEW p \in Seq(N), NEW q \in Seq(N), NEW n \in N
    PROVE  IsPrefix(p, Append(q, n)) <=> IsPrefix(p, q) \/ p = Append(q, n)
<1> DEFINE r == Append(q, n)
<1>1. /\ r \in Seq(N) /\ Len(r) = Len(q) + 1 /\ r[Len(q) + 1] = n
      /\ \A k \in 1 .. Len(q) : r[k] = q[k]
  OBVIOUS
<1> HIDE DEF r
<1>2. ASSUME NEW s \in Seq(N)
      PROVE  IsPrefix(p, s) <=> Len(p) <= Len(s) /\ \A k \in 1 .. Len(p) : p[k] = s[k]
  <2>1. SubSeq(p, 1, Len(p)) = p
    OBVIOUS
  <2>2. CASE Len(p) <= Len(s)
    <3> DEFINE u == SubSeq(s, 1, Len(p))
    <3>1. u \in Seq(N) /\ Len(u) = Len(p) /\ \A k \in 1 .. Len(p) : u[k] = s[k]
      BY <2>2
    <3> HIDE DEF u
    <3>2. p = u <=> \A k \in 1 .. Len(p) : p[k] = u[k]
      BY <3>1
    <3>3. IsPrefix(p, s) <=> p = u
      BY <2>1, <2>2 DEF IsPrefix, u
    <3> QED BY <2>2, <3>1, <3>2, <3>3
  <2>3. CASE ~(Len(p) <= Len(s))
    BY <2>3 DEF IsPrefix
  <2> QED BY <2>2, <2>3
<1>3. IsPrefix(p, r) <=> Len(p) <= Len(r) /\ \A k \in 1 .. Len(p) : p[k] = r[k]
  BY <1>1, <1>2
<1>4. IsPrefix(p, q) <=> Len(p) <= Len(q) /\ \A k \in 1 .. Len(p) : p[k] = q[k]
  BY <1>2
<1>5. Len(p) \in Nat /\ Len(q) \in Nat
  OBVIOUS
<1>6. CASE Len(p) <= Len(q)
  <2>1. p # r
    BY <1>1, <1>5, <1>6
  <2>2. \A k \in 1 .. Len(p) : r[k] = q[k]
    BY <1>1, <1>5, <1>6
  <2> QED BY <1>1, <1>3, <1>4, <1>5, <1>6, <2>1, <2>2 DEF r
<1>7. CASE ~(Len(p) <= Len(q))
  <2>1. p = r <=> Len(p) = Len(r) /\ \A k \in 1 .. Len(p) : p[k] = r[k]
    BY <1>1
  <2> QED BY <1>1, <1>3, <1>4, <1>5, <1>7, <2>1 DEF r
<1> QED BY <1>6, <1>7

LEMMA AppendIs ==
    ASSUME NEW N, NEW q \in Seq(N), NEW n \in N
    PROVE  /\ Append(q, n) \in Seq(N) /\ Append(q, n) # <<>> /\ Front(Append(q, n)) = q
           /\ Len(Append(q, n)) = Len(q) + 1 /\ Len(q) \in Nat
<1>1. Append(q, n) \in Seq(N) /\ Append(q, n) # <<>> /\ Len(Append(q, n)) = Len(q) + 1 /\ Len(q) \in Nat
  OBVIOUS
<1>2. Front(Append(q, n)) = q
  BY DEF Front
<1> QED BY <1>1, <1>2

LEMMA AppendApart ==
    ASSUME NEW N, NEW q \in Seq(N), NEW n \in N, NEW r \in Seq(N), NEW m \in N,
           Append(q, n) = Append(r, m)
    PROVE  q = r /\ n = m
<1>1. /\ Len(Append(r, m)) = Len(r) + 1 /\ Append(r, m)[Len(r) + 1] = m
      /\ Len(Append(q, n)) = Len(q) + 1 /\ Append(q, n)[Len(q) + 1] = n
      /\ \A k \in 1 .. Len(q) : Append(q, n)[k] = q[k]
      /\ \A k \in 1 .. Len(r) : Append(r, m)[k] = r[k]
      /\ Len(r) \in Nat /\ Len(q) \in Nat
  OBVIOUS
<1>2. Len(q) = Len(r)
  BY <1>1
<1>3. n = m
  BY <1>1, <1>2
<1>4. \A k \in 1 .. Len(q) : q[k] = r[k]
  BY <1>1, <1>2
<1> QED BY <1>2, <1>3, <1>4

\* The path of the entry x, where h has those of the directories.
Route(h, x) == Append(h[x.dir], x.name)
RouteIn(N, h, x) == h[x.dir] \in Seq(N) /\ x.name \in N

LEMMA RouteApart ==
    ASSUME NEW N, NEW h, NEW x, NEW y, RouteIn(N, h, x), RouteIn(N, h, y),
           Route(h, x) = Route(h, y)
    PROVE  h[x.dir] = h[y.dir] /\ x.name = y.name
<1> DEFINE q == h[x.dir]
           r == h[y.dir]
           n == x.name
           m == y.name
<1>1. Append(q, n) = Append(r, m) /\ q \in Seq(N) /\ r \in Seq(N) /\ n \in N /\ m \in N
  BY DEF Route, RouteIn
<1> HIDE DEF q, r, n, m
<1>2. q = r /\ n = m
  BY <1>1, AppendApart
<1> QED BY <1>2 DEF q, r, n, m

\* The paths h of the directories, made of names in N.
Routes(d, h, N) ==
    /\ h \in [Dirs(d) -> Seq(N)] /\ h[ROOT] = <<>>
    /\ \A x \in Entries(d) :
        x.name \in N /\ (x.ino \in Dirs(d) => h[x.ino] = Route(h, x))

\* Every directory has a path.
LEMMA RoutesExist ==
    ASSUME NEW d, Treelike(d), NEW N, \A x \in Entries(d) : x.name \in N
    PROVE  \E h : Routes(d, h, N)
<1> DEFINE G == Seq(N)
           D == Dirs(d)
           Of(j) == CHOOSE x \in Entries(d) : x.ino = j
           g == [j \in D |-> [q \in G |-> IF j = ROOT THEN q ELSE Append(q, Of(j).name)]]
<1>1. ASSUME NEW j \in D \ {ROOT}
      PROVE  /\ Of(j) \in Entries(d) /\ UpOf(d, j) = Of(j).dir
             /\ \A x \in Entries(d) : x.ino = j => x = Of(j)
  <2>1. PICK f \in Entries(d) : Named(Entries(d), j) = {f} /\ UpOf(d, j) = f.dir
    BY DEF Treelike, Hangs
  <2>2. f.ino = j /\ \A x \in Entries(d) : x.ino = j => x = f
    BY <2>1 DEF Named
  <2>3. Of(j) \in Entries(d) /\ Of(j).ino = j
    BY <2>2
  <2> HIDE DEF Of
  <2> QED BY <2>1, <2>2, <2>3
<1>2. g \in [D -> [G -> G]]
  <2>1. ASSUME NEW j \in D, NEW q \in G PROVE (IF j = ROOT THEN q ELSE Append(q, Of(j).name)) \in G
    <3> HIDE DEF Of
    <3> QED BY <1>1, <2>1
  <2> HIDE DEF G, Of
  <2> QED BY <2>1
<1>3. <<>> \in G
  OBVIOUS
<1>4. PICK h \in [D -> G] : Descends(d, <<>>, g, D, h)
  <2> HIDE DEF g, G
  <2> QED BY <1>2, <1>3, TreeRecursion
<1>5. ASSUME NEW x \in Entries(d), x.ino \in D PROVE h[x.ino] = Append(h[x.dir], x.name)
  <2>1. x.ino # ROOT
    BY DEF Treelike, RootOnTop
  <2>2. x = Of(x.ino) /\ UpOf(d, x.ino) = x.dir
    <3> HIDE DEF Of
    <3> QED BY <1>1, <1>5, <2>1
  <2>3. x.dir \in D /\ h[x.ino] = g[x.ino][h[x.dir]]
    <3> HIDE DEF Of, g, G
    <3> QED BY <1>4, <1>5, <2>1, <2>2 DEF Descends
  <2>4. h[x.dir] \in G
    BY <1>4, <2>3
  <2>5. g[x.ino][h[x.dir]] = Append(h[x.dir], Of(x.ino).name)
    <3> HIDE DEF Of, G
    <3> QED BY <1>5, <2>1, <2>4
  <2> HIDE DEF Of, g
  <2> QED BY <2>2, <2>3, <2>5
<1>6. h[ROOT] = <<>>
  BY <1>4 DEF Descends
<1> HIDE DEF g, Of
<1> QED BY <1>4, <1>5, <1>6 DEF Routes, Route

\* What is known of the paths.
LEMMA RoutesApart ==
    ASSUME NEW d, Treelike(d), NEW N, NEW h, Routes(d, h, N)
    PROVE  /\ \A j \in Dirs(d) : j # ROOT =>
                \E x \in Entries(d) : /\ x.ino = j /\ x.dir \in Dirs(d) /\ UpOf(d, j) = x.dir
                                      /\ h[j] = Route(h, x)
           /\ \A x \in Entries(d) : x.dir \in Dirs(d) /\ h[x.dir] \in Seq(N) /\ x.name \in N
           /\ \A j, k \in Dirs(d) : h[j] = h[k] => j = k
           /\ \A x, y \in Entries(d) : Route(h, x) = Route(h, y) => x = y
<1>1. ASSUME NEW j \in Dirs(d), j # ROOT
      PROVE  \E x \in Entries(d) : /\ x.ino = j /\ x.dir \in Dirs(d) /\ UpOf(d, j) = x.dir
                                   /\ h[j] = Route(h, x)
  <2>1. PICK x \in Entries(d) : Named(Entries(d), j) = {x} /\ UpOf(d, j) = x.dir
    BY <1>1 DEF Treelike, Hangs
  <2>2. x.ino = j /\ x.dir \in Dirs(d)
    BY <2>1, EntriesIs DEF Named
  <2> QED BY <2>1, <2>2 DEF Routes
<1>2. ASSUME NEW x \in Entries(d) PROVE x.dir \in Dirs(d) /\ h[x.dir] \in Seq(N) /\ x.name \in N
  <2>1. x.dir \in Dirs(d)
    BY EntriesIs
  <2> QED BY <2>1 DEF Routes
<1> DEFINE A == {j \in Dirs(d) : \A k \in Dirs(d) : h[j] = h[k] => j = k}
<1>3. ROOT \in A
  <2>1. ROOT \in Dirs(d) /\ h[ROOT] = <<>>
    BY DEF Treelike, RootOnTop, Routes
  <2>2. ASSUME NEW k \in Dirs(d), k # ROOT PROVE h[k] # <<>>
    <3>1. PICK x \in Entries(d) : h[k] = Route(h, x)
      BY <1>1, <2>2
    <3>2. h[x.dir] \in Seq(N) /\ x.name \in N
      BY <1>2
    <3> QED BY <3>1, <3>2, AppendIs DEF Route
  <2> QED BY <2>1, <2>2
<1>4. ASSUME NEW j \in Dirs(d) \ {ROOT}, UpOf(d, j) \in A PROVE j \in A
  <2> SUFFICES ASSUME NEW k \in Dirs(d), h[j] = h[k] PROVE j = k
    OBVIOUS
  <2>1. PICK x \in Entries(d) : /\ x.ino = j /\ x.dir \in Dirs(d) /\ UpOf(d, j) = x.dir
                                /\ h[j] = Route(h, x)
    BY <1>1
  <2>2. h[x.dir] \in Seq(N) /\ x.name \in N
    BY <1>2
  <2>3. k # ROOT
    <3>1. h[j] # <<>>
      BY <2>1, <2>2, AppendIs DEF Route
    <3> QED BY <2>2, <3>1, <2>1 DEF Routes
  <2>4. PICK y \in Entries(d) : /\ y.ino = k /\ y.dir \in Dirs(d) /\ UpOf(d, k) = y.dir
                                /\ h[k] = Route(h, y)
    BY <1>1, <2>3
  <2>5. h[y.dir] \in Seq(N) /\ y.name \in N
    BY <1>2
  <2>6. h[x.dir] = h[y.dir] /\ x.name = y.name
    <3>1. Route(h, x) = Route(h, y)
      BY <2>1, <2>4
    <3>2. RouteIn(N, h, x) /\ RouteIn(N, h, y)
      BY <2>2, <2>5 DEF RouteIn
    <3> QED BY <3>1, <3>2, RouteApart
  <2>7. x.dir = y.dir
    BY <1>4, <2>1, <2>4, <2>6
  <2>8. x = y
    BY <2>6, <2>7 DEF Treelike, Distinct
  <2> QED BY <2>1, <2>4, <2>8
<1> HIDE DEF A
<1>5. Dirs(d) \subseteq A
  BY <1>3, <1>4, TreeInduction
<1>6. \A j, k \in Dirs(d) : h[j] = h[k] => j = k
  BY <1>5 DEF A
<1>7. ASSUME NEW x \in Entries(d), NEW y \in Entries(d), Route(h, x) = Route(h, y)
      PROVE  x = y
  <2>1. h[x.dir] = h[y.dir] /\ x.name = y.name
    <3>1. RouteIn(N, h, x) /\ RouteIn(N, h, y)
      BY <1>2 DEF RouteIn
    <3> QED BY <1>7, <3>1, RouteApart
  <2>2. x.dir = y.dir
    BY <1>2, <1>6, <2>1
  <2> QED BY <2>1, <2>2 DEF Treelike, Distinct
<1> QED BY <1>1, <1>2, <1>6, <1>7

Depth == NINODES - ROOT

\* The paths of the entries no deeper than the inodes there are.
Shown(d, h) == {x \in Entries(d) : Len(h[x.dir]) < Depth}
PathsOf(d, h) == {Route(h, x) : x \in Shown(d, h)}

\* What TreePaths finds on level k.
Node(q, i) == [path |-> q, ino |-> i]
Level(d, h, k) ==
    IF k = 0 THEN {Node(<<>>, ROOT)} ELSE {Node(Route(h, x), x.ino) : x \in {y \in Entries(d) : Len(h[y.dir]) = k - 1}}
Below(d, x) == {Node(Append(x.path, e.name), e.ino) : e \in EntriesOf(d, x.ino)}
Lower(d, L) == UNION {Below(d, x) : x \in {y \in L : y.ino \in OpenDirs(d)}}

LEMMA NodeIs ==
    ASSUME NEW q, NEW i
    PROVE  Node(q, i).path = q /\ Node(q, i).ino = i
BY DEF Node

\* The directories on a level.
LEMMA LevelDirs ==
    ASSUME NEW d, Treelike(d), NEW N, NEW h, Routes(d, h, N), NEW k \in Nat
    PROVE  \A z : z \in Level(d, h, k) /\ z.ino \in OpenDirs(d) <=>
                    \E j \in Dirs(d) : Len(h[j]) = k /\ z = Node(h[j], j)
<1>0. ROOT \in Dirs(d) /\ h[ROOT] = <<>> /\ \A j \in Dirs(d) : j \in OpenDirs(d) /\ h[j] \in Seq(N)
  BY DirsOpen DEF Treelike, RootOnTop, Routes
<1>1. ASSUME NEW x \in Entries(d)
      PROVE  x.dir \in Dirs(d) /\ h[x.dir] \in Seq(N) /\ x.name \in N /\ Len(h[x.dir]) \in Nat
             /\ Len(Route(h, x)) = Len(h[x.dir]) + 1
             /\ (x.ino \in OpenDirs(d) => x.ino \in Dirs(d) /\ h[x.ino] = Route(h, x))
  <2>1. x.dir \in Dirs(d) /\ x \in EntriesOf(d, x.dir)
    BY EntriesIs
  <2>2. h[x.dir] \in Seq(N) /\ x.name \in N
    BY <2>1 DEF Routes
  <2>3. Len(Route(h, x)) = Len(h[x.dir]) + 1 /\ Len(h[x.dir]) \in Nat
    BY <2>2, AppendIs DEF Route
  <2>4. x.ino \in OpenDirs(d) => x.ino \in Dirs(d)
    BY <2>1, DirsOpen DEF Covers
  <2>5. x.ino \in Dirs(d) => h[x.ino] = Route(h, x)
    BY DEF Routes
  <2> QED BY <2>1, <2>2, <2>3, <2>4, <2>5
<1>2. ASSUME NEW j \in Dirs(d), j # ROOT PROVE \E x \in Entries(d) : x.ino = j /\ h[j] = Route(h, x)
  BY <1>2, RoutesApart
<1>3. CASE k = 0
  <2>1. Level(d, h, k) = {Node(<<>>, ROOT)}
    BY <1>3 DEF Level
  <2>2. ASSUME NEW j \in Dirs(d), Len(h[j]) = k PROVE j = ROOT
    <3> SUFFICES ASSUME j # ROOT PROVE FALSE
      OBVIOUS
    <3>1. PICK x \in Entries(d) : x.ino = j /\ h[j] = Route(h, x)
      BY <1>2
    <3> QED BY <1>1, <1>3, <2>2, <3>1
  <2>3. Len(h[ROOT]) = k
    BY <1>0, <1>3
  <2> QED BY <1>0, <2>1, <2>2, <2>3, NodeIs
<1>4. CASE k # 0
  <2>1. Level(d, h, k) = {Node(Route(h, x), x.ino) : x \in {y \in Entries(d) : Len(h[y.dir]) = k - 1}}
    BY <1>4 DEF Level
  <2>2. ASSUME NEW z, z \in Level(d, h, k), z.ino \in OpenDirs(d)
        PROVE  \E j \in Dirs(d) : Len(h[j]) = k /\ z = Node(h[j], j)
    <3>1. PICK x \in Entries(d) : Len(h[x.dir]) = k - 1 /\ z = Node(Route(h, x), x.ino)
      BY <2>1, <2>2
    <3>2. z.ino = x.ino
      BY <3>1, NodeIs
    <3>3. x.ino \in Dirs(d) /\ h[x.ino] = Route(h, x) /\ Len(Route(h, x)) = Len(h[x.dir]) + 1
      BY <1>1, <2>2, <3>2
    <3>4. Len(h[x.ino]) = k
      BY <3>1, <3>3
    <3> QED BY <3>1, <3>3, <3>4
  <2>3. ASSUME NEW j \in Dirs(d), Len(h[j]) = k, NEW z, z = Node(h[j], j)
        PROVE  z \in Level(d, h, k) /\ z.ino \in OpenDirs(d)
    <3>1. j # ROOT
      BY <1>0, <1>4, <2>3
    <3>2. PICK x \in Entries(d) : x.ino = j /\ h[j] = Route(h, x)
      BY <1>2, <3>1
    <3>3. Len(h[x.dir]) = k - 1
      <4>1. Len(h[x.dir]) + 1 = k /\ Len(h[x.dir]) \in Nat
        BY <1>1, <2>3, <3>2
      <4> QED BY <4>1
    <3>4. z = Node(Route(h, x), x.ino)
      BY <2>3, <3>2
    <3>5. z.ino = j /\ j \in OpenDirs(d)
      BY <1>0, <2>3, NodeIs
    <3>6. z \in Level(d, h, k)
      BY <2>1, <3>3, <3>4
    <3> QED BY <3>5, <3>6
  <2> QED BY <2>2, <2>3
<1> QED BY <1>3, <1>4

\* One level is below the other.
LEMMA LevelOn ==
    ASSUME NEW d, Treelike(d), NEW N, NEW h, Routes(d, h, N), NEW k \in Nat
    PROVE  Level(d, h, k + 1) = Lower(d, Level(d, h, k))
<1>1. Level(d, h, k + 1) = {Node(Route(h, x), x.ino) : x \in {y \in Entries(d) : Len(h[y.dir]) = k}}
  <2>1. k + 1 # 0 /\ (k + 1) - 1 = k
    OBVIOUS
  <2> QED BY <2>1 DEF Level
<1>2. ASSUME NEW z \in Level(d, h, k + 1) PROVE z \in Lower(d, Level(d, h, k))
  <2>1. PICK x \in Entries(d) : Len(h[x.dir]) = k /\ z = Node(Route(h, x), x.ino)
    BY <1>1
  <2>2. x.dir \in Dirs(d) /\ x \in EntriesOf(d, x.dir)
    BY EntriesIs
  <2> DEFINE y == Node(h[x.dir], x.dir)
  <2>3. y \in Level(d, h, k) /\ y.ino \in OpenDirs(d)
    BY <2>1, <2>2, LevelDirs
  <2>4. y.path = h[x.dir] /\ y.ino = x.dir
    BY NodeIs
  <2> HIDE DEF y
  <2>5. z \in Below(d, y)
    BY <2>1, <2>2, <2>4 DEF Below, Route
  <2> QED BY <2>3, <2>5 DEF Lower
<1>3. ASSUME NEW z \in Lower(d, Level(d, h, k)) PROVE z \in Level(d, h, k + 1)
  <2>1. PICK y \in Level(d, h, k) : y.ino \in OpenDirs(d) /\ z \in Below(d, y)
    BY <1>3 DEF Lower
  <2>2. PICK j \in Dirs(d) : Len(h[j]) = k /\ y = Node(h[j], j)
    BY <2>1, LevelDirs
  <2>3. y.path = h[j] /\ y.ino = j
    BY <2>2, NodeIs
  <2>4. PICK e \in EntriesOf(d, j) : z = Node(Append(h[j], e.name), e.ino)
    BY <2>1, <2>3 DEF Below
  <2>5. e.dir = j /\ e \in Entries(d)
    BY EntriesOfIs, EntriesIs
  <2>6. z = Node(Route(h, e), e.ino) /\ Len(h[e.dir]) = k
    BY <2>2, <2>4, <2>5 DEF Route
  <2> QED BY <1>1, <2>5, <2>6
<1> QED BY <1>2, <1>3

\* TreePaths finds the paths of the entries.
LEMMA TreePathsAre ==
    ASSUME NEW d, Treelike(d), NEW N, NEW h, Routes(d, h, N)
    PROVE  TreePaths(d) = PathsOf(d, h)
<1> DEFINE M == NINODES - ROOT
           F(l) == [k \in 0 .. M |-> IF k = 0 THEN {Node(<<>>, ROOT)} ELSE Lower(d, l[k - 1])]
           level == CHOOSE l : l = F(l)
           lev == [k \in 0 .. M |-> Level(d, h, k)]
<1>0. M \in Nat /\ M = Depth
  BY FileSystemAssumption DEF ROOT, Depth
<1>1. TreePaths(d) = {x.path : x \in UNION {level[k] : k \in 1 .. M}}
  BY Zenon DEF TreePaths, Lower, Below, Node
<1> HIDE DEF M
<1>2. lev = F(lev)
  <2>1. ASSUME NEW k \in 0 .. M PROVE Level(d, h, k) = IF k = 0 THEN {Node(<<>>, ROOT)} ELSE Lower(d, lev[k - 1])
    <3>1. CASE k = 0
      BY <3>1 DEF Level
    <3>2. CASE k # 0
      <4>1. k - 1 \in Nat /\ (k - 1) + 1 = k /\ k - 1 \in 0 .. M
        BY <1>0, <3>2
      <4>2. lev[k - 1] = Level(d, h, k - 1)
        BY <4>1
      <4>3. Level(d, h, (k - 1) + 1) = Lower(d, Level(d, h, k - 1))
        BY <4>1, LevelOn
      <4> HIDE DEF lev
      <4> QED BY <3>2, <4>1, <4>2, <4>3
    <3> QED BY <3>1, <3>2
  <2> QED BY <2>1, Zenon
<1>3. level = F(level)
  <2> HIDE DEF F
  <2>1. \E l : l = F(l)
    BY <1>2
  <2> QED BY <2>1, Zenon
<1>4. ASSUME NEW k \in 0 .. M
      PROVE  level[k] = IF k = 0 THEN {Node(<<>>, ROOT)} ELSE Lower(d, level[k - 1])
  <2> HIDE DEF level
  <2>1. level = F(level) => level[k] = F(level)[k]
    OBVIOUS
  <2>2. F(level)[k] = IF k = 0 THEN {Node(<<>>, ROOT)} ELSE Lower(d, level[k - 1])
    BY Zenon
  <2> HIDE DEF F
  <2> QED BY <1>3, <2>1, <2>2
<1> HIDE DEF level, lev, F
<1> DEFINE T == {k \in 0 .. M : level[k] = Level(d, h, k)}
<1>5. 0 \in T
  BY <1>0, <1>4 DEF Level
<1>6. ASSUME NEW k \in 0 .. M - 1, k \in T PROVE k + 1 \in T
  <2>1. k \in Nat /\ k + 1 \in 0 .. M /\ k + 1 # 0 /\ (k + 1) - 1 = k
    BY <1>0
  <2>2. level[k + 1] = Lower(d, level[k])
    BY <1>4, <2>1
  <2>3. level[k + 1] = Level(d, h, k + 1)
    BY <1>6, <2>1, <2>2, LevelOn
  <2> QED BY <2>1, <2>3
<1> HIDE DEF T
<1>7. 0 .. M \subseteq T
  BY <1>0, <1>5, <1>6, SetInduction
<1>8. \A k \in 1 .. M : level[k] = Level(d, h, k)
  BY <1>0, <1>7 DEF T
<1>9. ASSUME NEW x \in Entries(d) PROVE Len(h[x.dir]) \in Nat
  <2>1. h[x.dir] \in Seq(N)
    BY RoutesApart
  <2> QED BY <2>1
<1>10. ASSUME NEW q \in TreePaths(d) PROVE q \in PathsOf(d, h)
  <2>1. PICK k \in 1 .. M : \E z \in Level(d, h, k) : q = z.path
    BY <1>1, <1>8
  <2>2. PICK z \in Level(d, h, k) : q = z.path
    BY <2>1
  <2>3. Level(d, h, k) = {Node(Route(h, x), x.ino) : x \in {y \in Entries(d) : Len(h[y.dir]) = k - 1}}
    <3>1. k # 0
      BY <1>0
    <3> QED BY <3>1 DEF Level
  <2>4. PICK x \in Entries(d) : Len(h[x.dir]) = k - 1 /\ z = Node(Route(h, x), x.ino)
    BY <2>3
  <2>5. q = Route(h, x)
    BY <2>2, <2>4, NodeIs
  <2>6. Len(h[x.dir]) < Depth
    BY <1>0, <2>4
  <2> QED BY <2>5, <2>6 DEF PathsOf, Shown
<1>11. ASSUME NEW q \in PathsOf(d, h) PROVE q \in TreePaths(d)
  <2>1. PICK x \in Entries(d) : Len(h[x.dir]) < Depth /\ q = Route(h, x)
    BY <1>11 DEF PathsOf, Shown
  <2> DEFINE k == Len(h[x.dir]) + 1
             z == Node(Route(h, x), x.ino)
  <2>2. k \in 1 .. M /\ k # 0 /\ k - 1 = Len(h[x.dir])
    BY <1>0, <1>9, <2>1
  <2>3. z \in Level(d, h, k)
    <3> HIDE DEF k
    <3> QED BY <2>2 DEF Level
  <2>4. q = z.path
    BY <2>1, NodeIs
  <2> HIDE DEF z, k
  <2> QED BY <1>1, <1>8, <2>2, <2>3, <2>4
<1> QED BY <1>10, <1>11

\* The names of e are those of d and the name x, of a file or of a directory without names.
Gains(d, e, x) ==
    /\ x.dir \in Dirs(d) /\ x.ino \notin Dirs(d) /\ Entries(e) = Entries(d) \cup {x}
    /\ Dirs(e) = Dirs(d) \/ Dirs(e) = Dirs(d) \cup {x.ino}

\* They are those of d but the name x, and what is below it.
Loses(d, e, x) ==
    /\ x \in Entries(d) /\ Dirs(e) \subseteq Dirs(d) /\ x.ino \notin Dirs(e)
    /\ \A y : y \in Entries(e) <=> y \in Entries(d) /\ y # x /\ y.dir \in Dirs(e)
    /\ \A y \in Entries(e) : y.ino \in Dirs(d) => y.ino \in Dirs(e)

NamesKept(d, e) == Dirs(e) = Dirs(d) /\ Entries(e) = Entries(d)
Renamed(d, e) == NamesKept(d, e) \/ \E x : Gains(d, e, x) \/ Loses(d, e, x)

\* A step of NameTree, or none.
Moves(t, u) == u = t \/ Abstract!Adds(t, u) \/ Abstract!Deletes(t, u)

LEMMA KeepsPaths ==
    ASSUME NEW d, NEW e, Treelike(d), Treelike(e), NamesKept(d, e)
    PROVE  TreePaths(e) = TreePaths(d)
<1> DEFINE N == {x.name : x \in Entries(d)}
<1>1. PICK h : Routes(d, h, N)
  <2>1. \A x \in Entries(d) : x.name \in N
    OBVIOUS
  <2> HIDE DEF N
  <2> QED BY <2>1, RoutesExist
<1> HIDE DEF N
<1>2. Routes(e, h, N)
  BY <1>1 DEF Routes, NamesKept
<1>3. TreePaths(d) = PathsOf(d, h) /\ TreePaths(e) = PathsOf(e, h)
  BY <1>1, <1>2, TreePathsAre
<1> QED BY <1>3 DEF PathsOf, Shown, NamesKept

LEMMA GainsRoutes ==
    ASSUME NEW d, NEW e, Treelike(d), Treelike(e), NEW x, Gains(d, e, x),
           NEW N, NEW h, Routes(d, h, N), x.name \in N
    PROVE  \E k : Routes(e, k, N) /\ \A j \in Dirs(d) : k[j] = h[j]
<1> DEFINE k == [j \in Dirs(e) |-> IF j \in Dirs(d) THEN h[j] ELSE Route(h, x)]
<1>1. h[x.dir] \in Seq(N) /\ Route(h, x) \in Seq(N)
  <2>1. h[x.dir] \in Seq(N)
    BY DEF Gains, Routes
  <2> QED BY <2>1, AppendIs DEF Route
<1>2. k \in [Dirs(e) -> Seq(N)]
  BY <1>1 DEF Routes
<1>3. \A j \in Dirs(d) : k[j] = h[j]
  BY DEF Gains
<1>4. k[ROOT] = <<>>
  BY <1>3 DEF Treelike, RootOnTop, Routes
<1>5. ASSUME NEW j \in Dirs(e) \ Dirs(d) PROVE j = x.ino /\ k[j] = Route(h, x)
  BY DEF Gains
<1> HIDE DEF k
<1>6. ASSUME NEW y \in Entries(e) PROVE y.name \in N /\ (y.ino \in Dirs(e) => k[y.ino] = Route(k, y))
  <2>1. y.dir \in Dirs(d)
    BY <1>6, EntriesIs DEF Gains
  <2>2. Route(k, y) = Route(h, y)
    BY <1>3, <2>1 DEF Route
  <2>3. CASE y = x
    <3>1. y.ino \notin Dirs(d)
      BY <2>3 DEF Gains
    <3> QED BY <1>5, <2>2, <2>3, <3>1
  <2>4. CASE y # x
    <3>1. y \in Entries(d)
      BY <1>6, <2>4 DEF Gains
    <3>2. y.name \in N /\ (y.ino \in Dirs(d) => h[y.ino] = Route(h, y))
      BY <3>1 DEF Routes
    <3>3. ASSUME y.ino \in Dirs(e), y.ino \notin Dirs(d) PROVE FALSE
      <4>1. y.ino = x.ino /\ x \in Entries(e) /\ y.ino # ROOT
        BY <1>5, <3>3 DEF Gains, Treelike, RootOnTop
      <4>2. PICK z \in Entries(e) : Named(Entries(e), y.ino) = {z}
        BY <3>3, <4>1 DEF Treelike, Hangs
      <4>3. x \in Named(Entries(e), y.ino) /\ y \in Named(Entries(e), y.ino)
        BY <1>6, <4>1 DEF Named
      <4> QED BY <2>4, <4>2, <4>3
    <3> QED BY <1>3, <2>2, <3>2, <3>3
  <2> QED BY <2>3, <2>4
<1>7. Routes(e, k, N)
  BY <1>2, <1>4, <1>6 DEF Routes
<1> QED BY <1>3, <1>7

LEMMA GainsMoves ==
    ASSUME NEW d, NEW e, Treelike(d), Treelike(e), NEW x, Gains(d, e, x)
    PROVE  Moves(TreePaths(d), TreePaths(e))
<1> DEFINE N == {y.name : y \in Entries(e)}
           t == TreePaths(d)
           u == TreePaths(e)
<1>1. x.name \in N /\ \A y \in Entries(d) : y.name \in N
  BY DEF Gains
<1> HIDE DEF N
<1>2. PICK h : Routes(d, h, N)
  BY <1>1, RoutesExist
<1>3. PICK k : Routes(e, k, N) /\ \A j \in Dirs(d) : k[j] = h[j]
  BY <1>1, <1>2, GainsRoutes
<1>4. t = PathsOf(d, h) /\ u = PathsOf(e, k)
  BY <1>2, <1>3, TreePathsAre
<1> HIDE DEF t, u
<1>5. \A y \in Entries(e) : k[y.dir] = h[y.dir] /\ Route(k, y) = Route(h, y)
  <2>1. \A y \in Entries(e) : y.dir \in Dirs(d)
    BY EntriesIs DEF Gains
  <2> QED BY <1>3, <2>1 DEF Route
<1> DEFINE p == Route(h, x)
<1>6. h[x.dir] \in Seq(N) /\ Len(h[x.dir]) \in Nat /\ Front(p) = h[x.dir]
  <2>1. h[x.dir] \in Seq(N)
    BY <1>2 DEF Gains, Routes
  <2> QED BY <1>1, <2>1, AppendIs DEF Route
<1> HIDE DEF p
<1>7. CASE Len(h[x.dir]) < Depth
  <2>1. Shown(e, k) = Shown(d, h) \cup {x}
    BY <1>5, <1>7 DEF Shown, Gains
  <2>2. \A y \in Shown(e, k) : Route(k, y) = Route(h, y)
    BY <1>5 DEF Shown
  <2>3. u = t \cup {p}
    BY <1>4, <2>1, <2>2 DEF PathsOf, p
  <2>4. Front(p) \in t \cup {<<>>}
    <3>1. CASE x.dir = ROOT
      BY <1>2, <1>6, <3>1 DEF Routes
    <3>2. CASE x.dir # ROOT
      <4>1. PICK y \in Entries(d) : y.ino = x.dir /\ h[x.dir] = Route(h, y)
        <5>1. x.dir \in Dirs(d)
          BY DEF Gains
        <5> QED BY <1>2, <3>2, <5>1, RoutesApart
      <4>2. h[y.dir] \in Seq(N) /\ y.name \in N
        BY <1>2, RoutesApart
      <4>3. Len(h[x.dir]) = Len(h[y.dir]) + 1 /\ Len(h[y.dir]) \in Nat
        BY <4>1, <4>2, AppendIs DEF Route
      <4>4. Depth \in Int
        BY FileSystemAssumption DEF Depth, ROOT
      <4>5. Len(h[y.dir]) < Depth
        BY <1>7, <4>3, <4>4
      <4>6. y \in Shown(d, h)
        BY <4>5 DEF Shown
      <4>7. Front(p) \in PathsOf(d, h)
        BY <1>6, <4>1, <4>6 DEF PathsOf
      <4> QED BY <1>4, <4>7
    <3> QED BY <3>1, <3>2
  <2>5. CASE p \in t
    BY <2>3, <2>5 DEF Moves, t, u
  <2>6. CASE p \notin t
    <3>1. Abstract!Adds(t, u)
      BY <2>3, <2>4, <2>6 DEF Abstract!Adds, Abstract!Front, Front
    <3> QED BY <3>1 DEF Moves, t, u
  <2> QED BY <2>5, <2>6
<1>8. CASE ~(Len(h[x.dir]) < Depth)
  <2>1. Shown(e, k) = Shown(d, h)
    BY <1>5, <1>8 DEF Shown, Gains
  <2>2. \A y \in Shown(e, k) : Route(k, y) = Route(h, y)
    BY <1>5 DEF Shown
  <2>3. u = t
    BY <1>4, <2>1, <2>2 DEF PathsOf
  <2> QED BY <2>3 DEF Moves, t, u
<1> QED BY <1>7, <1>8

\* What is lost with the entry x is what begins with its path.
LEMMA LosesBelow ==
    ASSUME NEW d, NEW e, Treelike(d), Treelike(e), NEW x, Loses(d, e, x), NEW N, NEW h,
           Routes(d, h, N),
           NEW j \in Dirs(d)
    PROVE  j \in Dirs(e) <=> ~IsPrefix(Route(h, x), h[j])
<1> DEFINE p == Route(h, x)
           A == {i \in Dirs(d) : i \in Dirs(e) <=> ~IsPrefix(p, h[i])}
<1>1. p \in Seq(N) /\ p # <<>> /\ \A i \in Dirs(d) : h[i] \in Seq(N)
  <2>1. h[x.dir] \in Seq(N) /\ x.name \in N
    BY RoutesApart DEF Loses
  <2> QED BY <2>1, AppendIs DEF Route, Routes
<1>2. x \in Entries(d) /\ x.dir \in Dirs(d)
  BY EntriesIs DEF Loses
<1>3. ROOT \in A
  <2>1. h[ROOT] = <<>> /\ ROOT \in Dirs(d) /\ ROOT \in Dirs(e)
    BY DEF Routes, Treelike, RootOnTop
  <2>2. Len(p) \in Nat /\ Len(p) # 0
    BY <1>1
  <2>3. ~IsPrefix(p, <<>>)
    BY <2>2 DEF IsPrefix
  <2> QED BY <2>1, <2>3
<1>4. ASSUME NEW i \in Dirs(d) \ {ROOT}, UpOf(d, i) \in A PROVE i \in A
  <2>1. PICK y \in Entries(d) : y.ino = i /\ y.dir \in Dirs(d) /\ UpOf(d, i) = y.dir /\ h[i] = Route(h, y)
    BY RoutesApart
  <2>2. h[y.dir] \in Seq(N) /\ y.name \in N
    BY RoutesApart
  <2>3. IsPrefix(p, h[i]) <=> IsPrefix(p, h[y.dir]) \/ p = Route(h, y)
    <3> HIDE DEF p
    <3>1. IsPrefix(p, Route(h, y)) <=> IsPrefix(p, h[y.dir]) \/ p = Route(h, y)
      BY <1>1, <2>2, PrefixOn DEF Route
    <3> QED BY <2>1, <3>1
  <2>4. p = Route(h, y) <=> y = x
    BY <1>2, RoutesApart
  <2>5. y.dir \in Dirs(e) <=> ~IsPrefix(p, h[y.dir])
    BY <1>4, <2>1
  <2>6. \A z \in Entries(d) : z.ino = i => z = y
    <3>1. PICK f \in Entries(d) : Named(Entries(d), i) = {f}
      BY <1>4 DEF Treelike, Hangs
    <3> QED BY <2>1, <3>1 DEF Named
  <2>7. ASSUME i \in Dirs(e) PROVE y # x /\ y.dir \in Dirs(e)
    <3>1. PICK f \in Entries(e) : Named(Entries(e), i) = {f}
      BY <1>4, <2>7 DEF Treelike, Hangs
    <3>2. f.ino = i /\ f \in Entries(d) /\ f # x /\ f.dir \in Dirs(e)
      BY <3>1 DEF Named, Loses
    <3> QED BY <2>6, <3>2
  <2>8. ASSUME y # x, y.dir \in Dirs(e) PROVE i \in Dirs(e)
    <3>1. y \in Entries(e)
      BY <2>1, <2>8 DEF Loses
    <3> QED BY <1>4, <2>1, <3>1 DEF Loses
  <2> HIDE DEF p
  <2> QED BY <1>4, <2>3, <2>4, <2>5, <2>7, <2>8
<1> HIDE DEF A
<1>5. Dirs(d) \subseteq A
  BY <1>3, <1>4, TreeInduction
<1> QED BY <1>5 DEF A

LEMMA LosesMoves ==
    ASSUME NEW d, NEW e, Treelike(d), Treelike(e), NEW x, Loses(d, e, x)
    PROVE  Moves(TreePaths(d), TreePaths(e))
<1> DEFINE N == {y.name : y \in Entries(d)}
           t == TreePaths(d)
           u == TreePaths(e)
<1>1. \A y \in Entries(d) : y.name \in N
  OBVIOUS
<1> HIDE DEF N
<1>2. PICK h : Routes(d, h, N)
  BY <1>1, RoutesExist
<1> DEFINE k == [j \in Dirs(e) |-> h[j]]
           p == Route(h, x)
<1>3. \A j \in Dirs(e) : k[j] = h[j] /\ j \in Dirs(d)
  BY DEF Loses
<1>4. \A y \in Entries(e) : y \in Entries(d) /\ y # x /\ y.dir \in Dirs(e) /\ Route(k, y) = Route(h, y)
  BY <1>3 DEF Loses, Route
<1>5. Routes(e, k, N)
  <2>1. k \in [Dirs(e) -> Seq(N)]
    BY <1>2, <1>3 DEF Routes
  <2>2. k[ROOT] = <<>>
    BY <1>2, <1>3 DEF Routes, Treelike, RootOnTop
  <2> HIDE DEF k
  <2> QED BY <1>2, <1>3, <1>4, <2>1, <2>2 DEF Routes
<1>6. t = PathsOf(d, h) /\ u = PathsOf(e, k)
  BY <1>2, <1>5, TreePathsAre
<1> HIDE DEF t, u, k, p
<1>7. p \in Seq(N) /\ x \in Entries(d)
  <2>1. h[x.dir] \in Seq(N) /\ x.name \in N
    BY <1>2, RoutesApart DEF Loses
  <2> QED BY <2>1, AppendIs DEF Route, p, Loses
\* Which entries are left.
<1>8. ASSUME NEW y \in Entries(d) PROVE y \in Entries(e) <=> ~IsPrefix(p, Route(h, y))
  <2>1. h[y.dir] \in Seq(N) /\ y.name \in N /\ y.dir \in Dirs(d)
    BY <1>2, RoutesApart
  <2>2. IsPrefix(p, Route(h, y)) <=> IsPrefix(p, h[y.dir]) \/ p = Route(h, y)
    BY <1>7, <2>1, PrefixOn DEF Route
  <2>3. p = Route(h, y) <=> y = x
    BY <1>2, <1>7, RoutesApart DEF p
  <2>4. y.dir \in Dirs(e) <=> ~IsPrefix(p, h[y.dir])
    BY <1>2, <2>1, LosesBelow DEF p
  <2> QED BY <1>8, <2>2, <2>3, <2>4 DEF Loses
<1>9. u = {q \in t : ~IsPrefix(p, q)}
  <2>1. ASSUME NEW q \in u PROVE q \in t /\ ~IsPrefix(p, q)
    <3>1. PICK y \in Shown(e, k) : q = Route(k, y)
      BY <1>6, <2>1 DEF PathsOf
    <3>2. y \in Entries(e) /\ y \in Entries(d) /\ Route(k, y) = Route(h, y) /\ k[y.dir] = h[y.dir]
      BY <1>3, <1>4, <3>1 DEF Shown
    <3>3. y \in Shown(d, h)
      BY <3>1, <3>2 DEF Shown
    <3> QED BY <1>6, <1>8, <3>1, <3>2, <3>3 DEF PathsOf
  <2>2. ASSUME NEW q \in t, ~IsPrefix(p, q) PROVE q \in u
    <3>1. PICK y \in Shown(d, h) : q = Route(h, y)
      BY <1>6, <2>2 DEF PathsOf
    <3>2. y \in Entries(d)
      BY <3>1 DEF Shown
    <3>3. y \in Entries(e)
      BY <1>8, <2>2, <3>1, <3>2
    <3>4. Route(k, y) = q /\ k[y.dir] = h[y.dir]
      BY <1>3, <1>4, <3>1, <3>3
    <3>5. y \in Shown(e, k)
      BY <3>1, <3>3, <3>4 DEF Shown
    <3> QED BY <1>6, <3>4, <3>5 DEF PathsOf
  <2> QED BY <2>1, <2>2
<1>10. IsPrefix(p, p)
  BY <1>7 DEF IsPrefix
<1>11. CASE p \in t
  <2>1. p \in t \ u
    BY <1>9, <1>10, <1>11
  <2>2. Abstract!Deletes(t, u)
    BY <1>9, <2>1 DEF Abstract!Deletes, Abstract!IsPrefix, IsPrefix
  <2> QED BY <2>2 DEF Moves, t, u
<1>12. CASE p \notin t
  <2>1. ASSUME NEW q \in t PROVE ~IsPrefix(p, q)
    <3>1. PICK y \in Shown(d, h) : q = Route(h, y)
      BY <1>6, <2>1 DEF PathsOf
    <3>2. y \in Entries(d) /\ Len(h[y.dir]) < Depth
      BY <3>1 DEF Shown
    <3>3. h[y.dir] \in Seq(N) /\ y.name \in N /\ h[x.dir] \in Seq(N) /\ x.name \in N
      BY <1>2, <1>7, <3>2, RoutesApart
    <3>4. Len(q) = Len(h[y.dir]) + 1 /\ Len(p) = Len(h[x.dir]) + 1 /\ Len(h[y.dir]) \in Nat /\ Len(h[x.dir]) \in Nat
      BY <3>1, <3>3, AppendIs DEF Route, p
    <3>5. ~(Len(h[x.dir]) < Depth)
      BY <1>6, <1>7, <1>12 DEF PathsOf, Shown, p
    <3>6. Depth \in Int
      BY FileSystemAssumption DEF Depth, ROOT
    <3>7. ~(Len(p) <= Len(q))
      BY <3>2, <3>4, <3>5, <3>6
    <3> QED BY <3>7 DEF IsPrefix
  <2>2. u = t
    BY <1>9, <2>1
  <2> QED BY <2>2 DEF Moves, t, u
<1> QED BY <1>11, <1>12

\* Names that one command has made of others are a step of NameTree.
LEMMA RenamedMoves ==
    ASSUME NEW d, NEW e, Treelike(d), Treelike(e), Renamed(d, e)
    PROVE  Moves(TreePaths(d), TreePaths(e))
<1>1. CASE NamesKept(d, e)
  BY <1>1, KeepsPaths DEF Moves
<1>2. CASE \E x : Gains(d, e, x) \/ Loses(d, e, x)
  BY <1>2, GainsMoves, LosesMoves
<1> QED BY <1>1, <1>2 DEF Renamed

-------------------------------------------------------------------------------
\* What the commands do to the names.
LEMMA FileNamedRenames ==
    ASSUME NEW d, NEW e, NEW x, x = Entry(x.dir, x.name, x.ino), Proper(d), Proper(e),
           FileNamed(d, e, x), Sound(d)
    PROVE  Renamed(d, e)
<1>1. Dirs(e) = Dirs(d) /\ Entries(e) = Entries(d) \cup {x}
  BY FileNamedSound
<1>2. x.dir \in Dirs(d) /\ x.ino \notin Dirs(d)
  BY DirsOpen DEF FileNamed, Fresh
<1> QED BY <1>1, <1>2 DEF Renamed, Gains

LEMMA DirNamedRenames ==
    ASSUME NEW d, NEW e, NEW x, x = Entry(x.dir, x.name, x.ino), Proper(d), Proper(e),
           DirNamed(d, e, x), Sound(d)
    PROVE  Renamed(d, e)
<1>1. Dirs(e) = Dirs(d) \cup {x.ino} /\ Entries(e) = Entries(d) \cup {x}
  BY DirNamedSound
<1>2. x.dir \in Dirs(d) /\ x.ino \notin Dirs(d)
  BY DirsOpen DEF DirNamed, Fresh
<1> QED BY <1>1, <1>2 DEF Renamed, Gains

LEMMA FileDroppedRenames ==
    ASSUME NEW d, NEW e, NEW x, Proper(d), Proper(e), FileDropped(d, e, x), Sound(d)
    PROVE  Renamed(d, e)
<1>1. Dirs(e) = Dirs(d) /\ Entries(e) = Entries(d) \ {x}
  BY FileDroppedSound
<1>2. x \in Entries(d) /\ x.ino \notin Dirs(d)
  BY DirsOpen, OpenIs, FilesIs DEF FileDropped, Dropped
<1>3. \A y : y \in Entries(e) <=> y \in Entries(d) /\ y # x /\ y.dir \in Dirs(e)
  BY <1>1, EntriesIs
<1> QED BY <1>1, <1>2, <1>3 DEF Renamed, Loses

LEMMA DirDroppedRenames ==
    ASSUME NEW d, NEW e, NEW x, Proper(d), Proper(e), DirDropped(d, e, x), Sound(d)
    PROVE  Renamed(d, e)
<1>1. /\ Sound(e) /\ Dirs(e) \subseteq Dirs(d) \ {x.ino}
      /\ \A y : y \in Entries(e) <=> y \in Entries(d) /\ y # x /\ y.dir \in Dirs(e)
  BY DirDroppedSound
<1>2. Treelike(d) /\ x \in Entries(d)
  BY SoundIs DEF DirDropped, Dropped
<1>3. ASSUME NEW y \in Entries(e), y.ino \in Dirs(d) PROVE y.ino \in Dirs(e)
  <2>1. y \in Entries(d) /\ y # x /\ y.dir \in Dirs(e) /\ y \in EntriesOf(e, y.dir)
    BY <1>1, EntriesIs
  <2>2. y.ino # x.ino
    BY <1>2, <1>3, <2>1, OneEntry
  <2>3. y.ino \in OpenDirs(e)
    BY <1>3, <2>2, DirsOpen DEF DirDropped
  <2> QED BY <2>1, <2>3, DirsOpen DEF Covers
<1> QED BY <1>1, <1>2, <1>3 DEF Renamed, Loses

-------------------------------------------------------------------------------
\* What a crash leaves.

Intact(s) == Sound(s.disk) /\ ~Misread(s)

\* A device that is intact has the names that the program saw.
LEMMA IntactKeeps ==
    ASSUME NEW s, Crashable(s), Intact(s)
    PROVE  NamesKept(Seen(s), s.disk) /\ Treelike(s.disk)
<1> DEFINE c == s.disk
           d == Seen(s)
<1>1. Proper(c) /\ Proper(d) /\ Leads(c) /\ Treelike(c)
  BY SeenProper, SoundIs DEF Intact
<1>2. /\ d.imap = c.imap /\ d.bmap = c.bmap /\ d.dir = c.dir /\ d.inode = s.core.inode /\ c.imap \subseteq Inos
  BY SeenIs DEF Crashable, Fit, DiskFit
<1> HIDE DEF d
<1>3. ASSUME NEW j \in OpenDirs(c) PROVE j \in OpenDirs(d) /\ EntriesOf(d, j) = EntriesOf(c, j)
  <2>1. j \in Inos /\ c.inode[j].kind = "dir"
    BY <1>2, OpenIs
  <2>2. d.inode[j].kind = "dir" /\ d.inode[j].block = c.inode[j].block
    BY <1>2, <2>1 DEF Crashable, Behind, Follows
  <2> QED BY <1>2, <2>2, OpenIs DEF EntriesOf
<1>4. Dirs(c) \subseteq Dirs(d)
  <2> DEFINE S == Dirs(d) \cap OpenDirs(c)
  <2>1. ROOT \in OpenDirs(c) => ROOT \in S
    BY <1>3, DirsOpen
  <2>2. ASSUME NEW i \in S, NEW y \in EntriesOf(c, i), y.ino \in OpenDirs(c) PROVE y.ino \in S
    <3>1. y \in EntriesOf(d, i) /\ y.ino \in OpenDirs(d)
      BY <1>3, <2>2
    <3> QED BY <2>2, <3>1, DirsOpen DEF Covers
  <2> HIDE DEF S
  <2>3. Dirs(c) \subseteq S
    BY <2>1, <2>2, DirsLeast DEF Covers
  <2> QED BY <2>3 DEF S
<1>5. Dirs(d) \subseteq Dirs(c)
  <2>1. ASSUME NEW i \in Dirs(c), NEW y \in EntriesOf(d, i), y.ino \in OpenDirs(d) PROVE y.ino \in Dirs(c)
    <3>1. y \in EntriesOf(c, i) /\ y.dir = i
      BY <1>3, <2>1, DirsOpen, EntriesOfIs
    <3>2. y.ino \in Files(c) \cup Dirs(c)
      BY <1>1, <2>1, <3>1, EntriesIs DEF Leads
    <3>3. y.ino \notin Files(c)
      BY <1>2, <2>1, OpenIs, FilesIs DEF Intact, Misread
    <3> QED BY <3>2, <3>3
  <2>2. ROOT \in Dirs(c)
    BY <1>1 DEF Treelike, RootOnTop
  <2> QED BY <2>1, <2>2, DirsLeast DEF Covers
<1>6. Dirs(c) = Dirs(d)
  BY <1>4, <1>5
<1>7. Entries(c) = Entries(d)
  <2>1. \A y : y \in Entries(c) <=> y \in Entries(d)
    BY <1>3, <1>6, DirsOpen, EntriesIs
  <2> QED BY <2>1
<1> QED BY <1>1, <1>6, <1>7 DEF NamesKept, d

\* One name at most is damaged.
AtMostOne(d) == Cardinality(BadEntries(d)) + Cardinality(ShortFiles(d)) <= 1

LEMMA DamageIs ==
    ASSUME NEW d, Proper(d)
    PROVE  /\ \A x : x \in BadEntries(d) <=> x \in Entries(d) /\ x.ino \notin Files(d) \cup Dirs(d)
           /\ \A i : i \in ShortFiles(d) <=>
                i \in Files(d) /\ ~(Cardinality(Named(Entries(d), i)) <= d.inode[i].links)
<1>1. \A x : x \in BadEntries(d) <=> x \in Entries(d) /\ x.ino \notin Files(d) \cup Dirs(d)
  BY DEF BadEntries
<1>2. ASSUME NEW i
      PROVE  i \in ShortFiles(d) <=> i \in Files(d) /\ ~(Cardinality(Named(Entries(d), i)) <= d.inode[i].links)
  <2>1. Cardinality(Named(Entries(d), i)) \in Nat /\ Files(d) \subseteq Inos /\ \A j \in Inos : d.inode[j].links \in Int
    BY NamedFinite
  <2>2. i \in ShortFiles(d) <=> i \in Inos /\ Excess(d)[i] < 0
    BY DEF ShortFiles
  <2>3. CASE i \in Inos
    <3>1. Excess(d)[i] = IF i \in Files(d) THEN d.inode[i].links - Cardinality(Named(Entries(d), i)) ELSE 0
      BY <2>3, ExcessIs
    <3> QED BY <2>1, <2>2, <2>3, <3>1
  <2>4. CASE i \notin Inos
    BY <2>1, <2>2, <2>4
  <2> QED BY <2>3, <2>4
<1> QED BY <1>1, <1>2

LEMMA OneAtMost ==
    ASSUME NEW d, NEW x, NEW i, \/ BadEntries(d) = {} /\ ShortFiles(d) \subseteq {i}
                                \/ BadEntries(d) \subseteq {x} /\ ShortFiles(d) = {}
    PROVE  AtMostOne(d)
<1>1. Cardinality({}) = 0 /\ \A y : Cardinality({y}) = 1
  BY FS_EmptySet, FS_Singleton
<1>2. ASSUME NEW S, NEW y, S \subseteq {y} PROVE Cardinality(S) \in {0, 1}
  <2>1. S = {} \/ S = {y}
    BY <1>2
  <2> QED BY <1>1, <2>1
<1> QED BY <1>1, <1>2 DEF AtMostOne

LEMMA SoundAtMostOne ==
    ASSUME NEW d, Sound(d)
    PROVE  AtMostOne(d)
BY FS_EmptySet DEF Sound, AtMostOne

\* The image e has all that d has, and perhaps the entry y.
Extends(d, e, y) ==
    /\ \A j \in Dirs(d) : /\ j \in OpenDirs(e)
                          /\ EntriesOf(d, j) \subseteq EntriesOf(e, j)
                          /\ EntriesOf(e, j) \subseteq EntriesOf(d, j) \cup {y}
    /\ OpenDirs(e) \cap Files(d) = {} /\ y.ino \notin OpenDirs(e)
    /\ Files(d) \subseteq Files(e) /\ Files(e) \subseteq Files(d) \cup {y.ino}
    /\ \A j \in Files(d) \ {y.ino} : e.inode[j].links = d.inode[j].links

LEMMA ExtendsNames ==
    ASSUME NEW d, NEW e, NEW y, Proper(d), Proper(e), Sound(d), Extends(d, e, y)
    PROVE  /\ Dirs(e) = Dirs(d) /\ Entries(d) \subseteq Entries(e) /\ Entries(e) \subseteq Entries(d) \cup {y}
           /\ Renamed(d, e) /\ AtMostOne(e)
<1>0. Leads(d) /\ Linked(d) /\ Treelike(d)
  BY SoundIs
<1>1. Dirs(e) = Dirs(d)
  <2>1. ASSUME NEW i \in Dirs(d), NEW z \in EntriesOf(e, i), z.ino \in OpenDirs(e) PROVE z.ino \in Dirs(d)
    <3>1. z \in EntriesOf(d, i)
      BY <2>1 DEF Extends
    <3>2. z.dir = i
      BY <3>1, EntriesOfIs
    <3>3. z.ino \in Files(d) \cup Dirs(d)
      BY <1>0, <2>1, <3>1, <3>2, EntriesIs DEF Leads
    <3> QED BY <2>1, <3>3 DEF Extends
  <2>2. ROOT \in Dirs(d)
    BY <1>0 DEF Treelike, RootOnTop
  <2>3. Dirs(e) \subseteq Dirs(d)
    BY <2>1, <2>2, DirsLeast DEF Covers
  <2> DEFINE S == Dirs(e) \cap Dirs(d)
  <2>4. ROOT \in S
    BY <2>2, DirsOpen DEF Extends
  <2>5. ASSUME NEW i \in S, NEW z \in EntriesOf(d, i), z.ino \in OpenDirs(d) PROVE z.ino \in S
    <3>1. z.ino \in Dirs(d)
      BY <2>5, DirsOpen DEF Covers
    <3>2. z.ino \in OpenDirs(e) /\ z \in EntriesOf(e, i)
      BY <2>5, <3>1 DEF Extends
    <3>3. z.ino \in Dirs(e)
      BY <2>5, <3>2, DirsOpen DEF Covers
    <3> QED BY <3>1, <3>3
  <2> HIDE DEF S
  <2>6. Dirs(d) \subseteq S
    BY <2>4, <2>5, DirsLeast DEF Covers
  <2> QED BY <2>3, <2>6 DEF S
<1>2. Entries(d) \subseteq Entries(e)
  <2>1. ASSUME NEW z \in Entries(d) PROVE z \in Entries(e)
    <3>1. z.dir \in Dirs(d) /\ z \in EntriesOf(d, z.dir)
      BY EntriesIs
    <3> QED BY <1>1, <3>1, EntriesIs DEF Extends
  <2> QED BY <2>1
<1>3. Entries(e) \subseteq Entries(d) \cup {y}
  <2>1. ASSUME NEW z \in Entries(e), z # y PROVE z \in Entries(d)
    <3>1. z.dir \in Dirs(d) /\ z \in EntriesOf(e, z.dir)
      BY <1>1, EntriesIs
    <3>2. z \in EntriesOf(d, z.dir)
      BY <2>1, <3>1 DEF Extends
    <3> QED BY <3>1, <3>2, EntriesIs
  <2> QED BY <2>1
<1>4. Renamed(d, e)
  <2>1. CASE y \in Entries(e)
    <3>1. y.dir \in Dirs(d) /\ y.ino \notin Dirs(d)
      BY <1>1, <2>1, EntriesIs DEF Extends
    <3>2. Entries(e) = Entries(d) \cup {y}
      BY <1>2, <1>3, <2>1
    <3> QED BY <1>1, <3>1, <3>2 DEF Renamed, Gains
  <2>2. CASE y \notin Entries(e)
    <3>1. Entries(e) = Entries(d)
      BY <1>2, <1>3, <2>2
    <3> QED BY <1>1, <3>1 DEF Renamed, NamesKept
  <2> QED BY <2>1, <2>2
<1>5. BadEntries(e) \subseteq {y}
  <2>1. ASSUME NEW z \in BadEntries(e), z # y PROVE FALSE
    <3>1. z \in Entries(d) /\ z.ino \notin Files(e) \cup Dirs(e)
      BY <1>3, <2>1, DamageIs
    <3>2. z.ino \in Files(d) \cup Dirs(d)
      BY <1>0, <3>1 DEF Leads
    <3> QED BY <1>1, <3>1, <3>2 DEF Extends
  <2> QED BY <2>1
<1>6. ShortFiles(e) \subseteq {y.ino}
  <2>1. ASSUME NEW i \in ShortFiles(e), i # y.ino PROVE FALSE
    <3>1. i \in Files(e) /\ ~(Cardinality(Named(Entries(e), i)) <= e.inode[i].links)
      BY <2>1, DamageIs
    <3>2. i \in Files(d) /\ e.inode[i].links = d.inode[i].links
      BY <2>1, <3>1 DEF Extends
    <3>3. Named(Entries(e), i) = Named(Entries(d), i)
      BY <1>2, <1>3, <2>1 DEF Named
    <3>4. Cardinality(Named(Entries(d), i)) <= d.inode[i].links
      BY <1>0, <3>2 DEF Linked
    <3> QED BY <3>1, <3>2, <3>3, <3>4
  <2> QED BY <2>1
<1>7. AtMostOne(e)
  <2>1. CASE y.ino \in Files(e)
    <3>1. BadEntries(e) = {}
      BY <1>5, <2>1, DamageIs
    <3> QED BY <1>6, <3>1, OneAtMost
  <2>2. CASE y.ino \notin Files(e)
    <3>1. ShortFiles(e) = {}
      BY <1>6, <2>2, DamageIs
    <3> QED BY <1>5, <3>1, OneAtMost
  <2> QED BY <2>1, <2>2
<1> QED BY <1>1, <1>2, <1>3, <1>4, <1>7

\* Two INODEs that lead to the same: a directory to its block, a file by as many links.
Matching(x, y) ==
    /\ x.kind = y.kind
    /\ IF x.kind = "dir" THEN x.block = y.block ELSE x.links = y.links

\* What the disk has of the inodes in use is what the memory has, but for the links of
\* directories.
Written(s) == \A j \in s.disk.imap : Matching(s.disk.inode[j], s.core.inode[j])

\* Two images that show the same.
Likewise(d, e) ==
    /\ e.imap = d.imap /\ e.bmap = d.bmap /\ e.dir = d.dir
    /\ \A j \in d.imap : Matching(d.inode[j], e.inode[j])

LEMMA LikewiseOpen ==
    ASSUME NEW d, NEW e, Likewise(d, e)
    PROVE  /\ OpenDirs(e) = OpenDirs(d) /\ Files(e) = Files(d)
           /\ \A j \in OpenDirs(d) : EntriesOf(e, j) = EntriesOf(d, j) /\ UpOf(e, j) = UpOf(d, j)
<1>1. ASSUME NEW j PROVE /\ j \in OpenDirs(e) <=> j \in OpenDirs(d)
                         /\ j \in Files(e) <=> j \in Files(d)
                         /\ j \in OpenDirs(d) => e.inode[j].block = d.inode[j].block
  BY OpenIs, FilesIs DEF Likewise, Matching
<1>2. ASSUME NEW j \in OpenDirs(d) PROVE EntriesOf(e, j) = EntriesOf(d, j) /\ UpOf(e, j) = UpOf(d, j)
  <2>1. ListOf(e, j) = ListOf(d, j) /\ UpOf(e, j) = UpOf(d, j)
    BY <1>1, <1>2 DEF ListOf, UpOf, Likewise
  <2> QED BY <2>1, SameList
<1> QED BY <1>1, <1>2

LEMMA SameDirs ==
    ASSUME NEW d, NEW e, OpenDirs(e) = OpenDirs(d),
           \A j \in OpenDirs(d) : EntriesOf(e, j) = EntriesOf(d, j)
    PROVE  Dirs(d) \subseteq Dirs(e)
<1> DEFINE S == Dirs(e)
<1>1. ROOT \in OpenDirs(d) => ROOT \in S
  BY DirsOpen
<1>2. Covers(d, S)
  <2>1. Covers(e, S) /\ S \subseteq OpenDirs(d)
    BY DirsOpen
  <2> QED BY <2>1 DEF Covers
<1> HIDE DEF S
<1>3. Dirs(d) \subseteq S
  BY <1>1, <1>2, DirsLeast
<1> QED BY <1>3 DEF S

LEMMA LikewiseSound ==
    ASSUME NEW d, NEW e, Proper(d), Proper(e), Likewise(d, e), Sound(d)
    PROVE  Sound(e) /\ NamesKept(d, e)
<1>1. /\ OpenDirs(e) = OpenDirs(d) /\ Files(e) = Files(d)
      /\ \A j \in OpenDirs(d) : EntriesOf(e, j) = EntriesOf(d, j) /\ UpOf(e, j) = UpOf(d, j)
  BY LikewiseOpen
<1>2. Dirs(e) = Dirs(d) /\ Dirs(d) \subseteq OpenDirs(d)
  BY <1>1, SameDirs, DirsOpen
<1>3. Entries(e) = Entries(d)
  <2>1. \A x : x \in Entries(e) <=> x \in Entries(d)
    BY <1>1, <1>2, EntriesIs
  <2> QED BY <2>1
<1>4. Leads(d) /\ Linked(d) /\ Treelike(d)
  BY SoundIs
<1>5. \A j \in Files(d) : e.inode[j].links = d.inode[j].links
  BY FilesIs DEF Likewise, Matching
<1>6. Linked(e)
  BY <1>1, <1>3, <1>4, <1>5 DEF Linked
<1>7. Leads(e)
  BY <1>1, <1>2, <1>3, <1>4 DEF Leads
<1>8. Treelike(e)
  BY <1>1, <1>2, <1>3, <1>4 DEF Treelike, RootOnTop, Hangs, Distinct
<1> QED BY <1>2, <1>3, <1>6, <1>7, <1>8, SoundIs DEF NamesKept

\* A device to which all has gone that matters is intact.
LEMMA WrittenIntact ==
    ASSUME NEW s, Crashable(s), Written(s), Sound(Seen(s))
    PROVE  Intact(s)
<1>1. /\ Seen(s).imap = s.disk.imap /\ Seen(s).bmap = s.disk.bmap /\ Seen(s).dir = s.disk.dir
      /\ Seen(s).inode = s.core.inode
  BY SeenIs DEF Crashable
<1>2. Likewise(Seen(s), s.disk)
  BY <1>1 DEF Written, Likewise, Matching
<1>3. Sound(s.disk)
  BY <1>2, SeenProper, LikewiseSound
<1>4. ~Misread(s)
  BY DEF Misread, Written, Matching
<1> QED BY <1>3, <1>4 DEF Intact

LEMMA IntactAtMostOne ==
    ASSUME NEW s, Intact(s)
    PROVE  AtMostOne(s.disk)
BY SoundAtMostOne DEF Intact

-------------------------------------------------------------------------------
\* On the way to a name more: inodes and blocks are taken, the name may have been entered.
LikeBut(x, y, but) ==
    /\ x.kind = y.kind
    /\ IF x.kind = "dir" THEN x.block = y.block ELSE but \/ x.links = y.links
Entering(d, c, dd, n, i, B) ==
    /\ d.imap \subseteq c.imap /\ d.bmap \subseteq c.bmap
    /\ \A j \in d.imap : LikeBut(d.inode[j], c.inode[j], j = i)
    /\ \A j \in c.imap \ d.imap : c.inode[j].kind # (IF j = i THEN "dir" ELSE "reg")
    /\ i \in c.imap => i \notin OpenDirs(d)
    /\ i \in d.imap => d.inode[i].kind # "dir"
    /\ \A j \in OpenDirs(d) : d.inode[j].block \notin B
    /\ \/ i # 0 /\ GainsName(d, c, dd, n, i, B)
       \/ \A b \in Blocks \ B : c.dir[b] = d.dir[b]

LEMMA EnteringExtends ==
    ASSUME NEW d, NEW c, Proper(d), Proper(c), NEW dd \in OpenDirs(d), NEW n, NEW i, NEW B,
           Entering(d, c, dd, n, i, B)
    PROVE  Extends(d, c, Entry(dd, n, i))
<1> DEFINE y == Entry(dd, n, i)
<1>1. y.ino = i
  BY EntryIs
<1>2. ASSUME NEW j \in OpenDirs(d)
      PROVE  /\ j \in d.imap /\ j \in c.imap /\ c.inode[j].kind = "dir" /\ c.inode[j].block = d.inode[j].block
             /\ c.inode[j].block \in c.bmap /\ d.inode[j].block \in Blocks \ B
  <2>1. j \in d.imap /\ d.inode[j].kind = "dir" /\ d.inode[j].block \in d.bmap
    BY OpenIs
  <2>2. LikeBut(d.inode[j], c.inode[j], j = i)
    BY <2>1 DEF Entering
  <2>3. d.inode[j].block \in Blocks
    BY EntriesFinite
  <2> QED BY <2>1, <2>2, <2>3 DEF Entering, LikeBut
<1>3. ASSUME NEW j \in OpenDirs(d)
      PROVE  /\ j \in OpenDirs(c) /\ EntriesOf(d, j) \subseteq EntriesOf(c, j)
             /\ EntriesOf(c, j) \subseteq EntriesOf(d, j) \cup {y}
  <2>1. CASE \A b \in Blocks \ B : c.dir[b] = d.dir[b]
    <3>1. c.dir[c.inode[j].block] = d.dir[d.inode[j].block]
      BY <1>2, <1>3, <2>1
    <3>2. ListOf(c, j) = ListOf(d, j) /\ j \in OpenDirs(c)
      BY <1>2, <1>3, <3>1, OpenIs DEF ListOf
    <3> QED BY <3>2, SameList
  <2>2. CASE i # 0 /\ GainsName(d, c, dd, n, i, B)
    <3>1. CASE j = dd
      <4>1. ListOf(c, j) = ListOf(d, j) \cup {Rec(n, i)}
        BY <2>2, <3>1 DEF GainsName
      <4>2. EntriesOf(c, j) = EntriesOf(d, j) \cup {Entry(dd, n, i)}
        BY <2>2, <3>1, <4>1, MoreList
      <4>3. j \in OpenDirs(c)
        BY <1>2, <2>2, <3>1, OpenIs DEF GainsName
      <4> QED BY <4>2, <4>3
    <3>2. CASE j # dd
      <4>1. d.inode[j].block # d.inode[dd].block
        BY <3>2, OwnBlock
      <4>2. c.dir[c.inode[j].block] = d.dir[d.inode[j].block]
        BY <1>2, <1>3, <2>2, <4>1 DEF GainsName
      <4>3. ListOf(c, j) = ListOf(d, j) /\ j \in OpenDirs(c)
        BY <1>2, <1>3, <4>2, OpenIs DEF ListOf
      <4> QED BY <4>3, SameList
    <3> QED BY <3>1, <3>2
  <2> QED BY <2>1, <2>2 DEF Entering
<1>4. ASSUME NEW j \in Files(d) PROVE /\ j \in Files(c) /\ j \notin OpenDirs(c)
                                      /\ j # i => c.inode[j].links = d.inode[j].links
  <2>1. j \in d.imap /\ d.inode[j].kind \notin {"none", "dir"}
    BY FilesIs
  <2>2. LikeBut(d.inode[j], c.inode[j], j = i) /\ j \in c.imap
    BY <2>1 DEF Entering
  <2> QED BY <2>1, <2>2, FilesIs, OpenIs DEF LikeBut
<1>5. ASSUME NEW j \in Files(c) PROVE j \in Files(d) \cup {i}
  <2>1. j \in c.imap /\ c.inode[j].kind \notin {"none", "dir"} /\ c.inode[j].kind \in {"none", "dir", "reg"}
    BY FilesIs DEF Proper, Shaped, Formed
  <2>2. CASE j \in d.imap
    <3>1. LikeBut(d.inode[j], c.inode[j], j = i)
      BY <2>2 DEF Entering
    <3> QED BY <2>1, <2>2, <3>1, FilesIs DEF LikeBut
  <2>3. CASE j \notin d.imap
    BY <2>1, <2>3 DEF Entering
  <2> QED BY <2>2, <2>3
<1>6. i \notin OpenDirs(c)
  <2>1. SUFFICES ASSUME i \in OpenDirs(c) PROVE FALSE
    OBVIOUS
  <2>2. i \in c.imap /\ c.inode[i].kind = "dir"
    BY <2>1, OpenIs
  <2>3. CASE i \in d.imap
    <3>1. LikeBut(d.inode[i], c.inode[i], i = i) /\ d.inode[i].kind # "dir"
      BY <2>3 DEF Entering
    <3> QED BY <2>2, <3>1 DEF LikeBut
  <2>4. CASE i \notin d.imap
    BY <2>2, <2>4 DEF Entering
  <2> QED BY <2>3, <2>4
<1> HIDE DEF y
<1>7. Dirs(d) \subseteq OpenDirs(d)
  BY DirsOpen
<1>8. Extends(d, c, y)
  BY <1>1, <1>3, <1>4, <1>5, <1>6, <1>7 DEF Extends
<1> QED BY <1>8 DEF y

-------------------------------------------------------------------------------
\* A name goes before the link count of its file does.
Shedding(d, e, x) ==
    /\ e.bmap = d.bmap /\ LosesName(d, e, x.dir, x.name, {})
    /\ \A j \in d.imap \ {x.ino} : Matching(d.inode[j], e.inode[j])
    /\ \/ /\ e.imap = d.imap /\ e.inode[x.ino].kind = d.inode[x.ino].kind
          /\ e.inode[x.ino].links >= d.inode[x.ino].links - 1
       \/ /\ e.imap = d.imap \ {x.ino} /\ e.inode[x.ino].kind = "none"
          /\ d.inode[x.ino].links - 1 <= 0

LEMMA SheddingOpen ==
    ASSUME NEW d, NEW e, Proper(d), Proper(e), Treelike(d), NEW x \in Entries(d),
           x.ino \in Files(d),
           Shedding(d, e, x)
    PROVE  /\ Dropped(d, e, x) /\ OpenDirs(e) = OpenDirs(d) /\ x.ino \notin OpenDirs(d)
           /\ \A j : j # x.ino => (j \in Files(e) <=> j \in Files(d))
           /\ \A j \in Files(d) \ {x.ino} : e.inode[j].links = d.inode[j].links
<1> DEFINE i == x.ino
<1>1. i \notin OpenDirs(d) /\ ROOT \in OpenDirs(d) /\ i \in d.imap /\ d.inode[i].kind # "dir"
  <2>1. i \notin OpenDirs(d) /\ i \in d.imap /\ d.inode[i].kind # "dir"
    BY FilesIs, OpenIs
  <2>2. ROOT \in OpenDirs(d)
    BY DirsOpen DEF Treelike, RootOnTop
  <2> QED BY <2>1, <2>2
<1>2. ASSUME NEW j \in d.imap, d.inode[j].kind = "dir"
      PROVE  j \in e.imap /\ e.inode[j].kind = "dir" /\ e.inode[j].block = d.inode[j].block
  BY <1>1, <1>2 DEF Shedding, Matching
<1>3. \A b \in Blocks : e.dir[b].dot = d.dir[b].dot
  BY DEF Shedding, LosesName
<1>4. ASSUME NEW j PROVE j \in OpenDirs(e) <=> j \in OpenDirs(d)
  <2>1. CASE j \in OpenDirs(d)
    <3>1. j \in d.imap /\ d.inode[j].kind = "dir" /\ d.inode[j].block \in Blocks
      BY <2>1, OpenIs, EntriesFinite
    <3> QED BY <1>2, <1>3, <2>1, <3>1, OpenIs DEF Shedding
  <2>2. CASE j \in OpenDirs(e)
    <3>1. e.inode[j].kind = "dir" /\ e.inode[j].block \in Blocks /\ j \in e.imap
      BY <2>2, OpenIs, EntriesFinite
    <3>2. j # i /\ j \in d.imap
      BY <1>1, <3>1 DEF Shedding
    <3>3. d.inode[j].kind = "dir" /\ e.inode[j].block = d.inode[j].block
      BY <3>1, <3>2 DEF Shedding, Matching
    <3> QED BY <1>3, <2>2, <3>1, <3>2, <3>3, OpenIs DEF Shedding
  <2> QED BY <2>1, <2>2
<1>5. OpenDirs(e) = OpenDirs(d)
  BY <1>4
<1>6. ASSUME NEW j \in OpenDirs(e) PROVE EntriesOf(e, j) = EntriesOf(d, j) \ {x} /\ UpOf(e, j) = UpOf(d, j)
  <2>1. j \in d.imap /\ d.inode[j].kind = "dir" /\ e.inode[j].block \in e.bmap
    BY <1>5, <1>6, OpenIs
  <2>2. OpenDirs(e) \subseteq OpenDirs(d) /\ d.inode[j].block \notin {} /\ StaysPut(d, e, j)
    BY <1>2, <1>5, <2>1 DEF StaysPut
  <2>3. LosesName(d, e, x.dir, x.name, {})
    BY DEF Shedding
  <2> QED BY <2>2, <2>3, LosesDropped
<1>7. Dropped(d, e, x)
  BY <1>1, <1>5, <1>6 DEF Dropped
<1>8. ASSUME NEW j, j # i PROVE j \in Files(e) <=> j \in Files(d)
  BY <1>8, FilesIs DEF Shedding, Matching
<1>9. ASSUME NEW j \in Files(d), j # i PROVE e.inode[j].links = d.inode[j].links
  BY <1>9, FilesIs DEF Shedding, Matching
<1> QED BY <1>1, <1>5, <1>7, <1>8, <1>9

LEMMA SheddingNames ==
    ASSUME NEW d, NEW e, Proper(d), Proper(e), Sound(d), NEW x \in Entries(d), x.ino \in Files(d),
           Shedding(d, e, x)
    PROVE  Sound(e) /\ Renamed(d, e)
<1> DEFINE i == x.ino
<1>1. Leads(d) /\ Linked(d) /\ Treelike(d)
  BY SoundIs
<1>2. /\ Dropped(d, e, x) /\ OpenDirs(e) = OpenDirs(d) /\ i \notin OpenDirs(d)
      /\ \A j : j # i => (j \in Files(e) <=> j \in Files(d))
      /\ \A j \in Files(d) \ {i} : e.inode[j].links = d.inode[j].links
  BY <1>1, SheddingOpen
<1>3. i \notin Dirs(d) /\ i \in Inos
  BY <1>2, DirsOpen, NamedFinite
<1>4. /\ Dirs(e) \subseteq Dirs(d)
      /\ \A y : y \in Entries(e) <=> y \in Entries(d) /\ y # x /\ y.dir \in Dirs(e)
  BY <1>1, <1>2, <1>3, DroppedDirs
<1>5. Treelike(e)
  BY <1>1, <1>2, <1>3, DroppedTree
<1>6. Dirs(d) \subseteq Dirs(e)
  <2>1. ASSUME NEW j \in Dirs(e), NEW y \in EntriesOf(d, j), y.ino \in OpenDirs(d) PROVE y.ino \in Dirs(e)
    <3>1. j \in OpenDirs(e) /\ y # x /\ y.ino \in OpenDirs(e)
      BY <1>2, <2>1, DirsOpen
    <3>2. y \in EntriesOf(e, j)
      BY <1>2, <3>1 DEF Dropped
    <3> QED BY <3>1, <3>2, DirsOpen DEF Covers
  <2>2. ROOT \in Dirs(e)
    BY <1>5 DEF Treelike, RootOnTop
  <2> QED BY <2>1, <2>2, DirsLeast DEF Covers
<1>7. Dirs(e) = Dirs(d)
  BY <1>4, <1>6
<1>8. Entries(e) = Entries(d) \ {x}
  BY <1>4, <1>7, EntriesIs
<1>9. Renamed(d, e)
  BY <1>3, <1>4, <1>7 DEF Renamed, Loses
<1> DEFINE D == Named(Entries(d), i)
           E == Named(Entries(e), i)
           n == d.inode[i].links
           m == e.inode[i].links
<1>10. E = D \ {x} /\ x \in D
  BY <1>8 DEF Named
<1>11. IsFiniteSet(D) /\ IsFiniteSet(E) /\ Cardinality(D) \in Nat /\ Cardinality(E) \in Nat /\ n \in Int /\ m \in Int
  BY <1>3, NamedFinite
<1>12. Cardinality(E) = Cardinality(D) - 1
  BY <1>10, <1>11, FS_RemoveElement
<1>13. Cardinality(D) <= n
  BY <1>1 DEF Linked
<1>14. ASSUME NEW j \in Files(e), j # i PROVE Cardinality(Named(Entries(e), j)) <= e.inode[j].links
  <2>1. j \in Files(d) /\ e.inode[j].links = d.inode[j].links
    BY <1>2, <1>14
  <2>2. Named(Entries(e), j) = Named(Entries(d), j)
    BY <1>8, <1>14 DEF Named
  <2> QED BY <1>1, <2>1, <2>2 DEF Linked
<1>15. CASE e.imap = d.imap /\ e.inode[i].kind = d.inode[i].kind /\ m >= n - 1
  <2>1. i \in Files(e)
    BY <1>15, FilesIs
  <2>2. Leads(e)
    BY <1>1, <1>2, <1>7, <1>8, <2>1 DEF Leads
  <2>3. Cardinality(E) <= m
    <3> HIDE DEF D, E, i, n, m
    <3> QED BY <1>11, <1>12, <1>13, <1>15
  <2>4. Linked(e)
    BY <1>14, <2>3 DEF Linked
  <2> QED BY <1>5, <1>9, <2>2, <2>4, SoundIs
<1>16. CASE e.imap = d.imap \ {i} /\ e.inode[i].kind = "none" /\ n - 1 <= 0
  <2>1. Cardinality(E) = 0
    <3> HIDE DEF D, E, i, n, m
    <3> QED BY <1>11, <1>12, <1>13, <1>16
  <2>2. E = {}
    <3> HIDE DEF D, E, i
    <3> QED BY <1>11, <2>1, FS_EmptySet
  <2>3. \A y \in Entries(e) : y.ino # i
    BY <2>2 DEF Named
  <2>4. Leads(e)
    BY <1>1, <1>2, <1>7, <1>8, <2>3 DEF Leads
  <2>5. i \notin Files(e)
    BY <1>16, FilesIs
  <2>6. Linked(e)
    BY <1>14, <2>5 DEF Linked
  <2> QED BY <1>5, <1>9, <2>4, <2>6, SoundIs
<1> QED BY <1>15, <1>16 DEF Shedding

-------------------------------------------------------------------------------
\* A directory is no longer one before its name goes.
Shutting(d, e, x) ==
    /\ e.imap \subseteq d.imap /\ d.imap \ {x.ino} \subseteq e.imap
    /\ e.bmap = d.bmap \ {d.inode[x.ino].block}
    /\ \A b \in Blocks \ {d.inode[x.ino].block} : e.dir[b] = d.dir[b]
    /\ \A j \in d.imap \ {x.ino} : Matching(d.inode[j], e.inode[j])
    /\ e.inode[x.ino].kind # "reg"
    /\ e.inode[x.ino].kind = "dir" => e.inode[x.ino].block = d.inode[x.ino].block

LEMMA ShuttingNames ==
    ASSUME NEW d, NEW e, Proper(d), Proper(e), Sound(d), NEW x \in Entries(d), x.ino \in Dirs(d),
           Shutting(d, e, x)
    PROVE  /\ AtMostOne(e) /\ (x \notin Entries(e) => Renamed(d, e))
           /\ x.ino \notin Dirs(e) /\ x.ino \notin Files(e)
<1> DEFINE i == x.ino
           k == d.inode[i].block
<1>1. Leads(d) /\ Linked(d) /\ Treelike(d)
  BY SoundIs
<1>2. i \in OpenDirs(d) /\ i # ROOT
  BY <1>1, NotOwn, DirsOpen
<1>3. ASSUME NEW j \in OpenDirs(d), j # i
      PROVE  j \in OpenDirs(e) /\ EntriesOf(e, j) = EntriesOf(d, j)
  <2>1. d.inode[j].block # k /\ d.inode[j].block \in Blocks
    BY <1>2, <1>3, OwnBlock, EntriesFinite
  <2>2. j \in d.imap /\ d.inode[j].kind = "dir" /\ d.inode[j].block \in d.bmap
    BY <1>3, OpenIs
  <2>3. /\ j \in e.imap /\ e.inode[j].kind = "dir" /\ e.inode[j].block = d.inode[j].block
        /\ e.inode[j].block \in e.bmap /\ e.dir[e.inode[j].block] = d.dir[d.inode[j].block]
    BY <1>3, <2>1, <2>2 DEF Shutting, Matching
  <2>4. ListOf(e, j) = ListOf(d, j) /\ j \in OpenDirs(e)
    BY <1>3, <2>3, OpenIs DEF ListOf
  <2> QED BY <2>4, SameList
<1>4. ASSUME NEW j \in OpenDirs(e) PROVE j \in OpenDirs(d) /\ j # i
  <2>1. j \in e.imap /\ e.inode[j].kind = "dir" /\ e.inode[j].block \in e.bmap /\ e.inode[j].block \in Blocks
        /\ e.dir[e.inode[j].block].dot = j
    BY OpenIs, EntriesFinite
  <2>2. e.inode[j].block # k
    BY <2>1 DEF Shutting
  <2>3. j # i
    BY <2>1, <2>2 DEF Shutting
  <2>4. d.inode[j].kind = "dir" /\ d.inode[j].block = e.inode[j].block /\ j \in d.imap
    BY <2>1, <2>3 DEF Shutting, Matching
  <2>5. e.dir[e.inode[j].block] = d.dir[d.inode[j].block] /\ d.inode[j].block \in d.bmap
    BY <2>1, <2>2, <2>4 DEF Shutting
  <2> QED BY <2>1, <2>3, <2>4, <2>5, OpenIs
<1>5. ASSUME NEW j PROVE j \in Files(e) <=> j \in Files(d)
  <2>1. CASE j = i
    <3>1. i \notin Files(d)
      BY <1>2, FilesIs, OpenIs
    <3>2. i \notin Files(e)
      <4>1. e.inode[i].kind # "reg" /\ (i \in e.imap => e.inode[i].kind \in {"none", "dir", "reg"})
        BY DEF Shutting, Proper, Shaped, Formed
      <4> QED BY <4>1, FilesIs
    <3> QED BY <2>1, <3>1, <3>2
  <2>2. CASE j # i
    BY <2>2, FilesIs DEF Shutting, Matching
  <2> QED BY <2>1, <2>2
<1>6. ASSUME NEW j \in Files(d) PROVE e.inode[j].links = d.inode[j].links
  <2>1. j \in d.imap /\ d.inode[j].kind # "dir" /\ j # i
    BY <1>2, FilesIs, OpenIs
  <2> QED BY <2>1 DEF Shutting, Matching
<1> HIDE DEF k
<1>7. Dirs(e) \subseteq Dirs(d)
  <2>1. ASSUME NEW j \in Dirs(d) \cap OpenDirs(e), NEW y \in EntriesOf(e, j), y.ino \in OpenDirs(e)
        PROVE  y.ino \in Dirs(d) \cap OpenDirs(e)
    <3>1. y \in EntriesOf(d, j) /\ y.ino \in OpenDirs(d)
      BY <1>3, <1>4, <2>1
    <3> QED BY <2>1, <3>1, DirsOpen DEF Covers
  <2> DEFINE S == Dirs(d) \cap OpenDirs(e)
  <2>2. ROOT \in S
    BY <1>1, <1>2, <1>3, DirsOpen DEF Treelike, RootOnTop
  <2>3. Covers(e, S)
    BY <2>1 DEF Covers
  <2> HIDE DEF S
  <2>4. Dirs(e) \subseteq S
    BY <2>2, <2>3, DirsLeast
  <2> QED BY <2>4 DEF S
<1>8. i \notin Dirs(e) /\ i \notin Files(e)
  BY <1>2, <1>4, <1>5, DirsOpen, FilesIs, OpenIs
<1>9. ASSUME NEW y PROVE y \in Entries(e) <=> y \in Entries(d) /\ y.dir \in Dirs(e)
  <2>1. y.dir \in Dirs(e) => EntriesOf(e, y.dir) = EntriesOf(d, y.dir)
    BY <1>3, <1>4, DirsOpen
  <2> QED BY <1>7, <2>1, EntriesIs
<1>10. ASSUME NEW y \in Entries(e), y # x, y.ino \in Dirs(d) PROVE y.ino \in Dirs(e)
  <2>1. y \in Entries(d) /\ y.dir \in Dirs(e) /\ y \in EntriesOf(e, y.dir)
    BY <1>9, <1>10, EntriesIs
  <2>2. y.ino # i
    BY <1>1, <1>10, <2>1, OneEntry
  <2>3. y.ino \in OpenDirs(e)
    BY <1>3, <1>10, <2>2, DirsOpen
  <2> QED BY <2>1, <2>3, DirsOpen DEF Covers
<1>11. BadEntries(e) \subseteq {x}
  <2>1. ASSUME NEW y \in BadEntries(e), y # x PROVE FALSE
    <3>1. y \in Entries(e) /\ y.ino \notin Files(e) \cup Dirs(e)
      BY <2>1, DamageIs
    <3>2. y.ino \in Files(d) \cup Dirs(d)
      BY <1>1, <1>9, <3>1 DEF Leads
    <3> QED BY <1>5, <1>10, <2>1, <3>1, <3>2
  <2> QED BY <2>1
<1>12. ShortFiles(e) = {}
  <2>1. ASSUME NEW j \in ShortFiles(e) PROVE FALSE
    <3> DEFINE D == Named(Entries(d), j)
               E == Named(Entries(e), j)
               n == d.inode[j].links
    <3>1. j \in Files(e) /\ ~(Cardinality(E) <= e.inode[j].links)
      BY <2>1, DamageIs
    <3>2. j \in Files(d) /\ e.inode[j].links = n
      BY <1>5, <1>6, <3>1
    <3>3. E \subseteq D
      BY <1>9 DEF Named
    <3>4. IsFiniteSet(D) /\ Cardinality(D) \in Nat /\ Cardinality(E) \in Nat /\ n \in Int
      BY <3>2, NamedFinite
    <3>5. Cardinality(D) <= n
      BY <1>1, <3>2 DEF Linked
    <3> HIDE DEF D, E, n
    <3>6. Cardinality(E) <= Cardinality(D)
      BY <3>3, <3>4, FS_Subset
    <3> QED BY <3>1, <3>2, <3>4, <3>5, <3>6
  <2> QED BY <2>1
<1>13. AtMostOne(e)
  BY <1>11, <1>12, OneAtMost
<1>14. ASSUME x \notin Entries(e) PROVE Renamed(d, e)
  <2>1. \A y : y \in Entries(e) <=> y \in Entries(d) /\ y # x /\ y.dir \in Dirs(e)
    BY <1>9, <1>14
  <2> QED BY <1>7, <1>8, <1>10, <1>14, <2>1 DEF Renamed, Loses
<1> QED BY <1>8, <1>13, <1>14

-------------------------------------------------------------------------------
\* What a crash leaves of a state that a command that began in b comes through.

\* INODEs may have gone to the disk, and nothing else has changed.
Hushed(s, t) ==
    /\ t.core.inode = s.core.inode /\ t.disk.inodes = s.disk.inodes
    /\ t.disk.imap = s.disk.imap /\ t.disk.bmap = s.disk.bmap /\ t.disk.dir = s.disk.dir
    /\ \A j \in Inos : t.disk.inode[j] \in {s.disk.inode[j], s.core.inode[j]}

\* Nobody has written to the disk what neither b nor z has in memory.
Between(b, z) == \A j \in Inos : z.disk.inode[j] \in {b.disk.inode[j], b.core.inode[j], z.core.inode[j]}

\* The commands within which a crash can damage a name.
Risky == {"creat", "mkdir", "symlink", "link", "rmdir"}

\* A device that is intact has a name more or less at most; without forgotten INODEs it is
\* intact, or one name is damaged, if the command is one of those.
Fares(b, z, command) ==
    /\ Intact(z) => Renamed(Seen(b), Seen(z))
    /\ Written(b) => Intact(z) \/ (command \in Risky /\ AtMostOne(z.disk))
Left(b, x, command) == \A z : Crashable(z) /\ Hushed(x, z) => Fares(b, z, command)

LEMMA HushedOn ==
    ASSUME NEW s, NEW t, NEW x, Hushed(s, t), Hushed(t, x)
    PROVE  Hushed(s, x)
BY DEF Hushed

LEMMA QuietHushed ==
    ASSUME NEW s, NEW t, Quiet(s, t)
    PROVE  Hushed(s, t)
BY DEF Hushed, Quiet

LEMMA LeftHushed ==
    ASSUME NEW b, NEW x, NEW command, Left(b, x, command), NEW y, Hushed(x, y)
    PROVE  Left(b, y, command)
BY HushedOn DEF Left

LEMMA HushedSeen ==
    ASSUME NEW x, NEW z, Crashable(x), Crashable(z), Hushed(x, z)
    PROVE  Seen(z) = Seen(x)
BY SeenIs DEF Hushed, Crashable

LEMMA HushedBetween ==
    ASSUME NEW b, NEW x, NEW z, Between(b, x), Hushed(x, z)
    PROVE  Between(b, z)
BY DEF Between, Hushed

LEMMA QuietWritten ==
    ASSUME NEW s, NEW t, Crashable(s), Quiet(s, t), Written(s)
    PROVE  Written(t)
<1>1. ASSUME NEW j \in t.disk.imap PROVE Matching(t.disk.inode[j], t.core.inode[j])
  <2>1. j \in s.disk.imap /\ j \in Inos /\ t.core.inode = s.core.inode
    BY CrashableIs DEF Quiet
  <2>2. t.disk.inode[j] \in {s.disk.inode[j], s.core.inode[j]} /\ Matching(s.disk.inode[j], s.core.inode[j])
    BY <2>1 DEF Quiet, Written
  <2> QED BY <2>1, <2>2 DEF Matching
<1> QED BY <1>1 DEF Written

\* What the disk has of an inode that memory has as it was.
LEMMA BetweenLike ==
    ASSUME NEW b, NEW z, Between(b, z), Written(b), NEW j \in Inos, j \in b.disk.imap,
           Matching(b.core.inode[j], z.core.inode[j])
    PROVE  Matching(b.core.inode[j], z.disk.inode[j]) /\ Matching(z.disk.inode[j], z.core.inode[j])
BY DEF Between, Written, Matching

LEMMA BetweenLikeBut ==
    ASSUME NEW b, NEW z, Between(b, z), Written(b), NEW j \in Inos, j \in b.disk.imap,
           NEW but \in BOOLEAN,
           LikeBut(b.core.inode[j], z.core.inode[j], but)
    PROVE  LikeBut(b.core.inode[j], z.disk.inode[j], but)
<1>1. z.disk.inode[j] \in {b.disk.inode[j], b.core.inode[j], z.core.inode[j]} /\ Matching(b.disk.inode[j], b.core.inode[j])
  BY DEF Between, Written
<1> QED BY <1>1 DEF Matching, LikeBut

-------------------------------------------------------------------------------
\* All that is left in memory matches what there was.
Keeping(b, x) ==
    /\ Between(b, x) /\ x.disk.imap \subseteq b.disk.imap
    /\ \A j \in x.disk.imap : Matching(b.core.inode[j], x.core.inode[j])

LEMMA KeepingLeft ==
    ASSUME NEW b, Crashable(b), NEW x, Crashable(x), Keeping(b, x), Sound(Seen(x)),
           Renamed(Seen(b), Seen(x)), NEW command
    PROVE  Left(b, x, command)
<1>1. SUFFICES ASSUME NEW z, Crashable(z), Hushed(x, z) PROVE Fares(b, z, command)
  BY DEF Left
<1>2. Seen(z) = Seen(x) /\ Between(b, z)
  BY <1>1, HushedSeen, HushedBetween DEF Keeping
<1>3. ASSUME Written(b) PROVE Written(z)
  <2>1. ASSUME NEW j \in z.disk.imap PROVE Matching(z.disk.inode[j], z.core.inode[j])
    <3>1. j \in x.disk.imap /\ j \in b.disk.imap /\ j \in Inos /\ z.core.inode = x.core.inode
      BY <1>1, CrashableIs DEF Hushed, Keeping
    <3>2. Matching(b.core.inode[j], z.core.inode[j])
      BY <3>1 DEF Keeping
    <3> QED BY <1>2, <1>3, <3>1, <3>2, BetweenLike
  <2> QED BY <2>1 DEF Written
<1>4. Written(b) => Intact(z)
  BY <1>1, <1>2, <1>3, WrittenIntact
<1> QED BY <1>2, <1>4 DEF Fares

LEMMA RenamedSelf ==
    ASSUME NEW d
    PROVE  Renamed(d, d)
BY DEF Renamed, NamesKept

LEMMA SelfLeft ==
    ASSUME NEW s, Settled(s), NEW command
    PROVE  Left(s, s, command)
<1>1. Crashable(s) /\ Sound(Seen(s))
  BY DEF Settled
<1>2. Keeping(s, s)
  BY DEF Keeping, Between, Matching
<1> QED BY <1>1, <1>2, RenamedSelf, KeepingLeft

-------------------------------------------------------------------------------
\* Inodes and blocks have been taken, and the name may have been entered.
Grown(b, z, d, n, i, B) ==
    /\ Between(b, z)
    /\ b.disk.imap \subseteq z.disk.imap /\ b.disk.bmap \subseteq z.disk.bmap
    /\ \A j \in b.disk.imap : LikeBut(b.core.inode[j], z.core.inode[j], j = i)
    /\ i \notin OpenDirs(Seen(b)) /\ (i \in b.disk.imap => b.core.inode[i].kind # "dir")
    /\ \A j \in OpenDirs(Seen(b)) : b.core.inode[j].block \notin B
    /\ \/ i # 0 /\ GainsName(Seen(b), Seen(z), d, n, i, B)
       \/ \A k \in Blocks \ B : z.disk.dir[k] = b.disk.dir[k]

\* The inodes taken do not count yet.
Bare(b, z, inode, i) == \A j \in z.disk.imap \ b.disk.imap : inode[j].kind # (IF j = i THEN "dir" ELSE "reg")

LEMMA GrownHushed ==
    ASSUME NEW b, NEW x, NEW z, NEW d, NEW n, NEW i, NEW B, Crashable(x), Crashable(z),
           Hushed(x, z), Grown(b, x, d, n, i, B)
    PROVE  Grown(b, z, d, n, i, B)
<1>1. Seen(z) = Seen(x) /\ Between(b, z)
  BY HushedSeen, HushedBetween DEF Grown
<1>2. z.disk.imap = x.disk.imap /\ z.disk.bmap = x.disk.bmap /\ z.core.inode = x.core.inode /\ z.disk.dir = x.disk.dir
  BY DEF Hushed
<1> QED BY <1>1, <1>2 DEF Grown

LEMMA GrownSeen ==
    ASSUME NEW b, Crashable(b), Sound(Seen(b)), NEW z, Crashable(z), NEW d \in Dirs(Seen(b)),
           NEW n, NEW i, NEW B,
           Grown(b, z, d, n, i, B), Bare(b, z, z.core.inode, i)
    PROVE  Renamed(Seen(b), Seen(z))
<1> DEFINE D == Seen(b)
           C == Seen(z)
<1>1. Proper(D) /\ Proper(C) /\ d \in OpenDirs(D)
  BY SeenProper, DirsOpen
<1>2. /\ D.imap = b.disk.imap /\ D.bmap = b.disk.bmap /\ D.dir = b.disk.dir /\ D.inode = b.core.inode
      /\ C.imap = z.disk.imap /\ C.bmap = z.disk.bmap /\ C.dir = z.disk.dir /\ C.inode = z.core.inode
  BY SeenIs DEF Crashable
<1>3. Entering(D, C, d, n, i, B)
  <2> HIDE DEF D, C
  <2>1. \/ i # 0 /\ GainsName(D, C, d, n, i, B)
        \/ \A k \in Blocks \ B : C.dir[k] = D.dir[k]
    BY <1>2 DEF Grown, D, C
  <2>2. i \notin OpenDirs(D) /\ \A j \in OpenDirs(D) : D.inode[j].block \notin B
    BY <1>2 DEF Grown, D
  <2> QED BY <1>2, <2>1, <2>2 DEF Entering, Grown, Bare
<1> HIDE DEF D, C
<1>4. Extends(D, C, Entry(d, n, i))
  BY <1>1, <1>3, EnteringExtends
<1>5. Renamed(D, C)
  BY <1>1, <1>4, ExtendsNames DEF D
<1> QED BY <1>5 DEF D, C

LEMMA GrownDisk ==
    ASSUME NEW b, Crashable(b), Sound(Seen(b)), NEW z, Crashable(z), NEW d \in Dirs(Seen(b)),
           NEW n, NEW i, NEW B,
           Grown(b, z, d, n, i, B), Bare(b, z, z.disk.inode, i), Written(b)
    PROVE  AtMostOne(z.disk)
<1> DEFINE D == Seen(b)
           C == z.disk
<1>1. Proper(D) /\ Proper(C) /\ d \in OpenDirs(D)
  BY SeenProper, DirsOpen
<1>2. /\ D.imap = b.disk.imap /\ D.bmap = b.disk.bmap /\ D.dir = b.disk.dir /\ D.inode = b.core.inode
      /\ Seen(z).dir = C.dir /\ Seen(z).inode = z.core.inode /\ D.imap \subseteq Inos
  BY SeenIs DEF Crashable, Fit, DiskFit
<1>3. \A j \in D.imap : LikeBut(D.inode[j], C.inode[j], j = i)
  <2>1. ASSUME NEW j \in D.imap PROVE LikeBut(D.inode[j], C.inode[j], j = i)
    <3> DEFINE but == j = i
    <3>1. but \in BOOLEAN /\ LikeBut(b.core.inode[j], z.core.inode[j], but) /\ j \in Inos /\ j \in b.disk.imap
      BY <1>2, <2>1 DEF Grown
    <3>2. Between(b, z)
      BY DEF Grown
    <3> HIDE DEF but
    <3>3. LikeBut(b.core.inode[j], z.disk.inode[j], but)
      BY <3>1, <3>2, BetweenLikeBut
    <3> QED BY <1>2, <3>3 DEF but
  <2> QED BY <2>1
<1>4. Entering(D, C, d, n, i, B)
  <2> HIDE DEF D
  <2>1. \/ i # 0 /\ GainsName(D, C, d, n, i, B)
        \/ \A k \in Blocks \ B : C.dir[k] = D.dir[k]
    <3>1. CASE i # 0 /\ GainsName(D, Seen(z), d, n, i, B)
      <4>1. d \in D.imap /\ D.inode[d].kind = "dir" /\ d # i
        BY <1>1, OpenIs DEF Grown, D
      <4>2. LikeBut(D.inode[d], C.inode[d], d = i) /\ LikeBut(D.inode[d], z.core.inode[d], d = i)
        BY <1>2, <1>3, <4>1 DEF Grown
      <4>3. C.inode[d].block = Seen(z).inode[d].block
        BY <1>2, <4>1, <4>2 DEF LikeBut
      <4>4. ListOf(C, d) = ListOf(Seen(z), d) /\ UpOf(C, d) = UpOf(Seen(z), d)
        BY <1>2, <4>3 DEF ListOf, UpOf
      <4> QED BY <1>2, <3>1, <4>4 DEF GainsName
    <3>2. CASE \A k \in Blocks \ B : z.disk.dir[k] = b.disk.dir[k]
      BY <1>2, <3>2
    <3> QED BY <3>1, <3>2 DEF Grown, D
  <2>2. i \notin OpenDirs(D) /\ \A j \in OpenDirs(D) : D.inode[j].block \notin B
    BY <1>2 DEF Grown, D
  <2> QED BY <1>2, <1>3, <2>1, <2>2 DEF Entering, Grown, Bare
<1> HIDE DEF D, C
<1>5. Extends(D, C, Entry(d, n, i))
  BY <1>1, <1>4, EnteringExtends
<1>6. AtMostOne(C)
  BY <1>1, <1>5, ExtendsNames DEF D
<1> QED BY <1>6 DEF C

LEMMA BareDisk ==
    ASSUME NEW b, NEW z, Crashable(z), NEW i, Bare(b, z, z.core.inode, i)
    PROVE  Bare(b, z, z.disk.inode, i)
<1>1. ASSUME NEW j \in z.disk.imap \ b.disk.imap PROVE z.disk.inode[j].kind # (IF j = i THEN "dir" ELSE "reg")
  <2>1. z.core.inode[j].kind # (IF j = i THEN "dir" ELSE "reg") /\ Follows(z.disk.inode[j], z.core.inode[j])
    BY CrashableIs DEF Bare
  <2> QED BY <2>1 DEF Follows
<1> QED BY <1>1 DEF Bare

LEMMA GrownLeft ==
    ASSUME NEW b, Crashable(b), Sound(Seen(b)), NEW x, Crashable(x), NEW d \in Dirs(Seen(b)),
           NEW n, NEW i, NEW B,
           Grown(b, x, d, n, i, B), Bare(b, x, x.core.inode, i),
           NEW command \in Risky
    PROVE  Left(b, x, command)
<1>1. SUFFICES ASSUME NEW z, Crashable(z), Hushed(x, z) PROVE Fares(b, z, command)
  BY DEF Left
<1>2. Grown(b, z, d, n, i, B)
  BY <1>1, GrownHushed
<1>3. Bare(b, z, z.core.inode, i)
  BY <1>1 DEF Bare, Hushed
<1>4. Bare(b, z, z.disk.inode, i)
  BY <1>1, <1>3, BareDisk
<1>5. Renamed(Seen(b), Seen(z))
  BY <1>1, <1>2, <1>3, GrownSeen
<1>6. Written(b) => AtMostOne(z.disk)
  BY <1>1, <1>2, <1>4, GrownDisk
<1> QED BY <1>5, <1>6 DEF Fares

\* The new directory is there, in memory at least.
LEMMA MadeLeft ==
    ASSUME NEW b, Crashable(b), Sound(Seen(b)), NEW x, Crashable(x), NEW d \in Dirs(Seen(b)),
           NEW n, NEW i \in Inos, NEW B,
           Grown(b, x, d, n, i, B), x.disk.imap = b.disk.imap \cup {i},
           x.core.inode[i].kind = "dir",
           i \notin b.disk.imap, Sound(Seen(x)), Renamed(Seen(b), Seen(x)),
           NEW command \in Risky
    PROVE  Left(b, x, command)
<1>1. SUFFICES ASSUME NEW z, Crashable(z), Hushed(x, z), Written(b) PROVE Intact(z) \/ AtMostOne(z.disk)
  <2>1. ASSUME NEW z, Crashable(z), Hushed(x, z) PROVE Fares(b, z, command)
    <3>1. Seen(z) = Seen(x)
      BY <2>1, HushedSeen
    <3>2. Written(b) => Intact(z) \/ AtMostOne(z.disk)
      BY <1>1, <2>1
    <3> QED BY <3>1, <3>2 DEF Fares
  <2> QED BY <2>1 DEF Left
<1>2. Seen(z) = Seen(x) /\ Grown(b, z, d, n, i, B)
  BY <1>1, HushedSeen, GrownHushed
<1>3. z.disk.imap = b.disk.imap \cup {i} /\ z.core.inode[i].kind = "dir"
  BY <1>1 DEF Hushed
<1>4. CASE z.disk.inode[i].kind = "none"
  <2>1. Bare(b, z, z.disk.inode, i)
    BY <1>3, <1>4 DEF Bare
  <2> QED BY <1>1, <1>2, <2>1, GrownDisk
<1>5. CASE z.disk.inode[i].kind # "none"
  <2>1. ASSUME NEW j \in z.disk.imap PROVE Matching(z.disk.inode[j], z.core.inode[j])
    <3>1. CASE j = i
      <4>1. Follows(z.disk.inode[i], z.core.inode[i])
        BY <1>1, CrashableIs
      <4> QED BY <1>3, <1>5, <3>1, <4>1 DEF Follows, Matching
    <3>2. CASE j # i
      <4>1. j \in b.disk.imap /\ j \in Inos
        BY <1>1, <1>3, <3>2, CrashableIs
      <4>2. LikeBut(b.core.inode[j], z.core.inode[j], j = i) /\ Between(b, z)
        BY <1>2, <4>1 DEF Grown
      <4>3. Matching(b.core.inode[j], z.core.inode[j])
        BY <3>2, <4>2 DEF Matching, LikeBut
      <4> QED BY <1>1, <4>1, <4>2, <4>3, BetweenLike
    <3> QED BY <3>1, <3>2
  <2>2. Written(z)
    BY <2>1 DEF Written
  <2> QED BY <1>1, <1>2, <2>2, WrittenIntact
<1> QED BY <1>4, <1>5

-------------------------------------------------------------------------------
\* A directory has been closed.
LEMMA ShutLeft ==
    ASSUME NEW b, Crashable(b), Sound(Seen(b)), NEW x, Crashable(x), Between(b, x),
           NEW e \in Entries(Seen(b)),
           e.ino \in Dirs(Seen(b)), Shutting(Seen(b), Seen(x), e),
           NEW command \in Risky
    PROVE  Left(b, x, command)
<1>1. SUFFICES ASSUME NEW z, Crashable(z), Hushed(x, z) PROVE Fares(b, z, command)
  BY DEF Left
<1> DEFINE D == Seen(b)
           E == Seen(z)
           C == z.disk
           i == e.ino
<1>2. E = Seen(x) /\ Between(b, z) /\ Proper(D) /\ Proper(E) /\ Proper(C)
  BY <1>1, HushedSeen, HushedBetween, SeenProper
<1>3. /\ D.imap = b.disk.imap /\ D.bmap = b.disk.bmap /\ D.dir = b.disk.dir /\ D.inode = b.core.inode
      /\ E.imap = z.disk.imap /\ E.bmap = z.disk.bmap /\ E.dir = z.disk.dir /\ E.inode = z.core.inode
      /\ D.imap \subseteq Inos
  BY <1>1, SeenIs DEF Crashable, Fit, DiskFit
<1>4. i \in Inos
  BY KnownIs DEF Known
<1>5. Follows(C.inode[i], E.inode[i])
  BY <1>1, <1>3, <1>4, CrashableIs
<1> HIDE DEF D, E
<1>6. Shutting(D, E, e)
  BY <1>2 DEF D
<1>7. /\ e \notin Entries(E) => Renamed(D, E)
      /\ i \notin Dirs(E) /\ i \notin Files(E)
  BY <1>2, <1>6, ShuttingNames DEF D
<1>8. ASSUME Intact(z) PROVE Renamed(D, E)
  <2>1. NamesKept(E, C) /\ Leads(C)
    BY <1>1, <1>2, <1>8, IntactKeeps, SoundIs DEF E, Intact
  <2>2. SUFFICES ASSUME e \in Entries(E) PROVE FALSE
    BY <1>7
  <2>3. i \in Files(C) \cup Dirs(C)
    BY <2>1, <2>2 DEF NamesKept, Leads
  <2>4. i \in Files(C)
    BY <1>7, <2>1, <2>3 DEF NamesKept
  <2>5. i \in Files(E)
    BY <1>3, <1>5, <2>4, FilesIs DEF Follows
  <2> QED BY <1>7, <2>5
<1>9. ASSUME Written(b) PROVE AtMostOne(C)
  <2>1. ASSUME NEW j \in D.imap \ {i} PROVE Matching(D.inode[j], C.inode[j])
    <3>1. Matching(b.core.inode[j], z.core.inode[j]) /\ j \in b.disk.imap /\ j \in Inos
      BY <1>3, <1>6, <2>1 DEF Shutting
    <3> QED BY <1>2, <1>3, <1>9, <3>1, BetweenLike
  <2>2. C.inode[i].kind # "reg" /\ (C.inode[i].kind = "dir" => C.inode[i].block = D.inode[i].block)
    BY <1>5, <1>6 DEF Follows, Shutting
  <2>3. Shutting(D, C, e)
    BY <1>3, <1>6, <2>1, <2>2 DEF Shutting
  <2> HIDE DEF C
  <2> QED BY <1>2, <2>3, ShuttingNames DEF D
<1> QED BY <1>8, <1>9 DEF Fares, D, E

\* A name of a file has gone.
LEMMA ShedLeft ==
    ASSUME NEW b, Crashable(b), Sound(Seen(b)), NEW x, Crashable(x), Between(b, x),
           NEW e \in Entries(Seen(b)),
           e.ino \in Files(Seen(b)), Shedding(Seen(b), Seen(x), e), NEW command
    PROVE  Left(b, x, command)
<1>1. SUFFICES ASSUME NEW z, Crashable(z), Hushed(x, z) PROVE Fares(b, z, command)
  BY DEF Left
<1> DEFINE D == Seen(b)
           E == Seen(z)
           C == z.disk
           i == e.ino
<1>2. E = Seen(x) /\ Between(b, z) /\ Proper(D) /\ Proper(E) /\ Proper(C)
  BY <1>1, HushedSeen, HushedBetween, SeenProper
<1>3. /\ D.imap = b.disk.imap /\ D.bmap = b.disk.bmap /\ D.dir = b.disk.dir /\ D.inode = b.core.inode
      /\ E.imap = z.disk.imap /\ E.bmap = z.disk.bmap /\ E.dir = z.disk.dir /\ E.inode = z.core.inode
      /\ D.imap \subseteq Inos
  BY <1>1, SeenIs DEF Crashable, Fit, DiskFit
<1>4. i \in Inos /\ i \in D.imap /\ D.inode[i].kind = "reg" /\ D.inode[i].links \in Int
  <2>1. i \in D.imap /\ D.inode[i].kind \notin {"none", "dir"}
    BY FilesIs
  <2>2. i \in Inos
    BY <1>3, <2>1
  <2> QED BY <1>2, <2>1, <2>2 DEF Proper, Shaped, Formed
<1>5. Follows(C.inode[i], E.inode[i])
  BY <1>1, <1>3, <1>4, CrashableIs
<1>6. e.dir \in D.imap /\ D.inode[e.dir].kind = "dir" /\ e.dir # i
  <2>1. e.dir \in OpenDirs(D)
    BY EntriesIs, DirsOpen
  <2> QED BY <1>4, <2>1, OpenIs
<1> HIDE DEF D, E
<1>7. Shedding(D, E, e)
  BY <1>2 DEF D
<1>8. Renamed(D, E)
  BY <1>2, <1>7, SheddingNames DEF D
<1>9. ASSUME Written(b) PROVE Intact(z)
  <2>1. ASSUME NEW j \in D.imap \ {i} PROVE Matching(D.inode[j], C.inode[j]) /\ Matching(C.inode[j], E.inode[j])
    <3>1. Matching(b.core.inode[j], z.core.inode[j]) /\ j \in b.disk.imap /\ j \in Inos
      BY <1>3, <1>7, <2>1 DEF Shedding
    <3> QED BY <1>2, <1>3, <1>9, <3>1, BetweenLike
  <2>2. C.inode[i] \in {b.disk.inode[i], D.inode[i], E.inode[i]} /\ Matching(b.disk.inode[i], D.inode[i])
    BY <1>2, <1>3, <1>4, <1>9 DEF Between, Written
  <2>3. \/ /\ C.imap = D.imap /\ C.inode[i].kind = D.inode[i].kind /\ C.inode[i].kind = E.inode[i].kind
           /\ C.inode[i].links >= D.inode[i].links - 1
        \/ /\ C.imap = D.imap \ {i} /\ C.inode[i].kind = "none" /\ D.inode[i].links - 1 <= 0
    <3>1. CASE /\ E.imap = D.imap /\ E.inode[i].kind = D.inode[i].kind
               /\ E.inode[i].links >= D.inode[i].links - 1
      <4>1. C.inode[i].kind = D.inode[i].kind
        BY <1>4, <2>2, <3>1 DEF Matching
      <4>2. C.inode[i].links \in {D.inode[i].links, E.inode[i].links}
        BY <1>4, <2>2, <3>1 DEF Matching
      <4> QED BY <1>3, <1>4, <3>1, <4>1, <4>2
    <3>2. CASE E.imap = D.imap \ {i} /\ E.inode[i].kind = "none" /\ D.inode[i].links - 1 <= 0
      BY <1>3, <1>5, <3>2 DEF Follows
    <3> QED BY <1>7, <3>1, <3>2 DEF Shedding
  <2>4. LosesName(D, C, e.dir, e.name, {})
    <3>1. Matching(D.inode[e.dir], C.inode[e.dir]) /\ Matching(C.inode[e.dir], E.inode[e.dir])
      BY <1>6, <2>1
    <3>2. C.inode[e.dir].block = E.inode[e.dir].block
      BY <1>6, <3>1 DEF Matching
    <3>3. ListOf(C, e.dir) = ListOf(E, e.dir) /\ UpOf(C, e.dir) = UpOf(E, e.dir)
      BY <1>3, <3>2 DEF ListOf, UpOf
    <3> QED BY <1>3, <1>7, <3>3 DEF Shedding, LosesName
  <2>5. Shedding(D, C, e)
    BY <1>3, <1>7, <2>1, <2>3, <2>4 DEF Shedding
  <2>6. ~Misread(z)
    <3>1. ASSUME NEW j \in z.disk.imap PROVE z.core.inode[j].kind = z.disk.inode[j].kind
      <4>1. CASE j = i
        BY <1>3, <1>4, <2>3, <3>1, <4>1
      <4>2. CASE j # i
        <5>1. j \in D.imap \ {i}
          BY <1>3, <1>7, <3>1, <4>2 DEF Shedding
        <5> QED BY <1>3, <2>1, <5>1 DEF Matching
      <4> QED BY <4>1, <4>2
    <3> QED BY <3>1 DEF Misread
  <2> HIDE DEF C
  <2>7. Sound(C)
    BY <1>2, <2>5, SheddingNames DEF D
  <2> QED BY <2>6, <2>7 DEF Intact, C
<1> QED BY <1>8, <1>9 DEF Fares, D, E

-------------------------------------------------------------------------------
\* What the commands leave behind.

\* After any state of a command that began in b a crash may come, which leaves what it may.
Safe(b, x, command) == Crashable(x) /\ Left(b, x, command)
Course(b, t, command) == \E S : t \in Seq(S) /\ t # <<>> /\ \A x \in S : Safe(b, x, command)

\* A command that began in b has ended in x, and has lost what it may.
Done(b, x) ==
    /\ Settled(x) /\ Renamed(Seen(b), Seen(x))
    /\ LinksEnough(Seen(b)) => LinksEnough(Seen(x)) /\ Lost(Seen(b), Seen(x))

\* Without a free inode there is one state only, which nothing follows.
Overflows(t) == DOMAIN t = {1} /\ Len(t) = 1 /\ Last(t).up = "full"
Goes(b, t, command) == Overflows(t) \/ (Course(b, t, command) /\ (Last(t).up = "up" => Done(b, Last(t))))

LEMMA CourseOf1 ==
    ASSUME NEW b, NEW command, NEW x, Safe(b, x, command)
    PROVE  Course(b, <<x>>, command) /\ Last(<<x>>) = x
<1> DEFINE t == <<x>>
           S == {x}
<1>1. t \in Seq(S) /\ t # <<>> /\ \A y \in S : Safe(b, y, command)
  OBVIOUS
<1>2. Last(t) = x
  BY DEF Last
<1> HIDE DEF t, S
<1>3. Course(b, t, command)
  BY <1>1 DEF Course
<1> QED BY <1>2, <1>3 DEF t

LEMMA CourseOf2 ==
    ASSUME NEW b, NEW command, NEW x1, NEW x2, Safe(b, x1, command), Safe(b, x2, command)
    PROVE  Course(b, <<x1, x2>>, command) /\ Last(<<x1, x2>>) = x2
<1> DEFINE t == <<x1, x2>>
           S == {x1, x2}
<1>1. t \in Seq(S) /\ t # <<>> /\ \A y \in S : Safe(b, y, command)
  OBVIOUS
<1>2. Last(t) = x2
  BY DEF Last
<1> HIDE DEF t, S
<1>3. Course(b, t, command)
  BY <1>1 DEF Course
<1> QED BY <1>2, <1>3 DEF t

LEMMA CourseOn ==
    ASSUME NEW b, NEW command, NEW t, NEW r, Course(b, t, command), Course(b, r, command)
    PROVE  Course(b, t \o r, command) /\ Last(t \o r) = Last(r)
<1>1. PICK S : t \in Seq(S) /\ t # <<>> /\ \A x \in S : Safe(b, x, command)
  BY DEF Course
<1>2. PICK R : r \in Seq(R) /\ r # <<>> /\ \A x \in R : Safe(b, x, command)
  BY DEF Course
<1>3. t \in Seq(S \cup R) /\ r \in Seq(S \cup R)
  BY <1>1, <1>2
<1>4. t \o r \in Seq(S \cup R) /\ Len(t \o r) = Len(t) + Len(r) /\ Len(t) \in Nat /\ Len(r) \in Nat \ {0}
  BY <1>2, <1>3
<1>5. (t \o r)[Len(t) + Len(r)] = r[Len(r)]
  BY <1>3, <1>4
<1>6. t \o r # <<>>
  BY <1>4
<1>7. \A x \in S \cup R : Safe(b, x, command)
  BY <1>1, <1>2
<1> QED BY <1>4, <1>5, <1>6, <1>7 DEF Course, Last

LEMMA CourseLast ==
    ASSUME NEW b, NEW command, NEW t, Course(b, t, command)
    PROVE  Safe(b, Last(t), command) /\ \A k \in DOMAIN t : Safe(b, t[k], command)
<1>1. PICK S : t \in Seq(S) /\ t # <<>> /\ \A x \in S : Safe(b, x, command)
  BY DEF Course
<1>2. Len(t) \in DOMAIN t /\ \A k \in DOMAIN t : t[k] \in S
  BY <1>1
<1> QED BY <1>1, <1>2 DEF Last

LEMMA CourseOf3 ==
    ASSUME NEW b, NEW command, NEW x1, NEW x2, NEW x3, Safe(b, x1, command),
           Safe(b, x2, command), Safe(b, x3, command)
    PROVE  Course(b, <<x1, x2, x3>>, command) /\ Last(<<x1, x2, x3>>) = x3
<1> DEFINE t == <<x1>>
           r == <<x2, x3>>
<1>1. <<x1, x2, x3>> = t \o r
  OBVIOUS
<1>2. Course(b, t, command) /\ Course(b, r, command) /\ Last(r) = x3
  BY CourseOf1, CourseOf2
<1> HIDE DEF t, r
<1>3. Course(b, t \o r, command) /\ Last(t \o r) = Last(r)
  BY <1>2, CourseOn
<1> QED BY <1>1, <1>2, <1>3

LEMMA CourseOf6 ==
    ASSUME NEW b, NEW command, NEW x1, NEW x2, NEW x3, NEW x4, NEW x5, NEW x6,
           Safe(b, x1, command), Safe(b, x2, command), Safe(b, x3, command),
           Safe(b, x4, command), Safe(b, x5, command), Safe(b, x6, command)
    PROVE  /\ Course(b, <<x1, x2, x3, x4, x5, x6>>, command)
           /\ Last(<<x1, x2, x3, x4, x5, x6>>) = x6
<1> DEFINE t == <<x1, x2, x3>>
           r == <<x4, x5, x6>>
<1>1. <<x1, x2, x3, x4, x5, x6>> = t \o r
  OBVIOUS
<1>2. Course(b, t, command) /\ Course(b, r, command) /\ Last(r) = x6
  BY CourseOf3
<1> HIDE DEF t, r
<1>3. Course(b, t \o r, command) /\ Last(t \o r) = Last(r)
  BY <1>2, CourseOn
<1> QED BY <1>1, <1>2, <1>3

\* A command that changes nothing.
LEMMA DoneQuiet ==
    ASSUME NEW s, NEW t, Settled(s), Fit(t), Quiet(s, t)
    PROVE  Done(s, t)
<1>1. Settled(t) /\ Seen(t) = Seen(s)
  BY QuietSettled
<1>2. Proper(Seen(s))
  BY SeenProper DEF Settled
<1>3. \A i \in Inos : Excess(Seen(s))[i] <= Excess(Seen(s))[i]
  <2>1. \A i \in Inos : Excess(Seen(s))[i] \in Int
    BY <1>2, ExcessIs, NamedFinite
  <2> QED BY <2>1
<1>4. Lost(Seen(s), Seen(s))
  BY <1>2, <1>3, NothingLost
<1> QED BY <1>1, <1>4, RenamedSelf DEF Done

\* Nor is it dangerous.
LEMMA SafeOn ==
    ASSUME NEW b, NEW command, NEW x, Safe(b, x, command), NEW y, Fit(y), Quiet(x, y)
    PROVE  Safe(b, y, command)
<1>1. Crashable(y)
  BY QuietCrashable DEF Safe
<1> QED BY <1>1, QuietHushed, LeftHushed DEF Safe

LEMMA SafeQuiet ==
    ASSUME NEW s, NEW command, NEW t, Settled(s), Fit(t), Quiet(s, t)
    PROVE  Safe(s, t, command)
<1>1. Safe(s, s, command)
  BY SelfLeft DEF Safe, Settled
<1> QED BY <1>1, SafeOn

LEMMA DoneOn ==
    ASSUME NEW s, NEW t, NEW x, Done(s, t), Fit(x), Quiet(t, x)
    PROVE  Done(s, x)
<1>1. Settled(x) /\ Seen(x) = Seen(t)
  BY QuietSettled DEF Done
<1> QED BY <1>1 DEF Done

LEMMA QuietSelf ==
    ASSUME NEW s
    PROVE  Quiet(s, s)
BY DEF Quiet

LEMMA NothingGoes ==
    ASSUME NEW s, NEW command, Settled(s)
    PROVE  Goes(s, <<s>>, command)
<1>1. Fit(s) /\ Quiet(s, s)
  BY QuietSelf DEF Settled, Crashable
<1>2. Safe(s, s, command)
  BY <1>1, SafeQuiet
<1> QED BY <1>1, <1>2, CourseOf1, DoneQuiet DEF Goes

LEMMA QuietGoes ==
    ASSUME NEW s, NEW command, NEW t, Settled(s), Fit(t), Quiet(s, t)
    PROVE  Goes(s, <<t>>, command)
<1>1. Safe(s, t, command)
  BY SafeQuiet
<1> QED BY <1>1, CourseOf1, DoneQuiet DEF Goes

\* A command that goes no further.
LEMMA EndedCrashable ==
    ASSUME NEW s, NEW v \in Outcomes, NEW t, Crashable(s), Ended(s, t, v)
    PROVE  Crashable(t) /\ Hushed(s, t)
<1>1. t.disk = s.disk /\ t.core = s.core /\ DOMAIN t = DOMAIN s /\ t.up = v
  BY DEF Crashable, Fit, Ended
<1> QED BY <1>1 DEF Crashable, Fit, Behind, Hushed

LEMMA EndedGoes ==
    ASSUME NEW s, NEW command, NEW v \in Outcomes \ {"up"}, NEW t, Settled(s), Ended(s, t, v)
    PROVE  Goes(s, <<t>>, command)
<1>1. Crashable(s)
  BY DEF Settled
<1>2. t.up = v
  BY <1>1 DEF Crashable, Fit, Ended
<1>3. Crashable(t) /\ Hushed(s, t)
  BY <1>1, EndedCrashable
<1>4. Left(s, t, command)
  BY <1>3, SelfLeft, LeftHushed
<1> QED BY <1>2, <1>3, <1>4, CourseOf1 DEF Goes, Safe

LEMMA StuckGoes ==
    ASSUME NEW s, NEW command, Settled(s)
    PROVE  Goes(s, Stuck(s), command)
<1> DEFINE x == [s EXCEPT !.up = "stuck"]
<1>1. "stuck" \in Outcomes \ {"up"} /\ Ended(s, x, "stuck") /\ Stuck(s) = <<x>>
  BY DEF Outcomes, Ended, Stuck
<1> HIDE DEF x
<1> QED BY <1>1, EndedGoes

LEMMA ParentGoes ==
    ASSUME NEW s, NEW command, Settled(s)
    PROVE  Goes(s, <<[s EXCEPT !.up = "rmdir of a parent"]>>, command)
<1> DEFINE w == "rmdir of a parent"
           x == [s EXCEPT !.up = w]
<1>1. w \in Outcomes \ {"up"} /\ Ended(s, x, w)
  BY DEF Outcomes, Ended
<1> HIDE DEF x, w
<1>2. Goes(s, <<x>>, command)
  BY <1>1, EndedGoes
<1> QED BY Zenon, <1>2 DEF x, w

LEMMA TurnsClean ==
    ASSUME NEW s, NEW t, NEW M, NEW B, NEW D, NEW X, NEW Y, Turns(s, t, M, B, D, X, Y),
           NEW j, X[j] = s.disk.inode[j], Y[j] = s.core.inode[j]
    PROVE  CleanAt(s, j) => CleanAt(t, j)
BY DEF Turns, CleanAt

\* The directory dd has the entry more, or less, of which the blocks D come.
LEMMA RelistedGains ==
    ASSUME NEW d, NEW e, NEW D, Listing(D), NEW dd, NEW k \in Blocks, d.inode[dd].block = k,
           e.inode[dd].block = k,
           NEW B, k \notin B, \A b \in Blocks \ B : D[b] = d.dir[b], NEW n, NEW i,
           e.dir = Relisted(D, k, D[k].list \cup {Rec(n, i)})
    PROVE  GainsName(d, e, dd, n, i, B)
<1>1. \A b \in Blocks : e.dir[b] = IF b = k THEN [D[k] EXCEPT !.list = D[k].list \cup {Rec(n, i)}] ELSE D[b]
  BY DEF Relisted, Listing
<1>2. DOMAIN D[k] = {"dot", "up", "list"} /\ D[k] = d.dir[k]
  BY DEF Listing, Listed
<1>3. /\ e.dir[k].dot = d.dir[k].dot /\ e.dir[k].up = d.dir[k].up
      /\ e.dir[k].list = d.dir[k].list \cup {Rec(n, i)}
  BY <1>1, <1>2
<1> QED BY <1>1, <1>3 DEF GainsName, ListOf, UpOf

LEMMA RelistedLoses ==
    ASSUME NEW d, NEW e, NEW D, Listing(D), NEW dd, NEW k \in Blocks, d.inode[dd].block = k,
           e.inode[dd].block = k,
           NEW B, k \notin B, \A b \in Blocks \ B : D[b] = d.dir[b], NEW n,
           e.dir = Relisted(D, k, {r \in D[k].list : r.name # n})
    PROVE  LosesName(d, e, dd, n, B)
<1> DEFINE L == {r \in D[k].list : r.name # n}
<1>1. \A b \in Blocks : e.dir[b] = IF b = k THEN [D[k] EXCEPT !.list = L] ELSE D[b]
  BY DEF Relisted, Listing
<1>2. DOMAIN D[k] = {"dot", "up", "list"} /\ D[k] = d.dir[k]
  BY DEF Listing, Listed
<1>3. L = {r \in d.dir[k].list : r.name # n}
  BY <1>2
<1> HIDE DEF L
<1>4. e.dir[k].dot = d.dir[k].dot /\ e.dir[k].up = d.dir[k].up /\ e.dir[k].list = L
  BY <1>1, <1>2
<1> QED BY <1>1, <1>3, <1>4 DEF LosesName, ListOf, UpOf

LEMMA OverfullGoes ==
    ASSUME NEW b, NEW command, NEW s, Fit(s), NEW d, NEW n
    PROVE  Goes(b, Overfull(s, d, n), command)
<1> DEFINE e == enter_name(s, d, 0, n)
           x == [e EXCEPT !.up = "full"]
<1>1. DOMAIN e = {"disk", "core", "up"}
  BY EnterNameKeeps DEF Fit, BlocksOnly
<1>2. Overfull(s, d, n) = <<x>>
  BY DEF Overfull
<1> HIDE DEF e
<1>3. x.up = "full"
  BY <1>1
<1> HIDE DEF x
<1>4. DOMAIN <<x>> = {1} /\ Len(<<x>>) = 1 /\ Last(<<x>>) = x
  BY DEF Last
<1> QED BY <1>2, <1>3, <1>4 DEF Goes, Overflows

\* The state s3 of createFile, made of s by way of s1, g and s2.
Creates(s, s1, g, s2, s3, u, d, n, i) ==
    /\ s1 = TakeInode(s, i) /\ g = iget(s1, i) /\ s2 = [g EXCEPT !.core.inode[i] = File(u)]
    /\ s3 = enter_name(s2, d, i, n)

LEMMA CreatesNames ==
    ASSUME NEW s, Crashable(s), Sound(Seen(s)), NEW d \in Dirs(Seen(s)), NEW n, Plain(n),
           NEW i \in Inos \ s.disk.imap, NEW u,
           NEW s1, NEW g, NEW s2, NEW s3, Creates(s, s1, g, s2, s3, u, d, n, i),
           NEW command \in Risky
    PROVE  /\ Safe(s, s1, command) /\ Safe(s, s3, command) /\ Created(Seen(s), Seen(s3), d, n, i)
           /\ \A j \in Inos \ {i} : CleanAt(s, j) => CleanAt(s3, j)
<1> DEFINE k == s.core.inode[d].block
           f == File(u)
           L == s.disk.dir[k].list \cup {Rec(n, i)}
           Y == [s.core.inode EXCEPT ![i] = f]
<1>0. d \in Inos /\ d \in s.disk.imap /\ k \in Blocks /\ d # i
  BY KnownIs, SeenProper, SeenIs, EntriesFinite DEF Known, Crashable
<1>1. /\ Crashable(s1) /\ Roomy(s1.disk, s1.core.inode)
      /\ Turns(s, s1, s.disk.imap \cup {i}, s.disk.bmap, s.disk.dir, s.disk.inode, s.core.inode)
  BY TakeInodeCrashable DEF Creates
<1>2. Fit(g) /\ Quiet(s1, g) /\ Crashable(g)
  BY <1>1, IgetQuiet, QuietCrashable DEF Creates, Crashable
<1>3. Roomy(g.disk, g.core.inode)
  BY <1>1, <1>2 DEF Quiet, Roomy
<1>4. /\ i \in g.disk.imap /\ g.core.inode[i].kind = "none" /\ g.disk.inode[i].kind = "none"
  <2>1. s.core.inode[i].kind = "none" /\ s.disk.inode[i].kind = "none"
    BY CrashableIs DEF Taken
  <2>2. i \in s1.disk.imap /\ s1.core.inode[i].kind = "none" /\ s1.disk.inode[i].kind = "none"
    BY <1>1, <2>1 DEF Turns
  <2> QED BY <1>2, <2>2 DEF Quiet
<1>5. /\ Crashable(s2)
      /\ Turns(g, s2, g.disk.imap, g.disk.bmap, g.disk.dir, g.disk.inode, [g.core.inode EXCEPT ![i] = f])
  BY <1>2, <1>3, <1>4, FileCrashable DEF Creates
<1> HIDE DEF f
<1>6. /\ s2.disk.imap = s.disk.imap \cup {i} /\ s2.disk.bmap = s.disk.bmap /\ s2.disk.dir = s.disk.dir
      /\ s2.core.inode = Y
  BY <1>1, <1>2, <1>5 DEF Turns, Quiet
<1>7. \A j \in Inos : Y[j] = IF j = i THEN f ELSE s.core.inode[j]
  BY CrashableIs DEF Shaped
<1> HIDE DEF Y
<1>8. s2.core.inode[d].block = k
  BY <1>0, <1>6, <1>7
<1>9. i # 0
  BY Numbers
<1> HIDE DEF k
<1>10. /\ Crashable(s3)
       /\ Turns(s2, s3, s2.disk.imap, s2.disk.bmap, Relisted(s2.disk.dir, k, s2.disk.dir[k].list \cup {Rec(n, i)}),
                s2.disk.inode, s2.core.inode)
  BY <1>0, <1>5, <1>8, <1>9, EnterNameCrashable DEF Creates
<1>11. /\ s3.disk.imap = s.disk.imap \cup {i} /\ s3.disk.bmap = s.disk.bmap
       /\ s3.disk.dir = Relisted(s.disk.dir, k, L) /\ s3.core.inode = Y
  BY <1>6, <1>10 DEF Turns
<1>12. GainsName(Seen(s), Seen(s3), d, n, i, {})
  <2>1. Seen(s).dir = s.disk.dir /\ Seen(s3).dir = Relisted(s.disk.dir, k, L)
    BY <1>10, <1>11, SeenIs DEF Crashable
  <2>2. Seen(s).inode[d].block = k /\ Seen(s3).inode[d].block = k
    BY <1>0, <1>7, <1>10, <1>11, SeenIs DEF Crashable, k
  <2>3. Listing(s.disk.dir)
    BY CrashableIs
  <2>4. k \notin {} /\ \A b \in Blocks \ {} : s.disk.dir[b] = Seen(s).dir[b]
    BY <2>1
  <2> QED BY <1>0, <2>1, <2>2, <2>3, <2>4, RelistedGains
<1>13. Created(Seen(s), Seen(s3), d, n, i)
  <2>1. /\ Seen(s).inode = s.core.inode /\ Seen(s3).inode = Y
        /\ Seen(s3).imap = Seen(s).imap \cup {i} /\ Seen(s3).bmap = Seen(s).bmap
    BY <1>10, <1>11, SeenIs DEF Crashable
  <2>2. f.kind = "reg" /\ f.links = 1
    BY NewForms DEF f
  <2> QED BY <1>7, <1>12, <2>1, <2>2 DEF Created
<1>14. ASSUME NEW j \in Inos \ {i}, CleanAt(s, j) PROVE CleanAt(s3, j)
  <2>1. CleanAt(s1, j) /\ CleanAt(g, j)
    BY <1>1, <1>2, <1>14, TurnsClean DEF Quiet
  <2> DEFINE Z == [g.core.inode EXCEPT ![i] = f]
  <2>2. Z[j] = g.core.inode[j]
    BY <1>2, <1>14, CrashableIs DEF Shaped
  <2>3. Turns(g, s2, g.disk.imap, g.disk.bmap, g.disk.dir, g.disk.inode, Z)
    BY <1>5
  <2> HIDE DEF Z
  <2>4. CleanAt(s2, j)
    BY <2>1, <2>2, <2>3, TurnsClean
  <2> QED BY <1>10, <2>4, TurnsClean
<1>15. i \notin OpenDirs(Seen(s)) /\ s.disk.imap \subseteq Inos /\ Seen(s).imap = s.disk.imap
  BY SeenProper, SeenIs, OpenIs DEF Crashable, Proper
<1>16. Safe(s, s1, command)
  <2>1. /\ s1.disk.imap = s.disk.imap \cup {i} /\ s1.disk.bmap = s.disk.bmap /\ s1.disk.dir = s.disk.dir
        /\ s1.disk.inode = s.disk.inode /\ s1.core.inode = s.core.inode /\ s1.core.inode[i].kind = "none"
    BY <1>1, CrashableIs DEF Turns, Taken
  <2>2. Grown(s, s1, d, n, i, {}) /\ Bare(s, s1, s1.core.inode, i)
    BY <1>15, <2>1 DEF Grown, Bare, Between, LikeBut
  <2> QED BY <1>1, <2>2, GrownLeft DEF Safe
<1>17. Safe(s, s3, command)
  <2>1. \A j \in Inos : s3.disk.inode[j] \in {s.disk.inode[j], s.core.inode[j]}
    <3>1. s3.disk.inode = g.disk.inode /\ s1.disk.inode = s.disk.inode /\ s1.core.inode = s.core.inode
      BY <1>1, <1>5, <1>10 DEF Turns
    <3> QED BY <1>2, <3>1 DEF Quiet
  <2>2. f.kind = "reg"
    BY NewForms DEF f
  <2>3. \A j \in s.disk.imap : Y[j] = s.core.inode[j]
    BY <1>7, <1>15
  <2>4. Grown(s, s3, d, n, i, {})
    BY <1>9, <1>11, <1>12, <1>15, <2>1, <2>3 DEF Grown, Between, LikeBut
  <2>5. Bare(s, s3, s3.core.inode, i)
    BY <1>7, <1>11, <2>2 DEF Bare
  <2> QED BY <1>10, <2>4, <2>5, GrownLeft DEF Safe
<1> QED BY <1>13, <1>14, <1>16, <1>17

\* What the end of a command that has named a file, or a directory, amounts to.
LEMMA FileNamedDone ==
    ASSUME NEW s, Settled(s), NEW x, Crashable(x), \A j \in Inos : CleanAt(x, j),
           NEW e, e = Entry(e.dir, e.name, e.ino), FileNamed(Seen(s), Seen(x), e)
    PROVE  Done(s, x)
<1>1. Proper(Seen(s)) /\ Proper(Seen(x)) /\ Sound(Seen(s))
  BY SeenProper DEF Settled
<1>2. Sound(Seen(x))
  BY <1>1, FileNamedSound
<1>3. Lost(Seen(s), Seen(x))
  BY <1>1, FileNamedLost
<1>4. LinksEnough(Seen(s)) => LinksEnough(Seen(x))
  BY <1>1, FileNamedLinks
<1> QED BY <1>1, <1>2, <1>3, <1>4, FileNamedRenames DEF Done, Settled

LEMMA DirNamedDone ==
    ASSUME NEW s, Settled(s), NEW x, Crashable(x), \A j \in Inos : CleanAt(x, j),
           NEW e, e = Entry(e.dir, e.name, e.ino), DirNamed(Seen(s), Seen(x), e)
    PROVE  Done(s, x)
<1>1. Proper(Seen(s)) /\ Proper(Seen(x)) /\ Sound(Seen(s)) /\ Treelike(Seen(s)) /\ Leads(Seen(s))
  BY SeenProper, SoundIs DEF Settled
<1>2. Sound(Seen(x))
  BY <1>1, DirNamedSound
<1>3. Lost(Seen(s), Seen(x))
  BY <1>1, DirNamedLost
<1>4. LinksEnough(Seen(s)) => LinksEnough(Seen(x))
  BY <1>1, DirNamedLinks
<1> QED BY <1>1, <1>2, <1>3, <1>4, DirNamedRenames DEF Done, Settled

\* createFile with a name that the directory does not have yet.
LEMMA CreateFileGoes ==
    ASSUME NEW s, Settled(s), NEW d \in Dirs(Seen(s)), NEW n, Plain(n),
           \A y \in EntriesOf(Seen(s), d) : y.name # n, NEW u,
           NEW command \in Risky
    PROVE  Goes(s, createFile(s, u, d, n), command)
<1> DEFINE i == ialloc(s)
           r == createFile(s, u, d, n)
<1>0. Crashable(s) /\ Fit(s) /\ Sound(Seen(s))
  BY DEF Settled, Crashable
<1>1. CASE i = 0
  <2>1. r = Overfull(s, d, n)
    BY <1>1 DEF createFile
  <2> QED BY <1>0, <2>1, OverfullGoes
<1>2. CASE i # 0
  <2> DEFINE s1 == TakeInode(s, i)
             g == iget(s1, i)
             s2 == [g EXCEPT !.core.inode[i] = File(u)]
             s3 == enter_name(s2, d, i, n)
             s4 == iput(s3, i)
             s5 == iput(s4, d)
             x == Entry(d, n, i)
  <2>1. r = <<s1, s3, s5>>
    BY <1>2 DEF createFile
  <2>2. i \in Inos \ s.disk.imap
    BY <1>0, <1>2, IallocFree
  <2>3. Creates(s, s1, g, s2, s3, u, d, n, i)
    BY DEF Creates
  <2> HIDE DEF i, r, s1, g, s2, s3
  <2>4. /\ Safe(s, s1, command) /\ Safe(s, s3, command) /\ Crashable(s3) /\ Created(Seen(s), Seen(s3), d, n, i)
        /\ \A j \in Inos \ {i} : CleanAt(s, j) => CleanAt(s3, j)
    BY <1>0, <2>2, <2>3, CreatesNames DEF Safe
  <2>5. Fit(s4) /\ Quiet(s3, s4) /\ CleanAt(s4, i)
    BY <2>2, <2>4, IputQuiet DEF Crashable
  <2> HIDE DEF s4
  <2>6. Fit(s5) /\ Quiet(s4, s5)
    BY <2>5, IputQuiet
  <2> HIDE DEF s5
  <2>7. Quiet(s3, s5)
    BY <2>5, <2>6, QuietOn
  <2>8. Crashable(s5) /\ Seen(s5) = Seen(s3)
    BY <2>4, <2>6, <2>7, QuietCrashable
  <2>9. \A j \in Inos : CleanAt(s5, j)
    BY <2>4, <2>5, <2>6, <2>7 DEF Settled, Quiet
  <2>10. Proper(Seen(s)) /\ Proper(Seen(s5)) /\ i \in Inos \ Seen(s).imap
    BY <1>0, <2>2, <2>8, SeenProper, SeenIs
  <2>11. Fresh(Seen(s), x)
    BY EntryIs DEF Fresh
  <2>12. FileNamed(Seen(s), Seen(s5), x)
    BY <2>4, <2>8, <2>10, <2>11, CreatedNames
  <2>13. Done(s, s5)
    BY <2>8, <2>9, <2>12, EntryIs, FileNamedDone
  <2>14. Course(s, r, command) /\ Last(r) = s5
    <3>1. Safe(s, s5, command)
      BY <2>4, <2>6, <2>7, SafeOn
    <3> QED BY <2>1, <2>4, <3>1, CourseOf3
  <2>15. Goes(s, r, command)
    BY <2>13, <2>14 DEF Goes
  <2> QED BY <2>15 DEF r
<1> QED BY <1>1, <1>2

\* The state s4 of makeDirectory, with the block b.
Makes(s, s1, s2, g, s3, a, s4, u, d, n, i, b) ==
    /\ s1 = TakeInode(s, i) /\ s2 = TakeBlock(s1, b) /\ g = iget(s2, i)
    /\ s3 = [g EXCEPT !.core.inode[i] = Directory(u, b), !.disk.dir[b] = Dir(i, d)]
    /\ a = AddLinks(s3, d, 1) /\ s4 = enter_name(a, d, i, n)

\* What becomes of it.
NamedBy(s, s1, s2, s3, s4, d, n, i, b, command) ==
    /\ Safe(s, s1, command) /\ Safe(s, s2, command) /\ Safe(s, s3, command)
    /\ Crashable(s4) /\ Grown(s, s4, d, n, i, {b})
    /\ s4.disk.imap = s.disk.imap \cup {i} /\ s4.core.inode[i].kind = "dir"
    /\ Made(Seen(s), Seen(s4), d, n, i, b)
    /\ \A j \in Inos \ {i, d} : CleanAt(s, j) => CleanAt(s4, j)

LEMMA MakesNames ==
    ASSUME NEW s, Crashable(s), Sound(Seen(s)), NEW d \in Dirs(Seen(s)), NEW n, Plain(n),
           NEW i \in Inos \ s.disk.imap,
           NEW b \in Blocks \ s.disk.bmap, NEW u, NEW s1, NEW s2, NEW g, NEW s3, NEW a, NEW s4,
           Makes(s, s1, s2, g, s3, a, s4, u, d, n, i, b), NEW command \in Risky
    PROVE  NamedBy(s, s1, s2, s3, s4, d, n, i, b, command)
<1> DEFINE k == s.core.inode[d].block
           f == Directory(u, b)
           h == Dir(i, d)
           l == [s.core.inode[d] EXCEPT !.links = s.core.inode[d].links + 1]
           D == [s.disk.dir EXCEPT ![b] = h]
           L == D[k].list \cup {Rec(n, i)}
           Y == [s.core.inode EXCEPT ![i] = f]
           Z == [Y EXCEPT ![d] = l]
           M == s.disk.imap \cup {i}
           B == s.disk.bmap \cup {b}
<1>0. d \in Inos /\ d \in s.disk.imap /\ k \in s.disk.bmap /\ k \in Blocks /\ d # i /\ k # b
  <2>1. d \in OpenDirs(Seen(s)) /\ Fit(s) /\ Proper(Seen(s)) /\ d \in Inos /\ d \in s.disk.imap
    BY KnownIs, SeenProper DEF Known, Crashable
  <2>2. k \in s.disk.bmap /\ k \in Blocks
    BY <2>1, SeenIs, EntriesFinite, OpenIs
  <2> QED BY <2>1, <2>2
<1>1. /\ Crashable(s1) /\ Roomy(s1.disk, s1.core.inode)
      /\ Turns(s, s1, M, s.disk.bmap, s.disk.dir, s.disk.inode, s.core.inode)
  BY TakeInodeCrashable DEF Makes
<1>2. b \in Blocks \ s1.disk.bmap
  BY <1>1 DEF Turns
<1>3. /\ Crashable(s2)
      /\ Turns(s1, s2, s1.disk.imap, s1.disk.bmap \cup {b}, s1.disk.dir, s1.disk.inode, s1.core.inode)
  BY <1>1, <1>2, TakeBlockCrashable DEF Makes
<1>4. Fit(g) /\ Quiet(s2, g) /\ Crashable(g)
  BY <1>3, IgetQuiet, QuietCrashable DEF Makes, Crashable
<1>5. /\ g.disk.imap = M /\ g.disk.bmap = B /\ g.disk.dir = s.disk.dir /\ g.core.inode = s.core.inode
      /\ g.core.inode[i].kind = "none" /\ g.disk.inode[i].kind = "none" /\ i \in g.disk.imap
  <2>1. s.core.inode[i].kind = "none" /\ s.disk.inode[i].kind = "none"
    BY CrashableIs DEF Taken
  <2>2. /\ s2.disk.imap = M /\ s2.disk.bmap = B /\ s2.disk.dir = s.disk.dir /\ s2.core.inode = s.core.inode
        /\ s2.disk.inode = s.disk.inode
    BY <1>1, <1>3 DEF Turns
  <2> QED BY <1>4, <2>1, <2>2 DEF Quiet
<1>6. /\ Crashable(s3)
      /\ Turns(g, s3, g.disk.imap, g.disk.bmap, [g.disk.dir EXCEPT ![b] = h], g.disk.inode,
               [g.core.inode EXCEPT ![i] = f])
  BY <1>4, <1>5, DirectoryCrashable DEF Makes
<1> HIDE DEF f, h
<1>7. /\ s3.disk.imap = M /\ s3.disk.bmap = B /\ s3.disk.dir = D /\ s3.core.inode = Y
  BY <1>5, <1>6 DEF Turns
<1>8. \A j \in Inos : Y[j] = IF j = i THEN f ELSE s.core.inode[j]
  BY CrashableIs DEF Shaped
<1>9. \A c \in Blocks : D[c] = IF c = b THEN h ELSE s.disk.dir[c]
  BY CrashableIs DEF Listing
<1>10. Listing(D) /\ DOMAIN Y = Inos
  BY <1>6, <1>7, CrashableIs DEF Shaped
<1> HIDE DEF Y, D
<1>11. /\ Crashable(a)
       /\ Turns(s3, a, s3.disk.imap, s3.disk.bmap, s3.disk.dir, s3.disk.inode,
                [s3.core.inode EXCEPT ![d] = [s3.core.inode[d] EXCEPT !.links = s3.core.inode[d].links + 1]])
  <2>1. 1 \in Int
    OBVIOUS
  <2> QED BY <1>0, <1>6, <2>1, AddLinksCrashable DEF Makes
<1>12. s3.core.inode[d] = s.core.inode[d]
  BY <1>0, <1>7, <1>8
<1>13. a.disk.imap = M /\ a.disk.bmap = B /\ a.disk.dir = D /\ a.core.inode = Z
  BY <1>7, <1>11, <1>12 DEF Turns
<1>14. \A j \in Inos : Z[j] = IF j = d THEN l ELSE Y[j]
  BY <1>10
<1>15. /\ l.kind = s.core.inode[d].kind /\ l.block = k /\ l.links = s.core.inode[d].links + 1
  BY <1>0, CrashableIs DEF Shaped, Formed
<1> HIDE DEF Z, l
<1>16. a.core.inode[d].block = k
  BY <1>0, <1>13, <1>14, <1>15
<1>17. i # 0
  BY Numbers
<1> HIDE DEF k
<1>18. /\ Crashable(s4)
       /\ Turns(a, s4, a.disk.imap, a.disk.bmap, Relisted(a.disk.dir, k, a.disk.dir[k].list \cup {Rec(n, i)}),
                a.disk.inode, a.core.inode)
  <2>1. s4 = enter_name(a, d, i, n)
    BY DEF Makes
  <2>2. Crashable(a) /\ a.core.inode[d].block \in Blocks
    BY <1>0, <1>11, <1>16
  <2>3. /\ Crashable(s4)
        /\ Turns(a, s4, a.disk.imap, a.disk.bmap,
                 Relisted(a.disk.dir, a.core.inode[d].block,
                          a.disk.dir[a.core.inode[d].block].list \cup {Rec(n, i)}),
                 a.disk.inode, a.core.inode)
    BY <1>17, <2>1, <2>2, EnterNameCrashable
  <2> QED BY <1>16, <2>3
<1>19. /\ s4.disk.imap = M /\ s4.disk.bmap = B
       /\ s4.disk.dir = Relisted(D, k, L) /\ s4.core.inode = Z
  BY <1>13, <1>18 DEF Turns
<1>20. GainsName(Seen(s), Seen(s4), d, n, i, {b})
  <2>1. Seen(s).dir = s.disk.dir /\ Seen(s4).dir = Relisted(D, k, L)
    BY <1>18, <1>19, SeenIs DEF Crashable
  <2>2. Seen(s).inode[d].block = k
    BY SeenIs DEF Crashable, k
  <2>3. Seen(s4).inode[d].block = k
    BY <1>0, <1>14, <1>15, <1>18, <1>19, SeenIs DEF Crashable
  <2>4. k \notin {b} /\ \A c \in Blocks \ {b} : D[c] = Seen(s).dir[c]
    BY <1>0, <1>9, <2>1
  <2> QED BY <1>0, <1>10, <2>1, <2>2, <2>3, <2>4, RelistedGains
<1>21. Made(Seen(s), Seen(s4), d, n, i, b)
  <2>1. /\ Seen(s).inode = s.core.inode /\ Seen(s4).inode = Z
        /\ Seen(s4).imap = Seen(s).imap \cup {i} /\ Seen(s4).bmap = Seen(s).bmap \cup {b}
    BY <1>18, <1>19, SeenIs DEF Crashable
  <2>2. f.kind = "dir" /\ f.links = 2 /\ f.block = b
    BY NewForms DEF f
  <2>3. Seen(s4).dir[b] = Dir(i, d)
    <3>1. Seen(s4).dir[b] = D[b]
      BY <1>0, <1>10, <1>18, <1>19, SeenIs DEF Crashable, Relisted, Listing
    <3> QED BY <1>9, <3>1 DEF h
  <2>4. Z[i] = f /\ Z[d] = l /\ \A j \in Inos \ {i, d} : Z[j] = s.core.inode[j]
    BY <1>0, <1>8, <1>14
  <2>5. l.kind = s.core.inode[d].kind /\ l.block = s.core.inode[d].block
    BY <1>15 DEF k
  <2> QED BY <1>15, <1>20, <2>1, <2>2, <2>3, <2>4, <2>5 DEF Made
<1>22. ASSUME NEW j \in Inos \ {i, d}, CleanAt(s, j) PROVE CleanAt(s4, j)
  <2>1. CleanAt(s1, j)
    BY <1>1, <1>22, TurnsClean
  <2>2. CleanAt(s2, j)
    BY <1>3, <2>1, TurnsClean
  <2>3. CleanAt(g, j)
    BY <1>4, <1>22, <2>2 DEF Quiet
  <2>4. s3.core.inode[j] = g.core.inode[j] /\ s3.disk.inode = g.disk.inode /\ s3.core.ref = g.core.ref
    BY <1>5, <1>6, <1>7, <1>8, <1>22 DEF Turns
  <2>5. CleanAt(s3, j)
    BY <2>3, <2>4 DEF CleanAt
  <2>6. a.core.inode[j] = s3.core.inode[j] /\ a.disk.inode = s3.disk.inode /\ a.core.ref = s3.core.ref
    BY <1>7, <1>11, <1>13, <1>14, <1>22 DEF Turns
  <2>7. CleanAt(a, j)
    BY <2>5, <2>6 DEF CleanAt
  <2> QED BY <1>18, <2>7, TurnsClean
<1>23. /\ i \notin OpenDirs(Seen(s)) /\ 0 \notin OpenDirs(Seen(s)) /\ i \in Inos /\ i \notin s.disk.imap
       /\ 0 \notin s.disk.imap /\ \A j \in OpenDirs(Seen(s)) : s.core.inode[j].block \notin {b}
       /\ s.disk.imap \subseteq Inos
  <2>1. /\ Proper(Seen(s)) /\ Seen(s).imap = s.disk.imap /\ Seen(s).bmap = s.disk.bmap
        /\ Seen(s).inode = s.core.inode /\ s.disk.imap \subseteq Inos /\ 0 \notin Inos
    BY SeenProper, SeenIs, Numbers DEF Crashable, Proper
  <2> QED BY <2>1, OpenIs
<1>24. \A j \in Inos : g.disk.inode[j] \in {s.disk.inode[j], s.core.inode[j]}
  <2>1. s2.disk.inode = s.disk.inode /\ s2.core.inode = s.core.inode
    BY <1>1, <1>3 DEF Turns
  <2> QED BY <1>4, <2>1 DEF Quiet
<1>25. Y[i] = f /\ f.kind = "dir" /\ s.core.inode[i].kind = "none"
  <2>1. s.core.inode[i].kind = "none"
    BY CrashableIs DEF Taken
  <2> QED BY <1>8, <2>1, NewForms DEF f
<1>26. ASSUME NEW x, Crashable(x), x.disk.imap = M, x.disk.bmap \in {s.disk.bmap, B},
              \A c \in Blocks \ {b} : x.disk.dir[c] = s.disk.dir[c],
              \A j \in Inos : x.disk.inode[j] \in {s.disk.inode[j], s.core.inode[j]},
              x.core.inode \in {s.core.inode, Y}
       PROVE  Safe(s, x, command)
  <2>1. \A j \in s.disk.imap : x.core.inode[j] = s.core.inode[j]
    BY <1>8, <1>23, <1>26
  <2>2. x.core.inode[i].kind # "reg"
    BY <1>25, <1>26
  <2>3. Grown(s, x, d, n, 0, {b})
    BY <1>23, <1>26, <2>1 DEF Grown, Between, LikeBut
  <2>4. Bare(s, x, x.core.inode, 0)
    BY <1>17, <1>23, <1>26, <2>2 DEF Bare
  <2> QED BY <1>26, <2>3, <2>4, GrownLeft DEF Safe
<1>27. Safe(s, s1, command) /\ Safe(s, s2, command) /\ Safe(s, s3, command)
  <2>1. /\ s1.disk.imap = M /\ s1.disk.bmap = s.disk.bmap /\ s1.disk.dir = s.disk.dir
        /\ s1.disk.inode = s.disk.inode /\ s1.core.inode = s.core.inode
    BY <1>1 DEF Turns
  <2>2. /\ s2.disk.imap = M /\ s2.disk.bmap = B /\ s2.disk.dir = s.disk.dir
        /\ s2.disk.inode = s.disk.inode /\ s2.core.inode = s.core.inode
    BY <1>3, <2>1 DEF Turns
  <2>3. s3.disk.inode = g.disk.inode
    BY <1>6 DEF Turns
  <2>4. Safe(s, s1, command)
    BY <1>1, <1>26, <2>1
  <2>5. Safe(s, s2, command)
    BY <1>3, <1>26, <2>2
  <2>6. Safe(s, s3, command)
    BY <1>6, <1>7, <1>9, <1>24, <1>26, <2>3
  <2> QED BY <2>4, <2>5, <2>6
<1>28. Grown(s, s4, d, n, i, {b})
  <2>1. \A j \in Inos : s4.disk.inode[j] \in {s.disk.inode[j], s.core.inode[j]}
    BY <1>6, <1>11, <1>18, <1>24 DEF Turns
  <2>2. ASSUME NEW j \in s.disk.imap PROVE LikeBut(s.core.inode[j], s4.core.inode[j], j = i)
    <3>1. CASE j = d
      <4>1. s.core.inode[d].kind = "dir"
        BY KnownIs, SeenProper, SeenIs, OpenIs DEF Crashable
      <4>2. s4.core.inode[d] = l /\ l.kind = s.core.inode[d].kind /\ l.block = s.core.inode[d].block
        BY <1>0, <1>14, <1>15, <1>19 DEF k
      <4> QED BY <3>1, <4>1, <4>2 DEF LikeBut
    <3>2. CASE j # d
      <4>1. s4.core.inode[j] = s.core.inode[j]
        BY <1>8, <1>14, <1>19, <1>23, <3>2
      <4> QED BY <4>1 DEF LikeBut
    <3> QED BY <3>1, <3>2
  <2> QED BY <1>17, <1>19, <1>20, <1>23, <2>1, <2>2 DEF Grown, Between
<1>29. s4.core.inode[i].kind = "dir"
  BY <1>0, <1>14, <1>19, <1>25
<1> QED BY <1>18, <1>19, <1>21, <1>22, <1>27, <1>28, <1>29 DEF NamedBy

\* makeDirectory.
LEMMA MakeDirectoryGoes ==
    ASSUME NEW s, Settled(s), NEW d \in Dirs(Seen(s)), NEW n, Plain(n),
           \A y \in EntriesOf(Seen(s), d) : y.name # n, NEW u,
           NEW command \in Risky
    PROVE  Goes(s, makeDirectory(s, u, d, n), command)
<1> DEFINE i == ialloc(s)
           r == makeDirectory(s, u, d, n)
<1>0. Crashable(s) /\ Fit(s) /\ Sound(Seen(s))
  BY DEF Settled, Crashable
<1>1. CASE i = 0
  <2>1. r = Overfull(AddLinks(s, d, 1), d, n)
    BY <1>1 DEF makeDirectory
  <2>2. Fit(AddLinks(s, d, 1))
    BY <1>0, AddLinksKeeps
  <2> QED BY <2>1, <2>2, OverfullGoes
<1>2. CASE i # 0
  <2> DEFINE b == balloc(s)
             s1 == TakeInode(s, i)
             s2 == TakeBlock(s1, b)
             g == iget(s2, i)
             s3 == [g EXCEPT !.core.inode[i] = Directory(u, b), !.disk.dir[b] = Dir(i, d)]
             a == AddLinks(s3, d, 1)
             s4 == enter_name(a, d, i, n)
             s5 == iput(s4, i)
             s6 == iput(s5, d)
             x == Entry(d, n, i)
  <2>1. r = <<s1, s2, s3, s4, s5, s6>>
    BY <1>2 DEF makeDirectory
  <2>2. i \in Inos \ s.disk.imap /\ b \in Blocks \ s.disk.bmap
    BY <1>0, <1>2, IallocFree, BallocFree
  <2>3. Makes(s, s1, s2, g, s3, a, s4, u, d, n, i, b)
    BY DEF Makes
  <2> HIDE DEF i, r, b, s1, s2, g, s3, a, s4
  <2>4. /\ Safe(s, s1, command) /\ Safe(s, s2, command) /\ Safe(s, s3, command)
        /\ Crashable(s4) /\ Grown(s, s4, d, n, i, {b})
        /\ s4.disk.imap = s.disk.imap \cup {i} /\ s4.core.inode[i].kind = "dir"
        /\ Made(Seen(s), Seen(s4), d, n, i, b)
        /\ \A j \in Inos \ {i, d} : CleanAt(s, j) => CleanAt(s4, j)
    <3>1. NamedBy(s, s1, s2, s3, s4, d, n, i, b, command)
      BY <1>0, <2>2, <2>3, MakesNames
    <3> QED BY <3>1 DEF NamedBy
  <2>5. Fit(s5) /\ Quiet(s4, s5) /\ CleanAt(s5, i)
    BY <2>2, <2>4, IputQuiet DEF Crashable
  <2> HIDE DEF s5
  <2>6. Fit(s6) /\ Quiet(s5, s6) /\ (d \in Inos => CleanAt(s6, d))
    BY <2>5, IputQuiet
  <2> HIDE DEF s6
  <2>7. Quiet(s4, s6)
    BY <2>5, <2>6, QuietOn
  <2>8. Crashable(s5) /\ Crashable(s6) /\ Seen(s6) = Seen(s4)
    BY <2>4, <2>5, <2>6, <2>7, QuietCrashable
  <2>9. \A j \in Inos : CleanAt(s6, j)
    BY <2>4, <2>5, <2>6, <2>7 DEF Settled, Quiet
  <2>10. Proper(Seen(s)) /\ Proper(Seen(s6)) /\ i \in Inos \ Seen(s).imap /\ b \in Blocks \ Seen(s).bmap
    BY <1>0, <2>2, <2>8, SeenProper, SeenIs
  <2>11. Fresh(Seen(s), x)
    BY EntryIs DEF Fresh
  <2>12. DirNamed(Seen(s), Seen(s6), x)
    BY <2>4, <2>8, <2>10, <2>11, MadeNames
  <2>13. Done(s, s6)
    BY <2>8, <2>9, <2>12, EntryIs, DirNamedDone
  <2>14. Safe(s, s4, command)
    <3>1. Sound(Seen(s4)) /\ Renamed(Seen(s), Seen(s4))
      BY <2>8, <2>13 DEF Done, Settled
    <3> QED BY <1>0, <2>2, <2>4, <3>1, MadeLeft DEF Safe
  <2>15. Safe(s, s5, command) /\ Safe(s, s6, command)
    BY <2>5, <2>6, <2>7, <2>14, SafeOn
  <2>16. Course(s, r, command) /\ Last(r) = s6
    BY <2>1, <2>4, <2>14, <2>15, CourseOf6
  <2>17. Goes(s, r, command)
    BY <2>13, <2>16 DEF Goes
  <2> QED BY <2>17 DEF r
<1> QED BY <1>1, <1>2

-------------------------------------------------------------------------------
\* The commands, from a directory of the tree.

\* A command may begin by making references.
LEMMA GoesFrom ==
    ASSUME NEW s, NEW g, Settled(s), Fit(g), Quiet(s, g), NEW t, NEW command, Goes(g, t, command)
    PROVE  Goes(s, t, command)
<1>1. Seen(g) = Seen(s)
  BY QuietSettled
<1>2. Written(s) => Written(g)
  BY QuietWritten DEF Settled
<1>3. ASSUME NEW x, Safe(g, x, command) PROVE Safe(s, x, command)
  BY <1>1, <1>2, <1>3 DEF Safe, Left, Fares
<1>4. Course(g, t, command) => Course(s, t, command)
  BY <1>3 DEF Course
<1> QED BY <1>1, <1>4 DEF Goes, Done

LEMMA UpIsDir ==
    ASSUME NEW d, Treelike(d), NEW i \in Dirs(d)
    PROVE  UpOf(d, i) \in Dirs(d)
<1>1. CASE i = ROOT
  BY <1>1 DEF Treelike, RootOnTop
<1>2. CASE i # ROOT
  <2>1. PICK e \in Entries(d) : UpOf(d, i) = e.dir
    BY <1>2 DEF Treelike, Hangs
  <2> QED BY <2>1, EntriesIs
<1> QED BY <1>1, <1>2

\* What a command knows of a name that the directory does not have.
LEMMA NewName ==
    ASSUME NEW s, Settled(s), NEW c \in Dirs(Seen(s)), NEW p \in Paths,
           NEW d, d = getino(s, c, Parent(p)), IsNew(s, d, Base(p))
    PROVE  d \in Dirs(Seen(s)) /\ Plain(Base(p)) /\ \A y \in EntriesOf(Seen(s), d) : y.name # Base(p)
<1> DEFINE n == Base(p)
           S == Seen(s)
<1>1. Crashable(s) /\ Sound(S) /\ Treelike(S) /\ Leads(S)
  BY SeenProper, SoundIs DEF Settled
<1>2. d \in Reachable(S)
  BY <1>1, ParentTyped, GetinoReaches
<1>3. IsDir(s, d) /\ search(s, d, n) = 0
  BY DEF IsNew
<1>4. d \in Dirs(S)
  BY <1>1, <1>2, <1>3, KnownIs
<1>5. /\ n = Dot => search(s, d, n) = d
      /\ n = DotDot => search(s, d, n) = UpOf(S, d)
      /\ n \notin {Dot, DotDot} =>
            \/ search(s, d, n) = 0 /\ \A y \in EntriesOf(S, d) : y.name # n
            \/ Entry(d, n, search(s, d, n)) \in EntriesOf(S, d)
  BY <1>1, <1>4, SearchDir
<1>6. UpOf(S, d) # 0
  <2>1. UpOf(S, d) \in Dirs(S)
    BY <1>1, <1>4, UpIsDir
  <2> QED BY <1>1, <2>1, KnownIs, Numbers DEF Known
<1>7. d # 0
  BY <1>1, <1>4, KnownIs, Numbers DEF Known
<1>8. Entry(d, n, 0) \notin EntriesOf(S, d)
  <2>1. Entry(d, n, 0).ino = 0
    BY EntryIs
  <2>2. \A y \in EntriesOf(S, d) : y.ino # 0
    BY EntriesOfIs, EntryIs
  <2> QED BY <2>1, <2>2
<1> HIDE DEF n, S
<1>9. Plain(n) /\ \A y \in EntriesOf(S, d) : y.name # n
  BY <1>3, <1>5, <1>6, <1>7, <1>8 DEF Plain
<1> QED BY <1>4, <1>9 DEF n, S

\* The commands of level-3 look for that.
LEMMA OutcomeNew ==
    ASSUME NEW s, NEW c, NEW p, NEW u, Outcome(s, u, c, p) = "new", NEW d, d = getino(s, c, Parent(p))
    PROVE  IsNew(s, d, Base(p))
<1> DEFINE n == Base(p)
           k == search(s, d, n) = 0
           m == MayWrite(s, u, d)
           i == IsDir(s, d)
<1>1. Outcome(s, u, c, p) =
        (CASE d = STUCK -> "stuck"
           [] d # STUCK /\ ~i -> "no directory"
           [] i /\ ~m -> "denied"
           [] i /\ m -> (IF k THEN "new" ELSE "exists"))
  BY Zenon DEF Outcome
<1>2. i => d # STUCK
  BY Numbers DEF IsDir
<1>3. i /\ k => IsNew(s, d, n)
  BY DEF IsNew
<1> HIDE DEF k, m, i
<1>4. CASE ~i
  <2>1. Outcome(s, u, c, p) \in {"stuck", "no directory"}
    BY <1>1, <1>4
  <2> QED BY <2>1
<1>5. CASE i
  <2>1. CASE m
    <3>1. Outcome(s, u, c, p) = (IF k THEN "new" ELSE "exists")
      BY <1>1, <1>2, <1>5, <2>1
    <3> QED BY <1>3, <1>5, <3>1 DEF n
  <2>2. CASE ~m
    <3>1. Outcome(s, u, c, p) = "denied"
      BY <1>1, <1>2, <1>5, <2>2
    <3> QED BY <3>1
  <2> QED BY <2>1, <2>2
<1> QED BY <1>4, <1>5

\* The part that tryCreate and tryMakeDirectory share.
LEMMA TryEnterGoes ==
    ASSUME NEW s, Settled(s), NEW u, NEW c, NEW p, NEW made, NEW command,
           Outcome(s, u, c, p) = "new" => Goes(s, made, command)
    PROVE  Goes(s, TryEnter(s, u, c, p, made), command)
<1> DEFINE r == TryEnter(s, u, c, p, made)
           g == iget(s, getino(s, c, Parent(p)))
<1>1. r \in {Stuck(s), <<g>>, <<s>>} \/ (Outcome(s, u, c, p) = "new" /\ r = made)
  BY DEF TryEnter
<1>2. Crashable(s) /\ Fit(s)
  BY DEF Settled, Crashable
<1>3. Fit(g) /\ Quiet(s, g)
  BY <1>2, IgetQuiet
<1> HIDE DEF g, r
<1>4. Goes(s, Stuck(s), command) /\ Goes(s, <<g>>, command) /\ Goes(s, <<s>>, command)
  BY <1>2, <1>3, StuckGoes, QuietGoes, NothingGoes
<1>5. Goes(s, r, command)
  BY <1>1, <1>4
<1> QED BY <1>5 DEF r

LEMMA TryCreateGoes ==
    ASSUME NEW s, Settled(s), NEW u, NEW c \in Dirs(Seen(s)), NEW p \in Paths, NEW command \in Risky
    PROVE  Goes(s, tryCreate(s, u, c, p), command) /\ Goes(s, tryMakeDirectory(s, u, c, p), command)
<1> DEFINE d == getino(s, c, Parent(p))
           n == Base(p)
           g == iget(s, d)
           file == createFile(g, u, d, n)
           dir == makeDirectory(g, u, d, n)
<1>1. Fit(s)
  BY DEF Settled, Crashable
<1>2. Fit(g) /\ Quiet(s, g)
  BY <1>1, IgetQuiet
<1>3. tryCreate(s, u, c, p) = TryEnter(s, u, c, p, file)
  BY DEF tryCreate
<1>4. tryMakeDirectory(s, u, c, p) = TryEnter(s, u, c, p, dir)
  BY DEF tryMakeDirectory
<1>5. Outcome(s, u, c, p) = "new" => d \in Dirs(Seen(s)) /\ Plain(n) /\ \A y \in EntriesOf(Seen(s), d) : y.name # n
  BY OutcomeNew, NewName
<1> HIDE DEF g, d, n
<1>6. Settled(g) /\ Seen(g) = Seen(s)
  BY <1>2, QuietSettled
<1>7. ASSUME Outcome(s, u, c, p) = "new" PROVE Goes(g, file, command) /\ Goes(g, dir, command)
  BY <1>5, <1>6, <1>7, CreateFileGoes, MakeDirectoryGoes
<1> HIDE DEF file, dir
<1>8. Outcome(s, u, c, p) = "new" => Goes(s, file, command) /\ Goes(s, dir, command)
  BY <1>2, <1>7, GoesFrom
<1> QED BY <1>3, <1>4, <1>8, TryEnterGoes

\* A file gets one more name, and a link.
LEMMA LinkedNames ==
    ASSUME NEW s, Crashable(s), Sound(Seen(s)), NEW d \in Dirs(Seen(s)), NEW n, Plain(n),
           NEW i \in Files(Seen(s)),
           NEW s1, s1 = enter_name(s, d, i, n), NEW s2, s2 = AddLinks(s1, i, 1),
           NEW command \in Risky
    PROVE  /\ Safe(s, s1, command) /\ Safe(s, s2, command) /\ LinkAdded(Seen(s), Seen(s2), d, n, i)
           /\ \A j \in Inos \ {i} : CleanAt(s, j) => CleanAt(s2, j)
<1> DEFINE k == s.core.inode[d].block
           x == s.core.inode[i]
           l == [x EXCEPT !.links = x.links + 1]
           Y == [s.core.inode EXCEPT ![i] = l]
           L == s.disk.dir[k].list \cup {Rec(n, i)}
<1>0. /\ d \in Inos /\ i \in Inos /\ k \in Blocks /\ d # i
  <2>1. d \in OpenDirs(Seen(s)) /\ Proper(Seen(s)) /\ d \in Inos /\ i \in Inos /\ d # i
    BY KnownIs, SeenProper DEF Known
  <2>2. Seen(s).inode = s.core.inode
    BY SeenIs DEF Crashable
  <2> QED BY <2>1, <2>2, EntriesFinite
<1>1. i # 0
  BY <1>0, Numbers
<1>2. DOMAIN x = {"kind", "uid", "links", "block"} /\ DOMAIN s.core.inode = Inos
  BY <1>0, CrashableIs DEF Shaped, Formed
<1>3. l.links = x.links + 1 /\ l.kind = x.kind /\ l.block = x.block
  BY <1>2
<1>4. Y[i] = l /\ \A j \in Inos \ {i} : Y[j] = s.core.inode[j]
  BY <1>0, <1>2
<1>5. /\ Crashable(s1)
      /\ Turns(s, s1, s.disk.imap, s.disk.bmap, Relisted(s.disk.dir, k, L), s.disk.inode, s.core.inode)
  BY <1>0, <1>1, EnterNameCrashable
<1>6. s1.core.inode = s.core.inode /\ s1.disk.imap = s.disk.imap /\ s1.disk.bmap = s.disk.bmap
      /\ s1.disk.inode = s.disk.inode /\ s1.disk.dir = Relisted(s.disk.dir, k, L)
  BY <1>5 DEF Turns
<1>7. /\ Crashable(s2)
      /\ Turns(s1, s2, s1.disk.imap, s1.disk.bmap, s1.disk.dir, s1.disk.inode,
               [s1.core.inode EXCEPT ![i] = [s1.core.inode[i] EXCEPT !.links = s1.core.inode[i].links + 1]])
  <2>1. 1 \in Int
    OBVIOUS
  <2> QED BY <1>0, <1>5, <2>1, AddLinksCrashable
<1>8. Turns(s1, s2, s1.disk.imap, s1.disk.bmap, s1.disk.dir, s1.disk.inode, Y)
  BY <1>6, <1>7
<1> HIDE DEF l, Y, L, k
<1>9. /\ s2.disk.imap = s.disk.imap /\ s2.disk.bmap = s.disk.bmap
      /\ s2.disk.dir = Relisted(s.disk.dir, k, L) /\ s2.core.inode = Y
  BY <1>6, <1>8 DEF Turns
<1>10. ASSUME NEW t, Crashable(t), t.disk.dir = Relisted(s.disk.dir, k, L), t.core.inode[d] = s.core.inode[d]
       PROVE  GainsName(Seen(s), Seen(t), d, n, i, {})
  <2>1. Seen(s).dir = s.disk.dir /\ Seen(t).dir = Relisted(s.disk.dir, k, L)
    BY <1>10, SeenIs DEF Crashable
  <2>2. Seen(s).inode[d].block = k
    BY SeenIs DEF Crashable, k
  <2>3. Seen(t).inode[d].block = k
    BY <1>10, SeenIs DEF Crashable, k
  <2>4. Listing(s.disk.dir)
    BY CrashableIs
  <2>5. k \notin {} /\ \A b \in Blocks \ {} : s.disk.dir[b] = Seen(s).dir[b]
    BY <2>1
  <2>6. Seen(t).dir = Relisted(s.disk.dir, k, s.disk.dir[k].list \cup {Rec(n, i)})
    BY <2>1 DEF L
  <2> QED BY <1>0, <2>2, <2>3, <2>4, <2>5, <2>6, RelistedGains
<1>11. LinkAdded(Seen(s), Seen(s2), d, n, i)
  <2>1. /\ Seen(s).inode = s.core.inode /\ Seen(s2).inode = Y
        /\ Seen(s2).imap = Seen(s).imap /\ Seen(s2).bmap = Seen(s).bmap
    BY <1>7, <1>9, SeenIs DEF Crashable
  <2>2. GainsName(Seen(s), Seen(s2), d, n, i, {})
    BY <1>0, <1>4, <1>7, <1>9, <1>10
  <2> QED BY <1>3, <1>4, <2>1, <2>2 DEF LinkAdded
<1>12. ASSUME NEW j \in Inos \ {i}, CleanAt(s, j) PROVE CleanAt(s2, j)
  <2>1. CleanAt(s1, j)
    BY <1>5, <1>12, TurnsClean
  <2>2. Y[j] = s1.core.inode[j]
    BY <1>4, <1>6, <1>12
  <2> QED BY <1>8, <2>1, <2>2, TurnsClean
<1>13. /\ i \notin OpenDirs(Seen(s)) /\ i \in s.disk.imap /\ s.core.inode[i].kind # "dir"
       /\ s.disk.imap \subseteq Inos
  <2>1. Seen(s).imap = s.disk.imap /\ Seen(s).inode = s.core.inode /\ s.disk.imap \subseteq Inos
    BY SeenIs, CrashableIs DEF Crashable
  <2> QED BY <2>1, FilesIs, OpenIs
<1>14. ASSUME NEW t, Crashable(t), t.disk.dir = Relisted(s.disk.dir, k, L), t.disk.imap = s.disk.imap,
              t.disk.bmap = s.disk.bmap, t.disk.inode = s.disk.inode, t.core.inode \in {s.core.inode, Y}
       PROVE  Safe(s, t, command)
  <2>1. GainsName(Seen(s), Seen(t), d, n, i, {})
    BY <1>0, <1>4, <1>10, <1>14
  <2>2. ASSUME NEW j \in s.disk.imap PROVE LikeBut(s.core.inode[j], t.core.inode[j], j = i)
    <3>1. CASE j = i
      BY <1>3, <1>4, <1>13, <1>14, <3>1 DEF LikeBut
    <3>2. CASE j # i
      BY <1>4, <1>13, <1>14, <3>2 DEF LikeBut
    <3> QED BY <3>1, <3>2
  <2>3. Grown(s, t, d, n, i, {})
    BY <1>1, <1>13, <1>14, <2>1, <2>2 DEF Grown, Between
  <2>4. Bare(s, t, t.core.inode, i)
    BY <1>14 DEF Bare
  <2> QED BY <1>14, <2>3, <2>4, GrownLeft DEF Safe
<1>15. Safe(s, s1, command)
  BY <1>5, <1>6, <1>14
<1>16. Safe(s, s2, command)
  <2>1. s2.disk.inode = s.disk.inode
    BY <1>6, <1>8 DEF Turns
  <2> QED BY <1>7, <1>9, <1>14, <2>1
<1> QED BY <1>11, <1>12, <1>15, <1>16

\* What link does with a file that it has found.
LEMMA LinkedGoes ==
    ASSUME NEW s, Settled(s), NEW od, NEW i \in Files(Seen(s)), NEW d \in Dirs(Seen(s)), NEW n,
           Plain(n),
           \A y \in EntriesOf(Seen(s), d) : y.name # n,
           NEW s1, s1 = enter_name(iget(iget(iget(s, od), i), d), d, i, n),
           NEW r, r = <<s1, iput3(AddLinks(s1, i, 1), d, i, od)>>,
           NEW command \in Risky
    PROVE  Goes(s, r, command)
<1> DEFINE g1 == iget(s, od)
           g2 == iget(g1, i)
           g == iget(g2, d)
           s2 == AddLinks(s1, i, 1)
           s3 == iput(s2, d)
           s4 == iput(s3, i)
           s5 == iput(s4, od)
           x == Entry(d, n, i)
<1>1. r = <<s1, s5>> /\ s1 = enter_name(g, d, i, n)
  BY DEF iput3
<1>2. Fit(s)
  BY DEF Settled, Crashable
<1>3. Fit(g1) /\ Quiet(s, g1)
  BY <1>2, IgetQuiet
<1> HIDE DEF g1
<1>4. Fit(g2) /\ Quiet(g1, g2)
  BY <1>3, IgetQuiet
<1> HIDE DEF g2
<1>5. Fit(g) /\ Quiet(g2, g)
  BY <1>4, IgetQuiet
<1> HIDE DEF g
<1>6. Quiet(s, g)
  BY <1>3, <1>4, <1>5, QuietOn
<1>7. Settled(g) /\ Seen(g) = Seen(s)
  BY <1>5, <1>6, QuietSettled
<1>8. Crashable(g) /\ Sound(Seen(g)) /\ i \in Inos
  BY <1>7, KnownIs DEF Settled, Known
<1>9. /\ Safe(g, s1, command) /\ Safe(g, s2, command) /\ Crashable(s2) /\ LinkAdded(Seen(g), Seen(s2), d, n, i)
      /\ \A j \in Inos \ {i} : CleanAt(g, j) => CleanAt(s2, j)
  BY <1>1, <1>7, <1>8, LinkedNames DEF Safe
<1> HIDE DEF s2
<1>10. Fit(s3) /\ Quiet(s2, s3)
  BY <1>9, IputQuiet DEF Crashable
<1> HIDE DEF s3
<1>11. Fit(s4) /\ Quiet(s3, s4) /\ CleanAt(s4, i)
  BY <1>8, <1>10, IputQuiet
<1> HIDE DEF s4
<1>12. Fit(s5) /\ Quiet(s4, s5)
  BY <1>11, IputQuiet
<1> HIDE DEF s5
<1>13. Quiet(s2, s5)
  BY <1>10, <1>11, <1>12, QuietOn
<1>14. Crashable(s5) /\ Seen(s5) = Seen(s2)
  BY <1>9, <1>12, <1>13, QuietCrashable
<1>15. \A j \in Inos : CleanAt(s5, j)
  BY <1>7, <1>9, <1>11, <1>12, <1>13 DEF Settled, Quiet
<1>16. Proper(Seen(g)) /\ Proper(Seen(s5))
  BY <1>8, <1>14, SeenProper
<1>17. Fresh(Seen(g), x)
  BY <1>7, EntryIs DEF Fresh
<1>18. FileNamed(Seen(g), Seen(s5), x)
  BY <1>7, <1>9, <1>14, <1>16, <1>17, LinkAddedNames
<1>19. Done(g, s5)
  BY <1>7, <1>14, <1>15, <1>18, EntryIs, FileNamedDone
<1>20. Course(g, r, command) /\ Last(r) = s5
  <2>1. Safe(g, s5, command)
    BY <1>9, <1>12, <1>13, SafeOn
  <2> QED BY <1>1, <1>9, <2>1, CourseOf2
<1>21. Goes(g, r, command)
  BY <1>19, <1>20 DEF Goes
<1> QED BY <1>5, <1>6, <1>21, GoesFrom

\* A file, or a link, that a path leads to.
LEMMA FileFound ==
    ASSUME NEW s, Settled(s), NEW c \in Dirs(Seen(s)), NEW p \in Paths,
           NEW d, d = getino(s, c, Parent(p)), IsDir(s, d), NEW i, i = search(s, d, Base(p)), i # 0
    PROVE  d \in Dirs(Seen(s)) /\ i \in Known(Seen(s)) /\ (~IsDir(s, i) => i \in Files(Seen(s)))
<1> DEFINE S == Seen(s)
<1>1. Crashable(s) /\ Sound(S)
  BY DEF Settled
<1>2. d \in Reachable(S)
  BY <1>1, ParentTyped, GetinoReaches
<1>3. d \in Dirs(S) /\ d \notin {0, STUCK}
  BY <1>1, <1>2, KnownIs, Numbers DEF IsDir
<1>4. i \in Reachable(S)
  <2>1. StepOf(s, d, Base(p)) = i
    BY <1>3 DEF StepOf
  <2> QED BY <1>1, <1>2, <2>1, StepReaches
<1>5. i # STUCK
  <2>1. \A j \in Known(S) : j # STUCK /\ j # 0
    BY <1>1, KnownIs, Numbers
  <2>2. Treelike(S) /\ Leads(S)
    BY <1>1, SeenProper, SoundIs
  <2>3. /\ Base(p) = Dot => i = d
        /\ Base(p) = DotDot => i = UpOf(S, d)
        /\ Base(p) \notin {Dot, DotDot} => i = 0 \/ Entry(d, Base(p), i) \in EntriesOf(S, d)
    BY <1>1, <1>3, SearchDir
  <2>4. CASE Base(p) \in {Dot, DotDot}
    BY <1>3, <2>1, <2>2, <2>3, <2>4, UpIsDir DEF Known
  <2>5. CASE Base(p) \notin {Dot, DotDot}
    <3>1. Entry(d, Base(p), i) \in Entries(S)
      BY <1>3, <2>3, <2>5, EntriesIs, EntryIs
    <3>2. i \in Known(S)
      BY <2>2, <3>1, EntryIs DEF Leads, Known
    <3> QED BY <2>1, <3>2
  <2> QED BY <2>4, <2>5
<1>6. i \in Known(S)
  BY <1>4, <1>5 DEF Reachable
<1>7. ~IsDir(s, i) => i \in Files(S)
  BY <1>1, <1>6, KnownIs DEF Known
<1> QED BY <1>3, <1>6, <1>7

LEMMA TryLinkGoes ==
    ASSUME NEW s, Settled(s), NEW u, NEW c \in Dirs(Seen(s)), NEW p \in Paths, NEW q \in Paths,
           NEW command \in Risky
    PROVE  Goes(s, tryLink(s, u, c, p, q), command)
<1> DEFINE od == getino(s, c, Parent(p))
           i == search(s, od, Base(p))
           nd == getino(s, c, Parent(q))
           s1 == enter_name(iget(iget(iget(s, od), i), nd), nd, i, Base(q))
           l == <<s1, iput3(AddLinks(s1, i, 1), nd, i, od)>>
           r == tryLink(s, u, c, p, q)
<1>1. \/ r \in {Stuck(s), <<s>>}
      \/ IsDir(s, od) /\ i # 0 /\ ~IsDir(s, i) /\ Outcome(s, u, c, q) = "new" /\ r = l
  <2> DEFINE o == Outcome(s, u, c, q)
  <2>1. r = (CASE od = STUCK -> Stuck(s)
               [] ~IsDir(s, od) -> <<s>>
               [] IsDir(s, od) /\ (i = 0 \/ IsDir(s, i)) -> <<s>>
               [] IsDir(s, od) /\ i # 0 /\ ~IsDir(s, i) ->
                     (CASE o = "stuck" -> Stuck(s)
                        [] o = "new" -> l
                        [] OTHER -> <<s>>))
    BY Zenon DEF tryLink
  <2> HIDE DEF l, r, o, i, od
  <2> QED BY <2>1 DEF o
<1>2. ASSUME IsDir(s, od), i # 0, ~IsDir(s, i), Outcome(s, u, c, q) = "new" PROVE Goes(s, l, command)
  <2>1. i \in Files(Seen(s))
    BY <1>2, FileFound
  <2>2. nd \in Dirs(Seen(s)) /\ Plain(Base(q)) /\ \A y \in EntriesOf(Seen(s), nd) : y.name # Base(q)
    BY <1>2, OutcomeNew, NewName
  <2> HIDE DEF i, nd, od
  <2> QED BY <2>1, <2>2, LinkedGoes
<1> HIDE DEF l, r
<1>3. Goes(s, r, command)
  BY <1>1, <1>2, StuckGoes, NothingGoes
<1> QED BY <1>3 DEF r

LEMMA FileDroppedDone ==
    ASSUME NEW s, Settled(s), NEW x, Crashable(x), \A j \in Inos : CleanAt(x, j),
           NEW e, FileDropped(Seen(s), Seen(x), e)
    PROVE  Done(s, x)
<1>1. Proper(Seen(s)) /\ Proper(Seen(x)) /\ Sound(Seen(s))
  BY SeenProper DEF Settled
<1>2. Sound(Seen(x))
  BY <1>1, FileDroppedSound
<1>3. Lost(Seen(s), Seen(x))
  BY <1>1, FileDroppedLost
<1>4. LinksEnough(Seen(s)) => LinksEnough(Seen(x))
  BY <1>1, FileDroppedLinks
<1> QED BY <1>1, <1>2, <1>3, <1>4, FileDroppedRenames DEF Done, Settled

LEMMA DirDroppedDone ==
    ASSUME NEW s, Settled(s), NEW x, Crashable(x), \A j \in Inos : CleanAt(x, j),
           NEW e, DirDropped(Seen(s), Seen(x), e), Seen(s).inode[e.ino].links <= 2
    PROVE  Done(s, x)
<1>1. Proper(Seen(s)) /\ Proper(Seen(x)) /\ Sound(Seen(s))
  BY SeenProper DEF Settled
<1>2. Sound(Seen(x))
  BY <1>1, DirDroppedSound
<1>3. LinksEnough(Seen(s)) => Lost(Seen(s), Seen(x))
  BY <1>1, DirDroppedLost
<1>4. LinksEnough(Seen(s)) => LinksEnough(Seen(x))
  BY <1>1, DirDroppedLinks
<1> QED BY <1>1, <1>2, <1>3, <1>4, DirDroppedRenames DEF Done, Settled

\* A name goes, and its link, and with its last link the file.
Unnames(s, s1, s2, s3, d, n, i) ==
    /\ s1 = iput(removeChild(s, d, n), d) /\ s2 = AddLinks(s1, i, -1)
    /\ s3 = IF s2.core.inode[i].links <= 0 THEN idalloc(s2, i) ELSE s2

LEMMA UnnamedGone ==
    ASSUME NEW s, Crashable(s), Sound(Seen(s)), NEW d \in Dirs(Seen(s)), NEW n,
           NEW i \in Files(Seen(s)),
           Entry(d, n, i) \in Entries(Seen(s)),
           NEW s1, NEW s2, NEW s3, Unnames(s, s1, s2, s3, d, n, i), NEW command
    PROVE  /\ Safe(s, s1, command) /\ Safe(s, s3, command) /\ NameGone(Seen(s), Seen(s3), Entry(d, n, i))
           /\ \A j \in Inos \ {i} : CleanAt(s, j) => CleanAt(s3, j)
<1> DEFINE h == removeChild(s, d, n)
           k == s.core.inode[d].block
           x == s.core.inode[i]
           l == [x EXCEPT !.links = x.links + -1]
           Y == [s.core.inode EXCEPT ![i] = l]
           L == {r \in s.disk.dir[k].list : r.name # n}
           D == Relisted(s.disk.dir, k, L)
           e == Entry(d, n, i)
<1>0. /\ d \in Inos /\ i \in Inos /\ k \in Blocks /\ d # i
      /\ Seen(s).inode = s.core.inode /\ Seen(s).dir = s.disk.dir /\ Seen(s).imap = s.disk.imap
      /\ Seen(s).bmap = s.disk.bmap
  <2>1. d \in OpenDirs(Seen(s)) /\ Proper(Seen(s)) /\ d \in Inos /\ i \in Inos /\ d # i
    BY KnownIs, SeenProper DEF Known
  <2>2. /\ Seen(s).inode = s.core.inode /\ Seen(s).dir = s.disk.dir /\ Seen(s).imap = s.disk.imap
        /\ Seen(s).bmap = s.disk.bmap
    BY SeenIs DEF Crashable
  <2> QED BY <2>1, <2>2, EntriesFinite
<1>1. DOMAIN x = {"kind", "uid", "links", "block"} /\ DOMAIN s.core.inode = Inos /\ x.links \in Int
      /\ x.kind \in {"none", "dir", "reg"}
  BY <1>0, CrashableIs DEF Shaped, Formed
<1>2. x.kind = "reg"
  <2>1. x.kind \notin {"none", "dir"}
    BY <1>0, FilesIs
  <2> QED BY <1>1, <2>1
<1>3. l.links = x.links - 1 /\ l.kind = x.kind /\ l.block = x.block
  BY <1>1
<1>4. Y[i] = l /\ \A j \in Inos \ {i} : Y[j] = s.core.inode[j]
  BY <1>0, <1>1
<1>5. Crashable(h) /\ Turns(s, h, s.disk.imap, s.disk.bmap, D, s.disk.inode, s.core.inode)
  BY <1>0, RemoveChildCrashable
<1> HIDE DEF h, D
<1>6. Fit(s1) /\ Quiet(h, s1) /\ Crashable(s1)
  <2>1. s1 = iput(h, d)
    BY DEF Unnames, h
  <2>2. Fit(h)
    BY <1>5 DEF Crashable
  <2> QED BY <1>5, <2>1, <2>2, IputQuiet, QuietCrashable
<1>7. /\ s1.core.inode = s.core.inode /\ s1.disk.imap = s.disk.imap /\ s1.disk.bmap = s.disk.bmap
      /\ s1.disk.dir = D
  BY <1>5, <1>6 DEF Turns, Quiet
<1>8. /\ Crashable(s2)
      /\ Turns(s1, s2, s1.disk.imap, s1.disk.bmap, s1.disk.dir, s1.disk.inode,
               [s1.core.inode EXCEPT ![i] = [s1.core.inode[i] EXCEPT !.links = s1.core.inode[i].links + -1]])
  <2>1. -1 \in Int
    OBVIOUS
  <2>2. s2 = AddLinks(s1, i, -1)
    BY DEF Unnames
  <2> QED BY <1>0, <1>6, <2>1, <2>2, AddLinksCrashable
<1>9. Turns(s1, s2, s1.disk.imap, s1.disk.bmap, s1.disk.dir, s1.disk.inode, Y)
  BY <1>7, <1>8
<1> HIDE DEF l, Y
<1>10. /\ s2.core.inode = Y /\ s2.disk.imap = s.disk.imap /\ s2.disk.bmap = s.disk.bmap /\ s2.disk.dir = D
  BY <1>7, <1>9 DEF Turns
<1>11. ASSUME NEW j \in Inos \ {i}, CleanAt(s, j) PROVE CleanAt(s2, j)
  <2>1. CleanAt(h, j)
    BY <1>5, <1>11, TurnsClean
  <2>2. CleanAt(s1, j)
    BY <1>6, <1>11, <2>1 DEF Quiet
  <2>3. Y[j] = s1.core.inode[j]
    BY <1>4, <1>7, <1>11
  <2> QED BY <1>9, <2>2, <2>3, TurnsClean
<1>12. ASSUME NEW t, Crashable(t), t.disk.dir = D, t.disk.bmap = s.disk.bmap,
              t.core.inode[d] = s.core.inode[d]
       PROVE  /\ LosesName(Seen(s), Seen(t), d, n, {}) /\ Seen(t).bmap = Seen(s).bmap
              /\ Seen(t).imap = t.disk.imap /\ Seen(t).inode = t.core.inode
  <2>1. /\ Seen(t).dir = D /\ Seen(t).bmap = Seen(s).bmap
        /\ Seen(t).imap = t.disk.imap /\ Seen(t).inode = t.core.inode
    BY <1>0, <1>12, SeenIs DEF Crashable
  <2>2. Seen(s).inode[d].block = k /\ Seen(t).inode[d].block = k
    BY <1>0, <1>12, <2>1
  <2>3. Listing(s.disk.dir)
    BY CrashableIs
  <2>4. k \notin {} /\ \A b \in Blocks \ {} : s.disk.dir[b] = Seen(s).dir[b]
    BY <1>0
  <2>5. Seen(t).dir = Relisted(s.disk.dir, k, {r \in s.disk.dir[k].list : r.name # n})
    BY <2>1 DEF D
  <2> HIDE DEF L, k
  <2>6. LosesName(Seen(s), Seen(t), d, n, {})
    BY <1>0, <2>2, <2>3, <2>4, <2>5, RelistedLoses
  <2> QED BY <2>1, <2>6
<1>13. e.dir = d /\ e.name = n /\ e.ino = i
  BY EntryIs
<1> HIDE DEF e
<1>14. Y[d] = s.core.inode[d]
  BY <1>0, <1>4
<1>15. ASSUME NEW t, Crashable(t), t.disk.dir = D, t.disk.bmap = s.disk.bmap, Between(s, t),
              \A j \in Inos \ {i} : t.core.inode[j] = s.core.inode[j],
              \/ /\ t.disk.imap = s.disk.imap /\ t.core.inode[i].kind = x.kind
                 /\ t.core.inode[i].links >= x.links - 1
              \/ /\ t.disk.imap = s.disk.imap \ {i} /\ t.core.inode[i].kind = "none" /\ x.links - 1 <= 0
       PROVE  Safe(s, t, command)
  <2>1. /\ LosesName(Seen(s), Seen(t), d, n, {}) /\ Seen(t).bmap = Seen(s).bmap
        /\ Seen(t).imap = t.disk.imap /\ Seen(t).inode = t.core.inode
    BY <1>0, <1>12, <1>15
  <2>2. s.disk.imap \subseteq Inos
    BY CrashableIs
  <2>3. Shedding(Seen(s), Seen(t), e)
    BY <1>0, <1>13, <1>15, <2>1, <2>2 DEF Shedding, Matching
  <2>4. e \in Entries(Seen(s)) /\ e.ino \in Files(Seen(s))
    BY <1>13 DEF e
  <2> QED BY <1>15, <2>3, <2>4, ShedLeft DEF Safe
<1>16. \A j \in Inos : s1.disk.inode[j] \in {s.disk.inode[j], s.core.inode[j]}
  BY <1>5, <1>6 DEF Turns, Quiet
<1>17. Safe(s, s1, command)
  <2>1. x.links >= x.links - 1
    BY <1>1
  <2>2. Between(s, s1)
    BY <1>16 DEF Between
  <2> QED BY <1>6, <1>7, <1>15, <2>1, <2>2
<1>18. s2.disk.inode = s1.disk.inode
  BY <1>9 DEF Turns
<1>19. CASE s2.core.inode[i].links <= 0
  <2>1. s3 = idalloc(s2, i) /\ s2.core.inode[i].kind = "reg"
    BY <1>2, <1>3, <1>4, <1>10, <1>19 DEF Unnames
  <2>2. /\ Crashable(s3) /\ \A j \in Inos : j = i \/ CleanAt(s2, j) => CleanAt(s3, j)
        /\ Turns(s2, s3, s2.disk.imap \ {i}, s2.disk.bmap, s2.disk.dir,
                 [s2.disk.inode EXCEPT ![i] = NoInode], [s2.core.inode EXCEPT ![i] = NoInode])
    BY <1>0, <1>8, <2>1, IdallocCrashable
  <2>3. /\ s3.disk.imap = s.disk.imap \ {i} /\ s3.disk.bmap = s.disk.bmap /\ s3.disk.dir = D
        /\ s3.core.inode = [Y EXCEPT ![i] = NoInode]
    BY <1>10, <2>2 DEF Turns
  <2>4. DOMAIN Y = Inos
    BY <1>8, <1>10, CrashableIs DEF Shaped
  <2>5. s3.core.inode[i] = NoInode /\ \A j \in Inos \ {i} : s3.core.inode[j] = s.core.inode[j]
    BY <1>0, <1>4, <2>3, <2>4
  <2>6. NoInode.kind = "none" /\ x.links - 1 <= 0
    BY <1>3, <1>4, <1>10, <1>19, NewForms
  <2>7. /\ LosesName(Seen(s), Seen(s3), d, n, {}) /\ Seen(s3).bmap = Seen(s).bmap
        /\ Seen(s3).imap = s3.disk.imap /\ Seen(s3).inode = s3.core.inode
    BY <1>0, <1>12, <2>2, <2>3, <2>5
  <2>8. NameGone(Seen(s), Seen(s3), e)
    BY <1>0, <1>13, <2>3, <2>5, <2>6, <2>7 DEF NameGone
  <2>9. \A j \in Inos \ {i} : CleanAt(s, j) => CleanAt(s3, j)
    BY <1>11, <2>2
  <2>10. Between(s, s3)
    <3>1. DOMAIN s2.disk.inode = Inos
      BY <1>8, CrashableIs DEF Shaped
    <3>2. s3.disk.inode = [s2.disk.inode EXCEPT ![i] = NoInode]
      BY <2>2 DEF Turns
    <3> QED BY <1>16, <1>18, <2>5, <3>1, <3>2 DEF Between
  <2>11. Safe(s, s3, command)
    BY <1>15, <2>2, <2>3, <2>5, <2>6, <2>10
  <2> QED BY <1>17, <2>8, <2>9, <2>11 DEF e
<1>20. CASE ~(s2.core.inode[i].links <= 0)
  <2>1. s3 = s2
    BY <1>20 DEF Unnames
  <2>2. /\ LosesName(Seen(s), Seen(s3), d, n, {}) /\ Seen(s3).bmap = Seen(s).bmap
        /\ Seen(s3).imap = s3.disk.imap /\ Seen(s3).inode = s3.core.inode
    BY <1>8, <1>10, <1>12, <1>14, <2>1
  <2>3. NameGone(Seen(s), Seen(s3), e)
    BY <1>0, <1>3, <1>4, <1>10, <1>13, <2>1, <2>2 DEF NameGone
  <2>4. Between(s, s3)
    BY <1>16, <1>18, <2>1 DEF Between
  <2>5. Y[i].links >= x.links - 1
    BY <1>1, <1>3, <1>4
  <2>6. Safe(s, s3, command)
    BY <1>3, <1>4, <1>8, <1>10, <1>15, <2>1, <2>4, <2>5
  <2> QED BY <1>11, <1>17, <2>1, <2>3, <2>6 DEF e
<1> QED BY <1>19, <1>20

\* The last component of a path to a file is its name in the directory before it.
LEMMA NamedFile ==
    ASSUME NEW s, Settled(s), NEW c \in Dirs(Seen(s)), NEW p \in Paths,
           NEW i, i = getino(s, c, p), i \in Inos, ~IsDir(s, i), NEW d, d = getino(s, c, Parent(p))
    PROVE  d \in Dirs(Seen(s)) /\ i \in Files(Seen(s)) /\ Entry(d, Base(p), i) \in Entries(Seen(s))
<1> DEFINE S == Seen(s)
           n == Base(p)
<1>1. Crashable(s) /\ Sound(S) /\ Treelike(S)
  BY SeenProper, SoundIs DEF Settled
<1>2. d \in Reachable(S) /\ i \in Reachable(S)
  BY <1>1, ParentTyped, GetinoReaches
<1>3. i = StepOf(s, d, n)
  BY <1>1, GetinoLast
<1>4. i \notin {0, STUCK}
  BY Numbers
<1>5. d \in Dirs(S) /\ i = search(s, d, n)
  BY <1>1, <1>2, <1>3, <1>4, StepReaches
<1>6. i \notin Dirs(S) /\ i \in Files(S)
  <2>1. i \notin Dirs(S)
    BY <1>1, KnownIs
  <2> QED BY <1>2, <1>4, <2>1 DEF Reachable, Known
<1>7. /\ n = Dot => i = d
      /\ n = DotDot => i = UpOf(S, d)
      /\ n \notin {Dot, DotDot} => i = 0 \/ Entry(d, n, i) \in EntriesOf(S, d)
  BY <1>1, <1>5, SearchDir
<1>8. UpOf(S, d) \in Dirs(S)
  BY <1>1, <1>5, UpIsDir
<1>9. Entry(d, n, i) \in EntriesOf(S, d)
  BY <1>4, <1>5, <1>6, <1>7, <1>8
<1>10. Entry(d, n, i) \in Entries(S)
  BY <1>5, <1>9, EntriesIs, EntryIs
<1> QED BY <1>5, <1>6, <1>10

\* What unlink does with a file that it has found, whether it releases the directory once, as
\* level-1 does, or twice.
LEMMA UnlinkedGoes ==
    ASSUME NEW s, Settled(s), NEW d \in Dirs(Seen(s)), NEW n, NEW i \in Files(Seen(s)),
           Entry(d, n, i) \in Entries(Seen(s)),
           NEW g, g = iget(iget(s, i), d), NEW s1, NEW s2, NEW s3, Unnames(g, s1, s2, s3, d, n, i),
           NEW r, r \in {<<s1, s3, iput(s3, i)>>, <<s1, s3, iput(s3, i), iput(iput(s3, i), d)>>},
           NEW command
    PROVE  Goes(s, r, command)
<1> DEFINE g1 == iget(s, i)
           s4 == iput(s3, i)
           s5 == iput(s4, d)
           x == Entry(d, n, i)
           a == <<s1, s3>>
           once == <<s4>>
           twice == <<s4, s5>>
<1>1. (r = a \o once \/ r = a \o twice) /\ g = iget(g1, d)
  OBVIOUS
<1>2. Fit(s)
  BY DEF Settled, Crashable
<1>3. Fit(g1) /\ Quiet(s, g1)
  BY <1>2, IgetQuiet
<1> HIDE DEF g1
<1>4. Fit(g) /\ Quiet(g1, g)
  BY <1>1, <1>3, IgetQuiet
<1>5. Quiet(s, g)
  BY <1>3, <1>4, QuietOn
<1>6. Settled(g) /\ Seen(g) = Seen(s)
  BY <1>4, <1>5, QuietSettled
<1>7. Crashable(g) /\ i \in Inos /\ Sound(Seen(g)) /\ Treelike(Seen(g))
  BY <1>6, KnownIs, SeenProper, SoundIs DEF Settled, Known
<1>8. /\ Safe(g, s1, command) /\ Safe(g, s3, command) /\ Crashable(s3) /\ NameGone(Seen(g), Seen(s3), x)
      /\ \A j \in Inos \ {i} : CleanAt(g, j) => CleanAt(s3, j)
  BY <1>6, <1>7, UnnamedGone DEF Safe
<1>9. Fit(s4) /\ Quiet(s3, s4) /\ CleanAt(s4, i)
  BY <1>7, <1>8, IputQuiet DEF Crashable
<1> HIDE DEF s4
<1>10. Fit(s5) /\ Quiet(s4, s5)
  BY <1>9, IputQuiet
<1> HIDE DEF s5
<1>11. Crashable(s4) /\ Seen(s4) = Seen(s3)
  BY <1>8, <1>9, QuietCrashable
<1>12. \A j \in Inos : CleanAt(s4, j)
  BY <1>6, <1>8, <1>9 DEF Settled, Quiet
<1>13. Proper(Seen(g)) /\ Proper(Seen(s4))
  BY <1>7, <1>11, SeenProper
<1>14. x \in Entries(Seen(g)) /\ x.ino \in Files(Seen(g))
  BY <1>6, EntryIs
<1>15. FileDropped(Seen(g), Seen(s4), x)
  BY <1>7, <1>8, <1>11, <1>13, <1>14, NameGoneDrops
<1>16. Done(g, s4)
  BY <1>6, <1>11, <1>12, <1>15, FileDroppedDone
<1>17. Done(g, s5)
  BY <1>10, <1>16, DoneOn
<1>18. Safe(g, s4, command) /\ Safe(g, s5, command)
  BY <1>8, <1>9, <1>10, SafeOn
<1>19. /\ Course(g, a, command)
       /\ Course(g, once, command) /\ Last(once) = s4
       /\ Course(g, twice, command) /\ Last(twice) = s5
  BY <1>8, <1>18, CourseOf1, CourseOf2
<1> HIDE DEF a, once, twice
<1>20. /\ Course(g, a \o once, command) /\ Last(a \o once) = s4
       /\ Course(g, a \o twice, command) /\ Last(a \o twice) = s5
  BY <1>19, CourseOn
<1>21. Goes(g, r, command)
  BY <1>1, <1>16, <1>17, <1>20 DEF Goes
<1> QED BY <1>4, <1>5, <1>21, GoesFrom

LEMMA TryUnlinkGoes ==
    ASSUME NEW s, Settled(s), NEW u, NEW c \in Dirs(Seen(s)), NEW p \in Paths, NEW command
    PROVE  Goes(s, tryUnlink(s, u, c, p), command)
<1> DEFINE i == getino(s, c, p)
           d == getino(s, c, Parent(p))
           n == Base(p)
           g == iget(iget(s, i), d)
           s1 == iput(removeChild(g, d, n), d)
           s2 == AddLinks(s1, i, -1)
           s3 == IF s2.core.inode[i].links <= 0 THEN idalloc(s2, i) ELSE s2
           t == <<s1, s3, iput(s3, i), iput(iput(s3, i), d)>>
           r == tryUnlink(s, u, c, p)
<1>1. r \in {Stuck(s), <<s>>} \/ (i \in Inos /\ s.core.inode[i].kind = "reg" /\ r = t)
  <2>1. r = (CASE i = STUCK -> Stuck(s)
               [] i \in Inos /\ s.core.inode[i].kind = "reg" /\ MayWrite(s, u, d) -> t
               [] OTHER -> <<s>>)
    BY Zenon DEF tryUnlink
  <2> HIDE DEF t, r, i, d
  <2> QED BY <2>1
<1>2. ASSUME i \in Inos, s.core.inode[i].kind = "reg" PROVE Goes(s, t, command)
  <2>1. ~IsDir(s, i)
    BY <1>2 DEF IsDir
  <2>2. d \in Dirs(Seen(s)) /\ i \in Files(Seen(s)) /\ Entry(d, n, i) \in Entries(Seen(s))
    BY <1>2, <2>1, NamedFile
  <2>3. Unnames(g, s1, s2, s3, d, n, i)
    BY DEF Unnames
  <2>4. g = iget(iget(s, i), d)
    OBVIOUS
  <2> HIDE DEF g, s1, s2, s3, d, n, i
  <2> QED BY <2>2, <2>3, <2>4, UnlinkedGoes
<1> HIDE DEF t, r
<1>3. Goes(s, r, command)
  BY <1>1, <1>2, StuckGoes, NothingGoes
<1> QED BY <1>3 DEF r

\* A directory goes, with its block and its name.
LEMMA RemovedGone ==
    ASSUME NEW s, Crashable(s), Sound(Seen(s)), NEW d, NEW n, NEW i \in Dirs(Seen(s)),
           Entry(d, n, i) \in Entries(Seen(s)),
           NEW s1, NEW s2, NEW s3, Removed(s, s1, s2, s3, d, i, n), NEW command \in Risky
    PROVE  /\ Safe(s, s1, command) /\ Safe(s, s2, command) /\ Crashable(s3) /\ Keeping(s, s3)
           /\ DirGone(Seen(s), Seen(s3), Entry(d, n, i))
           /\ \A j \in Inos : CleanAt(s, j) => CleanAt(s3, j)
<1> DEFINE S == Seen(s)
           e == Entry(d, n, i)
           b == s.core.inode[i].block
           k == s.core.inode[d].block
           D == [s.disk.dir EXCEPT ![b] = Dir(0, 0)]
           Y == [s.core.inode EXCEPT ![i] = NoInode]
           L == {r \in D[k].list : r.name # n}
<1>1. e.dir = d /\ e.name = n /\ e.ino = i
  BY EntryIs
<1>2. d \in Dirs(S) /\ d # i
  <2>1. Treelike(S)
    BY SeenProper, SoundIs
  <2> QED BY <1>1, <2>1, NotOwn
<1>3. /\ d \in Inos /\ i \in Inos /\ S.inode = s.core.inode /\ S.dir = s.disk.dir
      /\ S.imap = s.disk.imap /\ S.bmap = s.disk.bmap
  BY <1>2, KnownIs, SeenIs DEF Crashable, Known
<1>4. k \in Blocks /\ b \in Blocks /\ b \in s.disk.bmap /\ k # b
  <2>1. d \in OpenDirs(S) /\ i \in OpenDirs(S) /\ Proper(S)
    BY <1>2, KnownIs, SeenProper
  <2>2. k \in Blocks /\ b \in Blocks
    BY <1>3, <2>1, EntriesFinite
  <2>3. b \in s.disk.bmap
    BY <1>3, <2>1, OpenIs
  <2>4. k # b
    BY <1>2, <1>3, <2>1, OwnBlock
  <2> QED BY <2>2, <2>3, <2>4
<1>5. /\ Crashable(s1) /\ Roomy(s1.disk, s1.core.inode)
      /\ Turns(s, s1, s.disk.imap, s.disk.bmap \ {b}, D, s.disk.inode, s.core.inode)
  BY <1>4, TruncateCrashable DEF Removed
<1>6. /\ Crashable(s2) /\ \A j \in Inos : j = i \/ CleanAt(s1, j) => CleanAt(s2, j)
      /\ Turns(s1, s2, s1.disk.imap \ {i}, s1.disk.bmap, s1.disk.dir,
               [s1.disk.inode EXCEPT ![i] = NoInode], [s1.core.inode EXCEPT ![i] = NoInode])
  BY <1>3, <1>5, IdallocCrashable DEF Removed
<1>7. /\ s2.disk.imap = s.disk.imap \ {i} /\ s2.disk.bmap = s.disk.bmap \ {b}
      /\ s2.disk.dir = D /\ s2.core.inode = Y
  BY <1>5, <1>6 DEF Turns
<1>8. Y[i] = NoInode /\ \A j \in Inos \ {i} : Y[j] = s.core.inode[j]
  <2>1. DOMAIN s.core.inode = Inos
    BY CrashableIs DEF Shaped
  <2> QED BY <1>3, <2>1
<1>9. \A c \in Blocks \ {b} : D[c] = s.disk.dir[c]
  <2>1. DOMAIN s.disk.dir = Blocks
    BY CrashableIs DEF Listing
  <2> QED BY <2>1
<1>10. Listing(D)
  BY <1>5, CrashableIs DEF Turns
<1>11. s2.core.inode[d].block = k
  BY <1>2, <1>3, <1>7, <1>8
<1> HIDE DEF Y, D, k, b
<1>12. /\ Crashable(s3)
       /\ Turns(s2, s3, s2.disk.imap, s2.disk.bmap, Relisted(s2.disk.dir, k, {r \in s2.disk.dir[k].list : r.name # n}),
                s2.disk.inode, s2.core.inode)
  <2>1. s3 = removeChild(s2, d, n)
    BY DEF Removed
  <2>2. s2.core.inode[d].block \in Blocks
    BY <1>4, <1>11
  <2> QED BY <1>6, <1>11, <2>1, <2>2, RemoveChildCrashable
<1>13. /\ s3.disk.imap = s.disk.imap \ {i} /\ s3.disk.bmap = s.disk.bmap \ {b}
       /\ s3.disk.dir = Relisted(D, k, L) /\ s3.core.inode = Y
  BY <1>7, <1>12 DEF Turns
<1>14. /\ Seen(s3).imap = S.imap \ {i} /\ Seen(s3).bmap = S.bmap \ {b}
       /\ Seen(s3).dir = Relisted(D, k, L) /\ Seen(s3).inode = Y
  BY <1>3, <1>12, <1>13, SeenIs DEF Crashable
<1>15. LosesName(S, Seen(s3), d, n, {b})
  <2>1. S.inode[d].block = k /\ Seen(s3).inode[d].block = k
    BY <1>2, <1>3, <1>8, <1>14 DEF k
  <2>2. k \notin {b} /\ \A c \in Blocks \ {b} : D[c] = S.dir[c]
    BY <1>3, <1>4, <1>9
  <2>3. Seen(s3).dir = Relisted(D, k, {r \in D[k].list : r.name # n})
    BY <1>14
  <2> HIDE DEF L, S
  <2> QED BY <1>4, <1>10, <2>1, <2>2, <2>3, RelistedLoses
<1>16. DirGone(S, Seen(s3), e)
  <2>1. NoInode.kind = "none"
    BY NewForms
  <2>2. S.inode[i].block = b
    BY <1>3 DEF b
  <2> HIDE DEF S, e
  <2> QED BY <1>1, <1>3, <1>8, <1>14, <1>15, <2>1, <2>2 DEF DirGone
<1>17. ASSUME NEW j \in Inos, CleanAt(s, j) PROVE CleanAt(s3, j)
  <2>1. CleanAt(s1, j)
    BY <1>5, <1>17, TurnsClean
  <2>2. CleanAt(s2, j)
    BY <1>6, <2>1
  <2> QED BY <1>12, <2>2, TurnsClean
<1>18. S.inode[i].block = b /\ s.core.inode[i].kind = "dir" /\ NoInode.kind = "none" /\ s.disk.imap \subseteq Inos
  <2>1. i \in OpenDirs(S) /\ S.inode[i].block = b
    BY <1>3, KnownIs DEF b
  <2> QED BY <1>3, <2>1, OpenIs, NewForms, CrashableIs
<1>19. ASSUME NEW x, Crashable(x), Between(s, x), x.disk.imap \in {s.disk.imap, s.disk.imap \ {i}},
              x.disk.bmap = s.disk.bmap \ {b}, x.disk.dir = D, x.core.inode \in {s.core.inode, Y}
       PROVE  Safe(s, x, command)
  <2>1. /\ Seen(x).imap = x.disk.imap /\ Seen(x).bmap = S.bmap \ {b} /\ Seen(x).dir = D
        /\ Seen(x).inode = x.core.inode
    BY <1>3, <1>19, SeenIs DEF Crashable
  <2>2. \A j \in s.disk.imap \ {i} : x.core.inode[j] = s.core.inode[j]
    BY <1>8, <1>18, <1>19
  <2>3. x.core.inode[i].kind # "reg" /\ (x.core.inode[i].kind = "dir" => x.core.inode[i] = s.core.inode[i])
    BY <1>8, <1>18, <1>19
  <2>4. Shutting(S, Seen(x), e)
    <3> HIDE DEF S, e
    <3> QED BY <1>1, <1>3, <1>9, <1>18, <1>19, <2>1, <2>2, <2>3 DEF Shutting, Matching
  <2>5. e \in Entries(S) /\ e.ino \in Dirs(S)
    BY <1>1
  <2> QED BY <1>19, <2>4, <2>5, ShutLeft DEF Safe
<1>20. Between(s, s1) /\ Between(s, s2) /\ Between(s, s3)
  <2>1. s1.disk.inode = s.disk.inode /\ s3.disk.inode = s2.disk.inode
    BY <1>5, <1>12 DEF Turns
  <2>2. s2.disk.inode = [s.disk.inode EXCEPT ![i] = NoInode]
    BY <1>6, <2>1 DEF Turns
  <2>3. DOMAIN s.disk.inode = Inos
    BY CrashableIs DEF Shaped
  <2>4. \A j \in Inos : s2.disk.inode[j] = IF j = i THEN NoInode ELSE s.disk.inode[j]
    BY <2>2, <2>3
  <2> QED BY <1>7, <1>8, <1>13, <2>1, <2>4 DEF Between
<1>21. Safe(s, s1, command)
  BY <1>5, <1>19, <1>20 DEF Turns
<1>22. Safe(s, s2, command)
  BY <1>6, <1>7, <1>19, <1>20
<1>23. Keeping(s, s3)
  BY <1>8, <1>13, <1>18, <1>20 DEF Keeping, Matching
<1> QED BY <1>12, <1>16, <1>17, <1>21, <1>22, <1>23

\* What rmdir does with a directory that it removes.
LEMMA RemovedGoes ==
    ASSUME NEW s, Settled(s), NEW d, NEW n, NEW i \in Dirs(Seen(s)),
           Entry(d, n, i) \in Entries(Seen(s)),
           NEW g, g = iget(iget(s, d), i), g.core.inode[i].links <= 2,
           NEW s1, NEW s2, NEW s3, Removed(g, s1, s2, s3, d, i, n),
           NEW r, r = <<s1, s2, s3, iput(s3, i), iput(iput(s3, i), d)>>,
           NEW command \in Risky
    PROVE  Goes(s, r, command)
<1> DEFINE g1 == iget(s, d)
           s4 == iput(s3, i)
           s5 == iput(s4, d)
           x == Entry(d, n, i)
<1>1. r = <<s1, s2, s3>> \o <<s4, s5>> /\ g = iget(g1, i)
  OBVIOUS
<1>2. Fit(s)
  BY DEF Settled, Crashable
<1>3. Fit(g1) /\ Quiet(s, g1)
  BY <1>2, IgetQuiet
<1> HIDE DEF g1
<1>4. Fit(g) /\ Quiet(g1, g)
  BY <1>1, <1>3, IgetQuiet
<1>5. Quiet(s, g)
  BY <1>3, <1>4, QuietOn
<1>6. Settled(g) /\ Seen(g) = Seen(s)
  BY <1>4, <1>5, QuietSettled
<1>7. Crashable(g) /\ Sound(Seen(g)) /\ Treelike(Seen(g)) /\ Seen(g).inode = g.core.inode
  BY <1>6, SeenProper, SoundIs, SeenIs DEF Settled, Crashable
<1>8. /\ Safe(g, s1, command) /\ Safe(g, s2, command) /\ Crashable(s3) /\ Keeping(g, s3) /\ DirGone(Seen(g), Seen(s3), x)
      /\ \A j \in Inos : CleanAt(g, j) => CleanAt(s3, j)
  BY <1>6, <1>7, RemovedGone
<1>9. Fit(s4) /\ Quiet(s3, s4)
  BY <1>8, IputQuiet DEF Crashable
<1> HIDE DEF s4
<1>10. Fit(s5) /\ Quiet(s4, s5)
  BY <1>9, IputQuiet
<1> HIDE DEF s5
<1>11. Quiet(s3, s5)
  BY <1>9, <1>10, QuietOn
<1>12. Crashable(s4) /\ Crashable(s5) /\ Seen(s5) = Seen(s3)
  BY <1>8, <1>9, <1>10, <1>11, QuietCrashable
<1>13. \A j \in Inos : CleanAt(s5, j)
  BY <1>6, <1>8, <1>11 DEF Settled, Quiet
<1>14. Proper(Seen(g)) /\ Proper(Seen(s5))
  BY <1>7, <1>12, SeenProper
<1>15. x \in Entries(Seen(g)) /\ x.ino \in Dirs(Seen(g)) /\ x.ino = i
  BY <1>6, EntryIs
<1>16. DirDropped(Seen(g), Seen(s5), x)
  BY <1>7, <1>8, <1>12, <1>14, <1>15, DirGoneDrops
<1>17. Done(g, s5)
  BY <1>6, <1>7, <1>12, <1>13, <1>15, <1>16, DirDroppedDone
<1>18. Course(g, r, command) /\ Last(r) = s5
  <2> DEFINE a == <<s1, s2, s3>>
             b == <<s4, s5>>
  <2>1. Safe(g, s3, command)
    <3>1. Sound(Seen(s3)) /\ Renamed(Seen(g), Seen(s3))
      BY <1>12, <1>17 DEF Done, Settled
    <3> QED BY <1>7, <1>8, <3>1, KeepingLeft DEF Safe
  <2>2. Safe(g, s4, command) /\ Safe(g, s5, command)
    BY <1>9, <1>10, <1>11, <2>1, SafeOn
  <2>3. Course(g, a, command) /\ Course(g, b, command) /\ Last(b) = s5
    BY <1>8, <2>1, <2>2, CourseOf2, CourseOf3
  <2>4. r = a \o b
    BY <1>1
  <2> HIDE DEF a, b
  <2>5. Course(g, a \o b, command) /\ Last(a \o b) = Last(b)
    BY <2>3, CourseOn
  <2> QED BY <2>3, <2>4, <2>5
<1>19. Goes(g, r, command)
  BY <1>17, <1>18 DEF Goes
<1> QED BY <1>4, <1>5, <1>19, GoesFrom

\* One that it does not remove.
LEMMA ReleasedGoes ==
    ASSUME NEW s, Settled(s), NEW d, NEW i, NEW r,
           r = <<iput(iput(iget(iget(s, d), i), i), d)>>, NEW command
    PROVE  Goes(s, r, command)
<1> DEFINE g1 == iget(s, d)
           g2 == iget(g1, i)
           g3 == iput(g2, i)
           g4 == iput(g3, d)
<1>1. r = <<g4>>
  OBVIOUS
<1>2. Fit(s)
  BY DEF Settled, Crashable
<1>3. Fit(g1) /\ Quiet(s, g1)
  BY <1>2, IgetQuiet
<1> HIDE DEF g1
<1>4. Fit(g2) /\ Quiet(g1, g2)
  BY <1>3, IgetQuiet
<1> HIDE DEF g2
<1>5. Fit(g3) /\ Quiet(g2, g3)
  BY <1>4, IputQuiet
<1> HIDE DEF g3
<1>6. Fit(g4) /\ Quiet(g3, g4)
  BY <1>5, IputQuiet
<1> HIDE DEF g4
<1>7. Quiet(s, g4)
  BY <1>3, <1>4, <1>5, <1>6, QuietOn
<1> QED BY <1>1, <1>6, <1>7, QuietGoes

LEMMA TryRemoveDirectoryGoes ==
    ASSUME NEW s, Settled(s), NEW u, NEW c \in Dirs(Seen(s)), NEW p \in Paths, NEW command \in Risky
    PROVE  Goes(s, tryRemoveDirectory(s, u, c, p), command)
<1> DEFINE d == getino(s, c, Parent(p))
           n == Base(p)
           i == search(s, d, n)
           g == iget(iget(s, d), i)
           s1 == truncate(g, i)
           s2 == idalloc(s1, i)
           s3 == removeChild(s2, d, n)
           t == <<s1, s2, s3, iput(s3, i), iput(iput(s3, i), d)>>
           v == <<iput(iput(g, i), d)>>
           x == [s EXCEPT !.up = "rmdir of a parent"]
           few == g.core.inode[i].links <= 2
           r == tryRemoveDirectory(s, u, c, p)
<1>1. \/ r \in {Stuck(s), <<s>>, <<x>>, v}
      \/ IsDir(s, d) /\ IsDir(s, i) /\ few /\ ~Unnamed(p) /\ r = t
  <2> DEFINE y == removeDirectory(g, d, i, n)
  <2>1. y = v \/ (few /\ y = t)
    BY DEF removeDirectory
  <2>2. Len(t) = 5
    <3> DEFINE a == iput(s3, i)
               b == iput(a, d)
    <3>1. t = <<s1, s2, s3, a, b>>
      OBVIOUS
    <3> HIDE DEF s1, s2, s3, a, b, t
    <3> QED BY <3>1
  <2>3. r = (CASE d = STUCK -> Stuck(s)
               [] IsDir(s, d) /\ IsDir(s, i) /\ MayWrite(s, u, d) ->
                      (IF Len(y) > 1 /\ Unnamed(p) THEN <<x>> ELSE y)
               [] OTHER -> <<s>>)
    <3> HIDE DEF t, v
    <3> QED BY Zenon DEF tryRemoveDirectory
  <2> HIDE DEF y, t, v, x, r, g, i, d, few
  <2>4. r \in {Stuck(s), <<s>>, <<x>>} \/ (IsDir(s, d) /\ IsDir(s, i) /\ ~(Len(y) > 1 /\ Unnamed(p)) /\ r = y)
    BY <2>3
  <2>5. y = t => Len(y) > 1
    BY <2>2
  <2> QED BY <2>1, <2>4, <2>5
<1>2. Crashable(s)
  BY DEF Settled
<1>3. Goes(s, v, command)
  BY ReleasedGoes
<1>4. ASSUME IsDir(s, d), IsDir(s, i), few, ~Unnamed(p) PROVE Goes(s, t, command)
  <2>1. i # 0
    BY <1>4, Numbers DEF IsDir
  <2>2. d \in Dirs(Seen(s)) /\ i \in Known(Seen(s))
    BY <1>4, <2>1, FileFound
  <2>3. i \in Dirs(Seen(s))
    BY <1>2, <1>4, <2>2, KnownIs DEF Reachable
  <2>4. Entry(d, n, i) \in EntriesOf(Seen(s), d)
    <3>1. n \notin {Dot, DotDot} /\ Sound(Seen(s))
      BY <1>4 DEF Unnamed, Settled
    <3> HIDE DEF n, d
    <3>2. \/ search(s, d, n) = 0
          \/ Entry(d, n, search(s, d, n)) \in EntriesOf(Seen(s), d)
      BY <1>2, <2>2, <3>1, SearchDir
    <3> QED BY <2>1, <3>2
  <2>5. Entry(d, n, i) \in Entries(Seen(s))
    BY <2>2, <2>4, EntriesIs, EntryIs
  <2>6. Removed(g, s1, s2, s3, d, i, n)
    BY DEF Removed
  <2>7. g = iget(iget(s, d), i) /\ g.core.inode[i].links <= 2
    BY <1>4
  <2> HIDE DEF g, s1, s2, s3, i, d, n
  <2> QED BY <2>3, <2>5, <2>6, <2>7, RemovedGoes
<1>5. Goes(s, <<x>>, command)
  BY ParentGoes
<1> HIDE DEF r, t, v, x, few
<1>6. Goes(s, r, command)
  BY <1>1, <1>3, <1>4, <1>5, StuckGoes, NothingGoes
<1> QED BY <1>6 DEF r

\* What symlink makes of the file it has created.
LEMMA SymlinkedGoes ==
    ASSUME NEW s, Settled(s), NEW command, NEW created, Goes(s, created, command), NEW t,
           t = Last(created), t.up = "up",
           NEW od, NEW i, NEW n, NEW linked, linked = iget(t, n)
    PROVE  /\ Goes(s, created \o <<iput(linked, n), iput3(linked, n, i, od)>>, command)
           /\ Goes(s, <<iput(t, od)>>, command)
<1> DEFINE e == iput(linked, n)
           f1 == iput(e, i)
           f == iput(f1, od)
           h == iput(t, od)
           a == <<e, f>>
<1>1. iput3(linked, n, i, od) = f
  BY DEF iput3
<1>2. Course(s, created, command) /\ Done(s, t)
  BY DEF Goes, Overflows
<1>3. Settled(t) /\ Crashable(t) /\ Fit(t)
  BY <1>2 DEF Done, Settled, Crashable
<1>4. Fit(linked) /\ Quiet(t, linked)
  BY <1>3, IgetQuiet
<1>5. Fit(e) /\ Quiet(linked, e)
  BY <1>4, IputQuiet
<1>6. Fit(h) /\ Quiet(t, h)
  BY <1>3, IputQuiet
<1> HIDE DEF e, h
<1>7. Fit(f1) /\ Quiet(e, f1)
  BY <1>5, IputQuiet
<1> HIDE DEF f1
<1>8. Fit(f) /\ Quiet(f1, f)
  BY <1>7, IputQuiet
<1> HIDE DEF f
<1>9. Quiet(t, e) /\ Quiet(t, f)
  BY <1>4, <1>5, <1>7, <1>8, QuietOn
<1>10. Safe(s, e, command) /\ Safe(s, f, command) /\ Safe(s, h, command)
  <2>1. Safe(s, t, command)
    BY <1>2, CourseLast
  <2> QED BY <1>5, <1>6, <1>8, <1>9, <2>1, SafeOn
<1>11. Done(s, f) /\ Done(s, h)
  BY <1>2, <1>6, <1>8, <1>9, DoneOn
<1>12. Course(s, a, command) /\ Last(a) = f
  BY <1>10, CourseOf2
<1> HIDE DEF a
<1>13. Course(s, created \o a, command) /\ Last(created \o a) = f
  BY <1>2, <1>12, CourseOn
<1>14. Course(s, <<h>>, command) /\ Last(<<h>>) = h
  BY <1>10, CourseOf1
<1>15. Goes(s, created \o a, command) /\ Goes(s, <<h>>, command)
  BY <1>11, <1>13, <1>14 DEF Goes
<1> QED BY <1>1, <1>15 DEF a, e, h

LEMMA SymlinkGoes ==
    ASSUME NEW s, Settled(s), NEW u, NEW c \in Dirs(Seen(s)), NEW p \in Paths, NEW q \in Paths,
           NEW command \in Risky
    PROVE  Goes(s, symlink(s, u, c, p, q), command)
<1> DEFINE od == getino(s, c, Parent(p))
           i == search(s, od, Base(p))
           g1 == iget(s, od)
           g == iget(g1, i)
           created == tryCreate(g, u, c, q)
           t == Last(created)
           n == getino(t, c, q)
           linked == iget(t, n)
           v == created \o <<iput(linked, n), iput3(linked, n, i, od)>>
           h == <<iput(t, od)>>
           r == symlink(s, u, c, p, q)
<1>1. r \in {Stuck(s), <<s>>, created} \/ (t.up = "up" /\ r \in {v, h})
  <2> DEFINE o == Outcome(s, u, c, q) = "new"
             on == t.up = "up"
             found == IsDir(s, od)
             no == i = 0
  <2>1. r = (CASE od = STUCK -> Stuck(s)
               [] ~found -> <<s>>
               [] found /\ no -> <<s>>
               [] found /\ ~no ->
                    (CASE ~on -> created
                       [] on /\ o -> v
                       [] OTHER -> h))
    BY Zenon DEF symlink
  <2> HIDE DEF r, v, h, o, on, found, no, created, od
  <2> QED BY <2>1 DEF on
<1>2. Crashable(s) /\ Fit(s)
  BY DEF Settled, Crashable
<1>3. Fit(g1) /\ Quiet(s, g1)
  BY <1>2, IgetQuiet
<1> HIDE DEF g1
<1>4. Fit(g) /\ Quiet(g1, g)
  BY <1>3, IgetQuiet
<1> HIDE DEF g
<1>5. Quiet(s, g)
  BY <1>3, <1>4, QuietOn
<1>6. Settled(g) /\ Seen(g) = Seen(s)
  BY <1>4, <1>5, QuietSettled
<1>7. Goes(g, created, command)
  BY <1>6, TryCreateGoes
<1> HIDE DEF created
<1>8. Goes(s, created, command)
  BY <1>4, <1>5, <1>7, GoesFrom
<1>9. t = Last(created) /\ linked = iget(t, n)
  OBVIOUS
<1> HIDE DEF t, n, linked, od, i
<1>10. t.up = "up" => Goes(s, v, command) /\ Goes(s, h, command)
  BY <1>8, <1>9, SymlinkedGoes
<1> HIDE DEF v, h, r
<1>11. Goes(s, r, command)
  BY <1>1, <1>8, <1>10, StuckGoes, NothingGoes
<1> QED BY <1>11 DEF r

-------------------------------------------------------------------------------
\* The commands of level-1.

LEMMA TryMakeGoes ==
    ASSUME NEW s, Settled(s), NEW c, NEW p, NEW made, NEW command,
           IsNew(s, getino(s, c, Parent(p)), Base(p)) => Goes(s, made, command)
    PROVE  Goes(s, TryMake(s, c, p, made), command)
<1> DEFINE r == TryMake(s, c, p, made)
           new == IsNew(s, getino(s, c, Parent(p)), Base(p))
<1>1. r \in {Stuck(s), <<s>>} \/ (new /\ r = made)
  BY DEF TryMake
<1> HIDE DEF r, new
<1>2. Goes(s, r, command)
  BY <1>1, StuckGoes, NothingGoes DEF new
<1> QED BY <1>2 DEF r

LEMMA TryCreateOneGoes ==
    ASSUME NEW s, Settled(s), NEW c \in Dirs(Seen(s)), NEW p \in Paths, NEW command \in Risky
    PROVE  Goes(s, tryCreateOne(s, c, p), command) /\ Goes(s, tryMakeDirectoryOne(s, c, p), command)
<1> DEFINE d == getino(s, c, Parent(p))
           n == Base(p)
           g == iget(s, d)
           file == createFile(g, 0, d, n)
           dir == makeDirectory(g, 0, d, n)
<1>1. Fit(s)
  BY DEF Settled, Crashable
<1>2. Fit(g) /\ Quiet(s, g)
  BY <1>1, IgetQuiet
<1>3. tryCreateOne(s, c, p) = TryMake(s, c, p, file)
  BY DEF tryCreateOne, createFileOne
<1>4. tryMakeDirectoryOne(s, c, p) = TryMake(s, c, p, dir)
  BY DEF tryMakeDirectoryOne, makeDirectoryOne
<1>5. IsNew(s, d, n) => d \in Dirs(Seen(s)) /\ Plain(n) /\ \A y \in EntriesOf(Seen(s), d) : y.name # n
  BY NewName
<1> HIDE DEF g, d, n
<1>6. Settled(g) /\ Seen(g) = Seen(s)
  BY <1>2, QuietSettled
<1>7. ASSUME IsNew(s, d, n) PROVE Goes(g, file, command) /\ Goes(g, dir, command)
  BY <1>5, <1>6, <1>7, CreateFileGoes, MakeDirectoryGoes
<1> HIDE DEF file, dir
<1>8. IsNew(s, d, n) => Goes(s, file, command) /\ Goes(s, dir, command)
  BY <1>2, <1>7, GoesFrom
<1>9. Goes(s, TryMake(s, c, p, file), command) /\ Goes(s, TryMake(s, c, p, dir), command)
  BY <1>8, TryMakeGoes DEF d, n
<1> QED BY <1>3, <1>4, <1>9

LEMMA TryLinkOneGoes ==
    ASSUME NEW s, Settled(s), NEW c \in Dirs(Seen(s)), NEW p \in Paths, NEW q \in Paths,
           NEW command \in Risky
    PROVE  Goes(s, tryLinkOne(s, c, p, q), command)
<1> DEFINE od == getino(s, c, Parent(p))
           i == search(s, od, Base(p))
           nd == getino(s, c, Parent(q))
           s1 == enter_name(iget(iget(iget(s, od), i), nd), nd, i, Base(q))
           l == <<s1, iput3(AddLinks(s1, i, 1), nd, i, od)>>
           new == IsNew(s, nd, Base(q))
           file == IsDir(s, od) /\ i # 0 /\ ~IsDir(s, i)
           r == tryLinkOne(s, c, p, q)
<1>1. r \in {Stuck(s), <<s>>} \/ (file /\ new /\ r = l)
  <2>1. r = (CASE od = STUCK -> Stuck(s)
               [] file -> (CASE nd = STUCK -> Stuck(s)
                             [] nd # STUCK /\ new -> l
                             [] OTHER -> <<s>>)
               [] OTHER -> <<s>>)
    BY Zenon DEF tryLinkOne
  <2> HIDE DEF l, r, new, file, od, nd
  <2> QED BY <2>1
<1>2. ASSUME file, new PROVE Goes(s, l, command)
  <2>1. i \in Files(Seen(s))
    BY <1>2, FileFound
  <2>2. nd \in Dirs(Seen(s)) /\ Plain(Base(q)) /\ \A y \in EntriesOf(Seen(s), nd) : y.name # Base(q)
    BY <1>2, NewName
  <2> HIDE DEF i, nd, od
  <2> QED BY <2>1, <2>2, LinkedGoes
<1> HIDE DEF l, r, new, file
<1>3. Goes(s, r, command)
  BY <1>1, <1>2, StuckGoes, NothingGoes
<1> QED BY <1>3 DEF r

\* A file has no blocks to free.
LEMMA FreedIs ==
    ASSUME NEW s, NEW i
    PROVE  /\ ~IsDir(s, i) => Last(freeInodeAndBlocks(s, i)) = idalloc(s, i)
           /\ IsDir(s, i) => /\ freeInodeAndBlocks(s, i) = <<truncate(s, i), idalloc(truncate(s, i), i)>>
                             /\ Last(freeInodeAndBlocks(s, i)) = idalloc(truncate(s, i), i)
<1> DEFINE t == truncate(s, i)
<1>1. \A x, y : Last(<<x, y>>) = y
  BY DEF Last
<1>2. ~IsDir(s, i) => freeInodeAndBlocks(s, i) = <<s, idalloc(s, i)>>
  BY DEF freeInodeAndBlocks
<1>3. IsDir(s, i) => freeInodeAndBlocks(s, i) = <<t, idalloc(t, i)>>
  <2> HIDE DEF t
  <2> QED BY DEF freeInodeAndBlocks, t
<1> HIDE DEF t
<1>4. ~IsDir(s, i) => Last(freeInodeAndBlocks(s, i)) = idalloc(s, i)
  BY <1>1, <1>2
<1>5. IsDir(s, i) => Last(freeInodeAndBlocks(s, i)) = idalloc(t, i)
  BY <1>1, <1>3
<1> QED BY <1>3, <1>4, <1>5 DEF t

LEMMA LoosePasses ==
    ASSUME NEW s, NEW exact \in BOOLEAN, Fit(s), ~exact
    PROVE  Passing(s, s, exact)
BY DEF Passing, Keeps, Stays

LEMMA TryUnlinkOneGoes ==
    ASSUME NEW s, Settled(s), NEW c \in Dirs(Seen(s)), NEW p \in Paths, NEW command
    PROVE  Goes(s, tryUnlinkOne(s, c, p), command)
<1> DEFINE i == getino(s, c, p)
           d == getino(s, c, Parent(p))
           n == Base(p)
           g == iget(iget(s, i), d)
           s1 == iput(removeChild(g, d, n), d)
           s2 == AddLinks(s1, i, -1)
           s3 == IF s2.core.inode[i].links <= 0 THEN Last(freeInodeAndBlocks(s2, i)) ELSE s2
           t == <<s1, s3, iput(s3, i)>>
           file == i \in Inos /\ ~IsDir(s, i)
           r == tryUnlinkOne(s, c, p)
<1>1. r \in {Stuck(s), <<s>>} \/ (file /\ r = t)
  <2>1. r = (CASE i = STUCK -> Stuck(s) [] file -> t [] OTHER -> <<s>>)
    BY Zenon DEF tryUnlinkOne
  <2> HIDE DEF t, r, i, d, file
  <2> QED BY <2>1
<1>2. ASSUME file PROVE Goes(s, t, command)
  <2>1. d \in Dirs(Seen(s)) /\ i \in Files(Seen(s)) /\ Entry(d, n, i) \in Entries(Seen(s))
    BY <1>2, NamedFile
  <2>2. ~IsDir(s2, i)
    <3> DEFINE s0 == idalloc(s2, i)
    <3>1. PICK exact \in BOOLEAN : ~exact
      OBVIOUS
    <3>2. Passing(s, s, exact)
      BY <3>1, LoosePasses DEF Settled, Crashable
    <3>3. Unlinked(s, s1, s2, s0, i, d, n) /\ i \in Inos /\ s.core.inode[i].kind # "dir"
      BY <1>2 DEF Unlinked, IsDir
    <3> HIDE DEF i, d, n, s1, s2, s0
    <3>4. /\ Passing(s, s1, exact) /\ Passing(s, s0, exact) /\ s2.core.inode[i].kind # "dir"
          /\ \A j \in Inos : s0.core.ref[j] = s.core.ref[j] + Ref(i, j)
      BY <3>1, <3>2, <3>3, UnlinkedPasses
    <3> QED BY <3>4 DEF IsDir
  <2>3. s3 = IF s2.core.inode[i].links <= 0 THEN idalloc(s2, i) ELSE s2
    BY <2>2, FreedIs
  <2>4. Unnames(g, s1, s2, s3, d, n, i)
    BY <2>3 DEF Unnames
  <2>5. g = iget(iget(s, i), d)
    OBVIOUS
  <2> HIDE DEF g, s1, s2, s3, d, n, i
  <2> QED BY <2>1, <2>4, <2>5, UnlinkedGoes
<1> HIDE DEF t, r, file
<1>3. Goes(s, r, command)
  BY <1>1, <1>2, StuckGoes, NothingGoes
<1> QED BY <1>3 DEF r

LEMMA TryRemoveDirectoryOneGoes ==
    ASSUME NEW s, Settled(s), NEW c \in Dirs(Seen(s)), NEW p \in Paths, NEW command \in Risky
    PROVE  Goes(s, tryRemoveDirectoryOne(s, c, p), command)
<1> DEFINE d == getino(s, c, Parent(p))
           n == Base(p)
           i == search(s, d, n)
           g == iget(iget(s, d), i)
           s1 == truncate(g, i)
           s2 == idalloc(s1, i)
           s3 == removeChild(s2, d, n)
           e == iput(s3, i)
           f == iput(e, d)
           t == <<s1, s2, s3, e, f>>
           v == <<iput(iput(g, i), d)>>
           h == <<iget(s, d)>>
           x == [s EXCEPT !.up = "rmdir of a parent"]
           few == g.core.inode[i].links <= 2
           both == IsDir(s, d) /\ IsDir(s, i)
           r == tryRemoveDirectoryOne(s, c, p)
<1>1. Crashable(s) /\ Fit(s)
  BY DEF Settled, Crashable
<1>2. \/ r \in {Stuck(s), <<s>>, <<x>>, h, v}
      \/ both /\ few /\ ~Unnamed(p) /\ r = t
  <2> DEFINE y == removeDirectoryOne(g, d, i, n)
  <2>1. ASSUME IsDir(s, i) PROVE y = v \/ (few /\ y = t)
    <3> DEFINE freed == freeInodeAndBlocks(g, i)
               a == <<s3, e, f>>
               z == removeChild(Last(freed), d, n)
    <3>1. Like(s, g)
      BY <1>1, IgetTwice
    <3>2. IsDir(g, i)
      <4> HIDE DEF g
      <4> QED BY <2>1, <3>1 DEF IsDir, Like, Kept
    <3>3. freed = <<s1, s2>> /\ Last(freed) = s2
      <4> HIDE DEF g, i
      <4> QED BY <3>2, FreedIs
    <3>4. y = v \/ (few /\ y = freed \o <<z, iput(z, i), iput(iput(z, i), d)>>)
      <4> HIDE DEF g, i, d, n
      <4> QED BY DEF removeDirectoryOne
    <3>5. z = s3
      <4> HIDE DEF freed, s2
      <4> QED BY <3>3
    <3> HIDE DEF freed, s1, s2, z
    <3>6. y = v \/ (few /\ y = freed \o a)
      BY <3>4, <3>5
    <3> HIDE DEF s3, e, f
    <3>7. t = freed \o a
      <4>1. t = <<s1, s2>> \o a
        OBVIOUS
      <4> QED BY <3>3, <4>1
    <3> HIDE DEF y, v, t, a, few
    <3> QED BY <3>6, <3>7
  <2>2. Len(t) = 5
    <3> HIDE DEF s1, s2, s3, e, f
    <3> QED OBVIOUS
  <2>3. r = (CASE d = STUCK -> Stuck(s)
               [] d # STUCK /\ ~IsDir(s, d) -> h
               [] IsDir(s, d) /\ ~IsDir(s, i) -> <<s>>
               [] both -> (IF Len(y) > 1 /\ Unnamed(p) THEN <<x>> ELSE y))
    <3> HIDE DEF t, v
    <3> QED BY Zenon DEF tryRemoveDirectoryOne
  <2>4. IsDir(s, d) => d # STUCK
    BY Numbers DEF IsDir
  <2>5. both => IsDir(s, i)
    OBVIOUS
  <2> HIDE DEF y, t, v, x, h, r, g, i, d, few
  <2>6. r \in {Stuck(s), <<s>>, <<x>>, h} \/ (both /\ ~(Len(y) > 1 /\ Unnamed(p)) /\ r = y)
    BY <2>3, <2>4
  <2> HIDE DEF both
  <2>7. y = t => Len(y) > 1
    BY <2>2
  <2> QED BY <2>1, <2>5, <2>6, <2>7
<1>3. Goes(s, v, command)
  BY ReleasedGoes
<1>4. Goes(s, h, command)
  <2> DEFINE k == iget(s, d)
  <2>1. Fit(k) /\ Quiet(s, k)
    BY <1>1, IgetQuiet
  <2> HIDE DEF k
  <2>2. Goes(s, <<k>>, command)
    BY <2>1, QuietGoes
  <2> QED BY <2>2 DEF k
<1>5. ASSUME both, few, ~Unnamed(p) PROVE Goes(s, t, command)
  <2>1. i # 0
    BY <1>5, Numbers DEF IsDir
  <2>2. d \in Dirs(Seen(s)) /\ i \in Known(Seen(s))
    BY <1>5, <2>1, FileFound
  <2>3. i \in Dirs(Seen(s))
    BY <1>1, <1>5, <2>2, KnownIs DEF Reachable
  <2>4. Entry(d, n, i) \in EntriesOf(Seen(s), d)
    <3>1. n \notin {Dot, DotDot} /\ Sound(Seen(s))
      BY <1>5 DEF Unnamed, Settled
    <3> HIDE DEF n, d
    <3>2. \/ search(s, d, n) = 0
          \/ Entry(d, n, search(s, d, n)) \in EntriesOf(Seen(s), d)
      BY <1>1, <2>2, <3>1, SearchDir
    <3> QED BY <2>1, <3>2
  <2>5. Entry(d, n, i) \in Entries(Seen(s))
    BY <2>2, <2>4, EntriesIs, EntryIs
  <2>6. Removed(g, s1, s2, s3, d, i, n)
    BY DEF Removed
  <2>7. g = iget(iget(s, d), i) /\ g.core.inode[i].links <= 2
    BY <1>5
  <2> HIDE DEF g, s1, s2, s3, i, d, n
  <2> QED BY <2>3, <2>5, <2>6, <2>7, RemovedGoes
<1>6. Goes(s, <<x>>, command)
  BY ParentGoes
<1> HIDE DEF r, t, v, x, h, few, both
<1>7. Goes(s, r, command)
  BY <1>2, <1>3, <1>4, <1>5, <1>6, StuckGoes, NothingGoes
<1> QED BY <1>7 DEF r

LEMMA SymlinkOneGoes ==
    ASSUME NEW s, Settled(s), NEW c \in Dirs(Seen(s)), NEW p \in Paths, NEW q \in Paths,
           NEW command \in Risky
    PROVE  Goes(s, symlinkOne(s, c, p, q), command)
<1> DEFINE od == getino(s, c, Parent(p))
           i == search(s, od, Base(p))
           nd == getino(s, c, Parent(q))
           g1 == iget(s, od)
           g == iget(g1, i)
           created == tryCreateOne(g, c, q)
           t == Last(created)
           n == getino(t, c, q)
           linked == iget(t, n)
           v == created \o <<iput(linked, n), iput3(linked, n, i, od)>>
           h == <<iput(t, od)>>
           r == symlinkOne(s, c, p, q)
<1>1. r \in {Stuck(s), <<s>>, created} \/ (t.up = "up" /\ r \in {v, h})
  <2> DEFINE new == IsNew(s, nd, Base(q))
             on == t.up = "up"
             found == IsDir(s, od) /\ i # 0
  <2>1. r = (CASE od = STUCK -> Stuck(s)
               [] found -> (CASE ~on -> created
                              [] on /\ new -> v
                              [] OTHER -> h)
               [] OTHER -> <<s>>)
    BY Zenon DEF symlinkOne
  <2> HIDE DEF r, v, h, new, on, found, created, od
  <2> QED BY <2>1 DEF on
<1>2. Crashable(s) /\ Fit(s)
  BY DEF Settled, Crashable
<1>3. Fit(g1) /\ Quiet(s, g1)
  BY <1>2, IgetQuiet
<1> HIDE DEF g1
<1>4. Fit(g) /\ Quiet(g1, g)
  BY <1>3, IgetQuiet
<1> HIDE DEF g
<1>5. Quiet(s, g)
  BY <1>3, <1>4, QuietOn
<1>6. Settled(g) /\ Seen(g) = Seen(s)
  BY <1>4, <1>5, QuietSettled
<1>7. Goes(g, created, command)
  BY <1>6, TryCreateOneGoes
<1> HIDE DEF created
<1>8. Goes(s, created, command)
  BY <1>4, <1>5, <1>7, GoesFrom
<1>9. t = Last(created) /\ linked = iget(t, n)
  OBVIOUS
<1> HIDE DEF t, n, linked, od, i
<1>10. t.up = "up" => Goes(s, v, command) /\ Goes(s, h, command)
  BY <1>8, <1>9, SymlinkedGoes
<1> HIDE DEF v, h, r
<1>11. Goes(s, r, command)
  BY <1>1, <1>8, <1>10, StuckGoes, NothingGoes
<1> QED BY <1>11 DEF r

-------------------------------------------------------------------------------
\* cd, in both stages.

\* The paths that cd has at hand.
LEMMA AnyPath ==
    ASSUME NEW p \in Paths \cup {RootPath, UpPath}
    PROVE  Len(p.comps) \in Nat
<1>1. CASE p \in Paths
  BY <1>1, ParentTyped
<1>2. CASE p = RootPath
  <2>1. p.comps = <<>>
    BY <1>2 DEF RootPath
  <2> QED BY <2>1
<1>3. CASE p = UpPath
  <2>1. p.comps = <<DotDot>>
    BY <1>3 DEF UpPath
  <2>2. Len(<<DotDot>>) = 1
    OBVIOUS
  <2>3. Len(p.comps) = 1
    BY <2>1, <2>2, Zenon
  <2> QED BY <2>3
<1> QED BY <1>1, <1>2, <1>3

\* Where cd leads, and what it leaves.
LEMMA ChdirGoes ==
    ASSUME NEW s, Settled(s), NEW c \in Dirs(Seen(s)), NEW p \in Paths \cup {RootPath, UpPath},
           NEW i, i = getino(s, c, p), NEW command
    PROVE  /\ IsDir(s, i) => i \in Dirs(Seen(s))
           /\ Goes(s, <<iput(iget(s, i), c)>>, command) /\ Goes(s, <<s>>, command) /\ Goes(s, Stuck(s), command)
<1> DEFINE g == iget(s, i)
           h == iput(g, c)
<1>1. Crashable(s) /\ Fit(s) /\ Sound(Seen(s))
  BY DEF Settled, Crashable
<1>2. i \in Reachable(Seen(s))
  BY <1>1, AnyPath, GetinoReaches
<1>3. IsDir(s, i) => i \in Dirs(Seen(s))
  BY <1>1, <1>2, KnownIs
<1>4. Fit(g) /\ Quiet(s, g)
  BY <1>1, IgetQuiet
<1> HIDE DEF g
<1>5. Fit(h) /\ Quiet(g, h)
  BY <1>4, IputQuiet
<1> HIDE DEF h
<1>6. Quiet(s, h)
  BY <1>4, <1>5, QuietOn
<1>7. Goes(s, <<h>>, command)
  BY <1>5, <1>6, QuietGoes
<1> QED BY <1>3, <1>7, NothingGoes, StuckGoes DEF h, g

-------------------------------------------------------------------------------
\* The invariant that what is claimed of the image rests on.

\* What a device looks like that the program can be started on.
Bootable(d) == Shaped(d.inode) /\ Blocked(d) /\ Room(d, d.inode) /\ Sound(d)

\* There is a process that runs, and P0.
Manned(pr, run) ==
    /\ DOMAIN pr = Procs /\ \A p \in Procs : DOMAIN pr[p] = {"status", "gid", "cwd"}
    /\ run \in Procs /\ pr[run].status = "READY" /\ pr[0].status = "READY"
CwdsOf(pr) == {pr[p].cwd : p \in {q \in Procs : pr[q].status = "READY"}}

\* While the program runs the image it sees is sound and nobody stands outside its tree;
\* what it has not written is what it still holds, so that a device it has left is sound.
NameInv ==
    /\ DeviceFits
    /\ up = "up" =>
        /\ Claimed /\ Settled(Now) /\ Manned(proc, running)
        /\ CwdsOf(proc) \subseteq Dirs(Seen(Now))
    /\ up # "up" => (Claimed => up = "down" /\ Bootable(disk))
    /\ image = "sound" => LinksEnough(View)

\* The names of the device, as NameTree has them.
Tree == IF Claimed THEN TreePaths(View) ELSE {}

\* A crash that has damaged the image, and all that it has damaged.
Spared ==
    up' = "down" /\ image' # image /\ image' # "sound" /\ ~Unwritten =>
        image' \in Risky \cup {"miscounted"} /\ AtMostOne(disk')

\* What a step does to it, and to what there was.
Steps ==
    /\ NameInv'
    /\ image = "sound" /\ up = "up" /\ up' = "up" /\ View' # View => Lost(View, View')
    /\ Moves(Tree, Tree') \/ Tree' = {}
    /\ Spared

\* Why the program no longer follows a command.
Farewells == Causes \cup {"rmdir of a cwd", "retarget", "wrong record"}

LEMMA WordsApart ==
    /\ \A w \in Farewells : w \notin {"sound", "miscounted"}
    /\ {"mkdir", "creat", "rmdir", "unlink", "link", "symlink", "chdir", "idle"} \cap {"sound", "miscounted"} = {}
    /\ {"full", "retarget", "rmdir of a cwd", "wrong record"} \subseteq Farewells
    /\ Causes \subseteq Farewells
BY Zenon DEF Farewells, Causes

\* An image that the program leaves can be started on, unless it is damaged.
LEMMA CrashedBootable ==
    ASSUME NEW s, Crashable(s), Sound(s.disk)
    PROVE  Bootable(s.disk)
<1> DEFINE M == s.disk.imap
           H == Holders(M, s.disk.inode)
           G == Holders(M, s.core.inode)
<1>1. G \subseteq H
  BY CrashableIs DEF Follows, Holders
<1>2. IsFiniteSet(H)
  <2>1. M \subseteq Inos /\ IsFiniteSet(Inos)
    BY CrashableIs, InosFinite
  <2>2. H \subseteq Inos
    BY <2>1 DEF Holders
  <2> QED BY <2>1, <2>2, FS_Subset
<1>3. IsFiniteSet(G) /\ Cardinality(G) \in Nat /\ Cardinality(s.disk.bmap) \in Nat
      /\ Cardinality(s.disk.bmap) <= Cardinality(G)
  BY CrashableIs
<1>4. Cardinality(G) <= Cardinality(H) /\ Cardinality(H) \in Nat
  BY <1>1, <1>2, FS_Subset, FS_CardinalityType
<1>5. Room(s.disk, s.disk.inode)
  BY <1>3, <1>4 DEF Room
<1> QED BY <1>5 DEF Bootable, Crashable

\* What NameTree sees.
LEMMA TreeMoves ==
    ASSUME NEW d, NEW e, Treelike(d), Treelike(e), Renamed(d, e), Claimed, View = d, Claimed',
           View' = e
    PROVE  Moves(Tree, Tree')
<1>1. Moves(TreePaths(d), TreePaths(e))
  BY RenamedMoves
<1>2. Tree = TreePaths(d)
  BY DEF Tree
<1>3. Tree' = TreePaths(e)
  BY DEF Tree
<1> HIDE DEF Tree
<1> QED BY <1>1, <1>2, <1>3

LEMMA TreeGone ==
    ASSUME ~Claimed'
    PROVE  Tree' = {}
BY DEF Tree

LEMMA SeenTree ==
    ASSUME NEW s, Settled(s)
    PROVE  Treelike(Seen(s))
BY SeenProper, SoundIs DEF Settled

LEMMA RenamedKept ==
    ASSUME NEW d, NEW e, NEW c, Renamed(d, e), NamesKept(e, c)
    PROVE  Renamed(d, c)
BY DEF Renamed, NamesKept, Gains, Loses

\* What the disk has not, as Unwritten says it.
LEMMA UnwrittenIs ==
    ASSUME Crashable(Now), ~Unwritten
    PROVE  Written(Now)
<1>1. Now.disk = disk /\ Now.core = core
  BY DEF Now
<1>2. ASSUME NEW j \in disk.imap PROVE Matching(disk.inode[j], core.inode[j])
  <2>1. core.inode[j] = disk.inode[j] \/ {core.inode[j].kind, disk.inode[j].kind} = {"dir"}
    BY <1>2 DEF Unwritten
  <2>2. CASE core.inode[j] = disk.inode[j]
    BY <2>2 DEF Matching
  <2>3. CASE {core.inode[j].kind, disk.inode[j].kind} = {"dir"}
    <3>1. core.inode[j].kind = "dir" /\ disk.inode[j].kind = "dir"
      BY <2>3
    <3>2. j \in Inos
      BY <1>1, <1>2 DEF Crashable, Fit, DiskFit
    <3>3. disk.inode[j].block = core.inode[j].block
      BY <1>1, <3>1, <3>2 DEF Crashable, Behind, Follows
    <3> QED BY <3>1, <3>3 DEF Matching
  <2> QED BY <2>1, <2>2, <2>3
<1> QED BY <1>1, <1>2 DEF Written

LEMMA CrashSteps ==
    ASSUME NameInv, up = "up", NEW s, NEW command, Safe(Now, s, command), CrashAt(s, command),
           command \notin {"sound", "miscounted"}
    PROVE  Steps
<1>1. disk' = s.disk /\ up' = "down" /\ View' = s.disk
  BY DEF CrashAt, View
<1>2. \/ ~Intact(s) /\ image' = command
      \/ Intact(s) /\ image' = "miscounted"
      \/ Intact(s) /\ image' = image /\ LinksEnough(s.disk)
  <2> DEFINE miss == Misread(s)
             count == CountRight(s.disk)
             link == LinksEnough(s.disk)
             well == Sound(s.disk)
  <2>1. image' = IF ~well \/ miss THEN command ELSE IF ~count \/ ~link THEN "miscounted" ELSE image
    BY Zenon DEF CrashAt
  <2>2. Intact(s) <=> well /\ ~miss
    BY DEF Intact
  <2> HIDE DEF miss, count, well
  <2> QED BY <2>1, <2>2
<1>3. Crashable(s) /\ Fares(Now, s, command)
  <2>1. Crashable(s) /\ Left(Now, s, command)
    BY DEF Safe
  <2>2. Hushed(s, s)
    BY DEF Hushed
  <2> QED BY <2>1, <2>2 DEF Left
<1>4. Settled(Now) /\ Crashable(Now) /\ Claimed /\ View = Seen(Now)
  <2> USE DEF NameInv
  <2> QED BY DEF Settled, View
<1>5. DeviceFits'
  BY <1>3, CrashFits DEF Crashable
<1>6. CASE Intact(s)
  <2>1. Claimed'
    BY <1>2, <1>4, <1>6 DEF Claimed
  <2>2. Bootable(disk')
    BY <1>1, <1>3, <1>6, CrashedBootable DEF Intact
  <2>3. (image = "sound" => LinksEnough(View))'
    BY <1>1, <1>2, <1>6
  <2>4. NameInv'
    BY <1>1, <1>5, <2>2, <2>3 DEF NameInv
  <2>5. Renamed(Seen(Now), s.disk) /\ Treelike(s.disk)
    BY <1>3, <1>6, IntactKeeps, RenamedKept DEF Fares
  <2>6. Moves(Tree, Tree')
    <3> DEFINE d == Seen(Now)
               c == s.disk
    <3>1. Treelike(d) /\ Treelike(c) /\ Renamed(d, c) /\ View = d /\ View' = c
      BY <1>1, <1>4, <2>5, SeenTree
    <3> HIDE DEF c, d
    <3> QED BY <1>4, <2>1, <3>1, TreeMoves
  <2>7. Spared
    BY <1>1, <1>2, <1>6, IntactAtMostOne DEF Spared
  <2> QED BY <1>1, <2>4, <2>6, <2>7 DEF Steps
<1>7. CASE ~Intact(s)
  <2>1. ~Claimed' /\ image' # "sound"
    BY <1>2, <1>7 DEF Claimed
  <2>2. NameInv'
    BY <1>1, <1>5, <2>1 DEF NameInv
  <2>3. Spared
    BY <1>1, <1>2, <1>3, <1>4, <1>7, UnwrittenIs DEF Fares, Spared
  <2> QED BY <1>1, <2>1, <2>2, <2>3, TreeGone DEF Steps
<1> QED BY <1>6, <1>7

LEMMA GiveUpSteps ==
    ASSUME NEW cause \in Farewells, GiveUp(cause)
    PROVE  Steps
<1>1. DeviceFits' /\ up' = "lost" /\ image' = cause
  BY GiveUpFits
<1>2. image' \notin {"sound", "miscounted"}
  BY <1>1, WordsApart
<1>3. ~Claimed' /\ image' # "sound" /\ up' \notin {"up", "down"}
  BY <1>1, <1>2 DEF Claimed
<1>4. Tree' = {}
  BY <1>3, TreeGone
<1> QED BY <1>1, <1>3, <1>4 DEF NameInv, Steps, Spared

\* A command that has come to its end.
LEMMA NowIs ==
    ASSUME NEW s, Settled(s), s.up = "up", disk' = s.disk, core' = s.core, up' = "up"
    PROVE  Settled(Now') /\ Seen(Now') = Seen(s) /\ View' = Seen(s)
<1> DEFINE x == Now'
<1>1. x.disk = s.disk /\ x.core = s.core /\ x.up = s.up /\ DOMAIN x = {"disk", "core", "up"}
  BY DEF Now
<1>2. View' = Seen(x)
  BY DEF View
<1> HIDE DEF x
<1>3. Fit(s)
  BY DEF Settled, Crashable
<1>4. Fit(x)
  BY <1>1, <1>3 DEF Fit
<1>5. Quiet(s, x)
  BY <1>1 DEF Quiet, CleanAt
<1>6. Settled(x) /\ Seen(x) = Seen(s)
  BY <1>4, <1>5, QuietSettled
<1> QED BY <1>2, <1>6 DEF x

LEMMA GoneOnSteps ==
    ASSUME NameInv, up = "up", NEW s, s.up = "up", Done(Now, s), NEW pr, NEW run, GoneOn(s, pr, run),
           Manned(pr, run), CwdsOf(pr) \subseteq Dirs(Seen(s))
    PROVE  Steps
<1>1. disk' = s.disk /\ core' = s.core /\ proc' = pr /\ running' = run /\ up' = "up" /\ image' = image
  BY DEF GoneOn
<1>2. Settled(s)
  BY DEF Done
<1>3. Settled(Now') /\ Seen(Now') = Seen(s) /\ View' = Seen(s)
  BY <1>1, <1>2, NowIs
<1>4. View = Seen(Now)
  BY DEF View
<1>5. DeviceFits'
  BY <1>2, GoneOnFits DEF Settled, Crashable
<1>6. image = "sound" => LinksEnough(Seen(s)) /\ Lost(View, View')
  BY <1>3, <1>4 DEF NameInv, Done
<1>7. Claimed'
  BY <1>1 DEF NameInv, Claimed
<1>8. Manned(proc', running') /\ CwdsOf(proc') \subseteq Dirs(Seen(Now'))
  BY <1>1, <1>3
<1>9. (image = "sound" => LinksEnough(View))'
  BY <1>1, <1>3, <1>6
<1>10. NameInv'
  BY <1>1, <1>3, <1>5, <1>7, <1>8, <1>9 DEF NameInv
<1>11. Moves(Tree, Tree')
  <2> DEFINE d == Seen(Now)
             e == Seen(s)
  <2>1. Treelike(d) /\ Treelike(e)
    BY <1>2, SeenTree DEF NameInv
  <2>2. Renamed(d, e) /\ View = d /\ View' = e /\ Claimed
    BY <1>3, <1>4 DEF Done, NameInv
  <2> HIDE DEF d, e
  <2> QED BY <1>7, <2>1, <2>2, TreeMoves
<1>12. Spared
  BY <1>1 DEF Spared
<1> QED BY <1>6, <1>10, <1>11, <1>12 DEF Steps

\* What a state that a command ends in may be.
Ends(s, command) == s.up = "full" \/ (Safe(Now, s, command) /\ (s.up = "up" => Done(Now, s)))

LEMMA FinishSteps ==
    ASSUME NameInv, up = "up", NEW s, NEW command, Ends(s, command), NEW pr, NEW run, Manned(pr, run),
           CwdsOf(pr) \subseteq Cwds \cup Dirs(Seen(s)),
           command \notin {"sound", "miscounted"}, Finish(s, pr, run, command)
    PROVE  Steps
<1>1. CASE s.up = "full"
  <2>1. GiveUp("full")
    <3>1. GiveUp(s.up)
      BY <1>1, Zenon DEF Finish
    <3> QED BY <1>1, <3>1
  <2> QED BY <2>1, WordsApart, GiveUpSteps
<1>2. CASE s.up # "full"
  <2>1. Safe(Now, s, command) /\ (s.up = "up" => Done(Now, s))
    BY <1>2 DEF Ends
  <2>2. Fit(s)
    BY <2>1 DEF Safe, Crashable
  <2>3. \/ CrashAt(s, command)
        \/ \E cause \in Farewells : GiveUp(cause)
        \/ s.up = "up" /\ ~CwdRemoved(s) /\ GoneOn(s, pr, run)
    <3>1. s.up \in {"up", "stuck", "full", "rmdir of a parent"}
      BY <2>2, Zenon DEF Fit, Outcomes
    <3>2. CASE s.up = "stuck"
      BY <3>2, Zenon DEF Finish
    <3>3. CASE s.up = "rmdir of a parent"
      <4>1. GiveUp(s.up)
        BY <3>3, Zenon DEF Finish
      <4>2. s.up \in Farewells
        BY <3>3, Zenon DEF Farewells, Causes
      <4> QED BY <4>1, <4>2
    <3>4. CASE s.up = "up" /\ CwdRemoved(s)
      <4>1. GiveUp(IF Cwds \subseteq s.disk.imap THEN "rmdir of a parent" ELSE "rmdir of a cwd")
        BY <3>4, Zenon DEF Finish
      <4>2. "rmdir of a parent" \in Farewells /\ "rmdir of a cwd" \in Farewells
        BY Zenon DEF Farewells, Causes
      <4> QED BY <4>1, <4>2, Zenon
    <3>5. CASE s.up = "up" /\ ~CwdRemoved(s)
      <4>1. GoneOn(s, pr, run)
        BY <3>5, Zenon DEF Finish, GoneOn
      <4> QED BY <3>5, <4>1
    <3> QED BY <1>2, <3>1, <3>2, <3>3, <3>4, <3>5, Zenon
  <2>4. CASE CrashAt(s, command)
    BY <2>1, <2>4, CrashSteps
  <2>5. ASSUME NEW cause \in Farewells, GiveUp(cause) PROVE Steps
    BY <2>5, GiveUpSteps
  <2>6. CASE s.up = "up" /\ ~CwdRemoved(s) /\ GoneOn(s, pr, run)
    <3>1. CwdsOf(pr) \subseteq Dirs(Seen(s))
      BY <2>6 DEF CwdRemoved
    <3> QED BY <2>1, <2>6, <3>1, GoneOnSteps
  <2> QED BY <2>3, <2>4, <2>5, <2>6
<1> QED BY <1>1, <1>2

LEMMA GoesEnds ==
    ASSUME NEW t, NEW command, Goes(Now, t, command)
    PROVE  Ends(Last(t), command)
<1>1. CASE Overflows(t)
  BY <1>1 DEF Overflows, Ends
<1>2. CASE ~Overflows(t)
  <2>1. Course(Now, t, command) /\ (Last(t).up = "up" => Done(Now, Last(t)))
    BY <1>2 DEF Goes
  <2> QED BY <2>1, CourseLast DEF Ends
<1> QED BY <1>1, <1>2

LEMMA CommandSteps ==
    ASSUME NameInv, NEW states, NEW command, command \notin {"sound", "miscounted"},
           up = "up" => Goes(Now, states, command), Command(states, command)
    PROVE  Steps
<1> DEFINE s == Last(states)
<1>1. up = "up" /\ Goes(Now, states, command)
  BY DEF Command
<1>2. Ends(s, command) /\ (Overflows(states) \/ \A k \in DOMAIN states : Safe(Now, states[k], command))
  <2>1. Overflows(states) \/ \A k \in DOMAIN states : Safe(Now, states[k], command)
    BY <1>1, CourseLast DEF Goes
  <2> QED BY <1>1, <2>1, GoesEnds
<1>3. CASE Finish(s, proc, running, command)
  <2>1. Manned(proc, running) /\ CwdsOf(proc) \subseteq Cwds
    BY <1>1 DEF NameInv, CwdsOf, Cwds
  <2> HIDE DEF s
  <2> QED BY <1>1, <1>2, <1>3, <2>1, FinishSteps
<1>4. ASSUME NEW k \in DOMAIN states \ {Len(states)}, CrashAt(states[k], command) PROVE Steps
  <2>1. CASE Overflows(states)
    BY <1>4, <2>1 DEF Overflows
  <2>2. CASE ~Overflows(states)
    <3> DEFINE x == states[k]
    <3>1. Safe(Now, x, command) /\ CrashAt(x, command)
      BY <1>2, <1>4, <2>2
    <3> HIDE DEF x
    <3> QED BY <1>1, <3>1, CrashSteps
  <2> QED BY <2>1, <2>2
<1> QED BY <1>3, <1>4 DEF Command

LEMMA RemovalSteps ==
    ASSUME NameInv, NEW states, NEW p, NEW command, command \notin {"sound", "miscounted"},
           Goes(Now, states, command), Removal(states, p, command)
    PROVE  Steps
<1> DEFINE w == "wrong record"
<1>1. Command(states, command) \/ GiveUp(w)
  BY RemovalCases
<1>2. w \in Farewells
  BY WordsApart
<1> HIDE DEF w
<1>3. CASE Command(states, command)
  BY <1>3, CommandSteps
<1>4. CASE GiveUp(w)
  BY <1>2, <1>4, GiveUpSteps
<1> QED BY <1>1, <1>3, <1>4

LEMMA CwdIsKnown ==
    ASSUME NameInv, up = "up"
    PROVE  /\ Settled(Now) /\ Crashable(Now) /\ Cwd \in Dirs(Seen(Now)) /\ View = Seen(Now)
           /\ Now.up = "up"
<1>1. Settled(Now) /\ Manned(proc, running) /\ CwdsOf(proc) \subseteq Dirs(Seen(Now))
  BY DEF NameInv
<1>2. Cwd \in CwdsOf(proc)
  BY <1>1 DEF Manned, Cwd, CwdsOf
<1>3. View = Seen(Now) /\ Now.up = "up"
  BY DEF View, Now
<1> QED BY <1>1, <1>2, <1>3 DEF Settled

LEMMA CommandsStep ==
    ASSUME NameInv, NEW p \in Paths, NEW q \in Paths,
           \/ Mkdir(p) \/ Creat(p) \/ Rmdir(p) \/ Unlink(p) \/ Link(p, q) \/ Symlink(p, q)
    PROVE  Steps
<1>1. up = "up"
  BY RemovalCases, Zenon DEF Mkdir, Creat, Rmdir, Unlink, Link, Symlink, Command
<1>2. Settled(Now) /\ Cwd \in Dirs(Seen(Now))
  BY <1>1, CwdIsKnown
<1>3. ASSUME NEW states, NEW command, command \notin {"sound", "miscounted"}, Goes(Now, states, command),
             Command(states, command)
      PROVE  Steps
  BY <1>3, CommandSteps
<1>4. CASE Mkdir(p)
  <2> DEFINE w == "mkdir"
             t == tryMakeDirectory(Now, running, Cwd, p)
  <2>1. w \in Risky /\ w \notin {"sound", "miscounted"} /\ Command(t, w)
    BY <1>4, Zenon DEF Risky, Mkdir
  <2> HIDE DEF w
  <2>2. Goes(Now, t, w)
    BY <1>2, <2>1, TryCreateGoes
  <2> HIDE DEF t
  <2> QED BY <1>3, <2>1, <2>2
<1>5. CASE Creat(p)
  <2> DEFINE w == "creat"
             t == tryCreate(Now, running, Cwd, p)
  <2>1. w \in Risky /\ w \notin {"sound", "miscounted"} /\ Command(t, w)
    BY <1>5, Zenon DEF Risky, Creat
  <2> HIDE DEF w
  <2>2. Goes(Now, t, w)
    BY <1>2, <2>1, TryCreateGoes
  <2> HIDE DEF t
  <2> QED BY <1>3, <2>1, <2>2
<1>6. CASE Rmdir(p)
  <2> DEFINE w == "rmdir"
             t == tryRemoveDirectory(Now, running, Cwd, p)
  <2>1. w \in Risky /\ w \notin {"sound", "miscounted"} /\ Removal(t, p, w)
    BY <1>6, Zenon DEF Risky, Rmdir
  <2> HIDE DEF w
  <2>2. Goes(Now, t, w)
    BY <1>2, <2>1, TryRemoveDirectoryGoes
  <2> HIDE DEF t
  <2> QED BY <2>1, <2>2, RemovalSteps
<1>7. CASE Unlink(p)
  <2> DEFINE w == "unlink"
             t == tryUnlink(Now, running, Cwd, p)
  <2>1. w \notin {"sound", "miscounted"} /\ Removal(t, p, w)
    BY <1>7, Zenon DEF Unlink
  <2> HIDE DEF w
  <2>2. Goes(Now, t, w)
    BY <1>2, TryUnlinkGoes
  <2> HIDE DEF t
  <2> QED BY <2>1, <2>2, RemovalSteps
<1>8. CASE Link(p, q)
  <2> DEFINE w == "link"
             t == tryLink(Now, running, Cwd, p, q)
  <2>1. w \in Risky /\ w \notin {"sound", "miscounted"} /\ Command(t, w)
    BY <1>8, Zenon DEF Risky, Link
  <2> HIDE DEF w
  <2>2. Goes(Now, t, w)
    BY <1>2, <2>1, TryLinkGoes
  <2> HIDE DEF t
  <2> QED BY <1>3, <2>1, <2>2
<1>9. CASE Symlink(p, q)
  <2> DEFINE w == "symlink"
             t == symlink(Now, running, Cwd, p, q)
  <2>1. w \in Risky /\ w \notin {"sound", "miscounted"} /\ Command(t, w)
    BY <1>9, Zenon DEF Risky, Symlink
  <2> HIDE DEF w
  <2>2. Goes(Now, t, w)
    BY <1>2, <2>1, SymlinkGoes
  <2> HIDE DEF t
  <2> QED BY <1>3, <2>1, <2>2
<1> QED BY <1>4, <1>5, <1>6, <1>7, <1>8, <1>9

LEMMA CommandsOneStep ==
    ASSUME NameInv, NEW p \in Paths, NEW q \in Paths,
           \/ MkdirOne(p) \/ CreatOne(p) \/ RmdirOne(p) \/ UnlinkOne(p)
           \/ LinkOne(p, q) \/ SymlinkOne(p, q)
    PROVE  Steps
<1>1. up = "up"
  BY RemovalCases, Zenon DEF MkdirOne, CreatOne, RmdirOne, UnlinkOne, LinkOne, SymlinkOne, Command
<1>2. Settled(Now) /\ Cwd \in Dirs(Seen(Now))
  BY <1>1, CwdIsKnown
<1>3. ASSUME NEW states, NEW command, command \notin {"sound", "miscounted"}, Goes(Now, states, command),
             Command(states, command)
      PROVE  Steps
  BY <1>3, CommandSteps
<1>4. CASE MkdirOne(p)
  <2> DEFINE w == "mkdir"
             t == tryMakeDirectoryOne(Now, Cwd, p)
  <2>1. w \in Risky /\ w \notin {"sound", "miscounted"} /\ Command(t, w)
    BY <1>4, Zenon DEF Risky, MkdirOne
  <2> HIDE DEF w
  <2>2. Goes(Now, t, w)
    BY <1>2, <2>1, TryCreateOneGoes
  <2> HIDE DEF t
  <2> QED BY <1>3, <2>1, <2>2
<1>5. CASE CreatOne(p)
  <2> DEFINE w == "creat"
             t == tryCreateOne(Now, Cwd, p)
  <2>1. w \in Risky /\ w \notin {"sound", "miscounted"} /\ Command(t, w)
    BY <1>5, Zenon DEF Risky, CreatOne
  <2> HIDE DEF w
  <2>2. Goes(Now, t, w)
    BY <1>2, <2>1, TryCreateOneGoes
  <2> HIDE DEF t
  <2> QED BY <1>3, <2>1, <2>2
<1>6. CASE RmdirOne(p)
  <2> DEFINE w == "rmdir"
             t == tryRemoveDirectoryOne(Now, Cwd, p)
  <2>1. w \in Risky /\ w \notin {"sound", "miscounted"} /\ Removal(t, p, w)
    BY <1>6, Zenon DEF Risky, RmdirOne
  <2> HIDE DEF w
  <2>2. Goes(Now, t, w)
    BY <1>2, <2>1, TryRemoveDirectoryOneGoes
  <2> HIDE DEF t
  <2> QED BY <2>1, <2>2, RemovalSteps
<1>7. CASE UnlinkOne(p)
  <2> DEFINE w == "unlink"
             t == tryUnlinkOne(Now, Cwd, p)
  <2>1. w \notin {"sound", "miscounted"} /\ Removal(t, p, w)
    BY <1>7, Zenon DEF UnlinkOne
  <2> HIDE DEF w
  <2>2. Goes(Now, t, w)
    BY <1>2, TryUnlinkOneGoes
  <2> HIDE DEF t
  <2> QED BY <2>1, <2>2, RemovalSteps
<1>8. CASE LinkOne(p, q)
  <2> DEFINE w == "link"
             t == tryLinkOne(Now, Cwd, p, q)
  <2>1. w \in Risky /\ w \notin {"sound", "miscounted"} /\ Command(t, w)
    BY <1>8, Zenon DEF Risky, LinkOne
  <2> HIDE DEF w
  <2>2. Goes(Now, t, w)
    BY <1>2, <2>1, TryLinkOneGoes
  <2> HIDE DEF t
  <2> QED BY <1>3, <2>1, <2>2
<1>9. CASE SymlinkOne(p, q)
  <2> DEFINE w == "symlink"
             t == symlinkOne(Now, Cwd, p, q)
  <2>1. w \in Risky /\ w \notin {"sound", "miscounted"} /\ Command(t, w)
    BY <1>9, Zenon DEF Risky, SymlinkOne
  <2> HIDE DEF w
  <2>2. Goes(Now, t, w)
    BY <1>2, <2>1, SymlinkOneGoes
  <2> HIDE DEF t
  <2> QED BY <1>3, <2>1, <2>2
<1> QED BY <1>4, <1>5, <1>6, <1>7, <1>8, <1>9

\* What a command of one state goes to.
LEMMA OneEnds ==
    ASSUME NEW x, NEW command, Goes(Now, <<x>>, command)
    PROVE  Ends(x, command)
<1> DEFINE t == <<x>>
<1>1. Last(t) = x
  BY DEF Last
<1> HIDE DEF t
<1>2. Ends(Last(t), command)
  BY GoesEnds DEF t
<1> QED BY <1>1, <1>2

\* The process that runs has gone to i.
MovedTo(pr, run, i) == [pr EXCEPT ![run].cwd = i]
LEMMA ManMoves ==
    ASSUME NEW pr, NEW run, Manned(pr, run), NEW i, NEW qr, qr = MovedTo(pr, run, i)
    PROVE  Manned(qr, run) /\ CwdsOf(qr) \subseteq CwdsOf(pr) \cup {i}
<1>1. DOMAIN qr = Procs /\ \A p \in Procs \ {run} : qr[p] = pr[p]
  BY DEF Manned, MovedTo
<1>2. qr[run] = [pr[run] EXCEPT !.cwd = i]
  BY DEF Manned, MovedTo
<1>3. DOMAIN qr[run] = {"status", "gid", "cwd"} /\ qr[run].status = pr[run].status /\ qr[run].cwd = i
  BY <1>2 DEF Manned
<1>4. \A p \in Procs : DOMAIN qr[p] = {"status", "gid", "cwd"} /\ qr[p].status = pr[p].status
  BY <1>1, <1>3 DEF Manned
<1>5. 0 \in Procs
  BY FileSystemAssumption DEF Procs
<1>6. Manned(qr, run)
  BY <1>1, <1>4, <1>5 DEF Manned
<1>7. ASSUME NEW p \in Procs, qr[p].status = "READY" PROVE qr[p].cwd \in CwdsOf(pr) \cup {i}
  <2>1. CASE p = run
    BY <1>3, <2>1
  <2>2. CASE p # run
    BY <1>1, <1>7, <2>2 DEF CwdsOf
  <2> QED BY <2>1, <2>2
<1>8. CwdsOf(qr) \subseteq CwdsOf(pr) \cup {i}
  BY <1>7 DEF CwdsOf
<1> QED BY <1>6, <1>8

\* cd, in both stages: where it does not lead to a directory, the reference to where it leads
\* may stay behind.
GoesTo(p) ==
    LET i == getino(Now, Cwd, p) IN
    /\ up = "up"
    /\ \/ /\ IsDir(Now, i)
          /\ Finish(iput(iget(Now, i), Cwd), MovedTo(proc, running, i), running, "chdir")
       \/ \E y \in {Last(Stuck(Now)), Now, iget(Now, i)} : Finish(y, proc, running, "chdir")

LEMMA GoneToSteps ==
    ASSUME NameInv, NEW p \in Paths \cup {RootPath, UpPath}, GoesTo(p)
    PROVE  Steps
<1> DEFINE i == getino(Now, Cwd, p)
           x == iput(iget(Now, i), Cwd)
           l == Last(Stuck(Now))
           k == iget(Now, i)
           pr == MovedTo(proc, running, i)
           word == "chdir"
<1>1. up = "up"
  BY DEF GoesTo
<1>2. Settled(Now) /\ Cwd \in Dirs(Seen(Now)) /\ Manned(proc, running)
  BY <1>1, CwdIsKnown DEF NameInv
<1>3. \/ IsDir(Now, i) /\ Finish(x, pr, running, word)
      \/ Finish(l, proc, running, word)
      \/ Finish(Now, proc, running, word)
      \/ Finish(k, proc, running, word)
  BY Zenon DEF GoesTo
<1>4. word \notin {"sound", "miscounted"}
  BY Zenon
<1>5. /\ IsDir(Now, i) => i \in Dirs(Seen(Now))
      /\ Goes(Now, <<x>>, word) /\ Goes(Now, <<Now>>, word) /\ Goes(Now, Stuck(Now), word)
  BY <1>2, ChdirGoes
<1>6. Goes(Now, <<k>>, word)
  <2>1. Fit(k) /\ Quiet(Now, k)
    BY <1>2, IgetQuiet DEF Settled, Crashable
  <2> HIDE DEF k
  <2> QED BY <1>2, <2>1, QuietGoes
<1>7. Seen(x) = Seen(Now)
  <2> DEFINE g == iget(Now, i)
  <2>1. Fit(Now)
    BY <1>2 DEF Settled, Crashable
  <2>2. Fit(g) /\ Quiet(Now, g)
    BY <2>1, IgetQuiet
  <2> HIDE DEF g
  <2>3. Fit(iput(g, Cwd)) /\ Quiet(g, iput(g, Cwd))
    BY <2>2, IputQuiet
  <2>4. Quiet(Now, iput(g, Cwd))
    BY <2>2, <2>3, QuietOn
  <2>5. Seen(iput(g, Cwd)) = Seen(Now)
    BY <1>2, <2>3, <2>4, QuietSettled
  <2> QED BY <2>5 DEF g
<1>8. Manned(pr, running) /\ CwdsOf(pr) \subseteq CwdsOf(proc) \cup {i}
  BY <1>2, ManMoves
<1> HIDE DEF i, k, pr, word
<1>9. Ends(x, word) /\ Ends(Now, word) /\ Ends(k, word)
  BY <1>5, <1>6, OneEnds
<1> HIDE DEF x
<1>10. Ends(l, word)
  BY <1>5, GoesEnds
<1> HIDE DEF l
<1>11. CwdsOf(proc) = Cwds
  BY DEF CwdsOf, Cwds
<1>12. CASE IsDir(Now, i) /\ Finish(x, pr, running, word)
  <2>1. CwdsOf(pr) \subseteq Cwds \cup Dirs(Seen(x))
    BY <1>5, <1>7, <1>8, <1>11, <1>12
  <2> QED BY <1>1, <1>4, <1>9, <1>8, <1>12, <2>1, FinishSteps
<1>13. ASSUME NEW y, Ends(y, word), Finish(y, proc, running, word) PROVE Steps
  BY <1>1, <1>2, <1>4, <1>11, <1>13, FinishSteps
<1> QED BY <1>3, <1>9, <1>10, <1>12, <1>13

LEMMA ChdirSteps ==
    ASSUME NameInv, NEW p \in Paths \cup {RootPath, UpPath},
           Chdir(p) \/ (running = 0 /\ ChdirOne(p))
    PROVE  Steps
<1>1. GoesTo(p)
  BY Zenon DEF Chdir, ChdirOne, GoesTo, MovedTo
<1> QED BY <1>1, GoneToSteps

LEMMA SameSteps ==
    ASSUME NameInv, UNCHANGED <<disk, core, up, image>>,
           up = "up" => Manned(proc', running') /\ CwdsOf(proc') \subseteq CwdsOf(proc) \cup {ROOT}
    PROVE  Steps
<1>1. DeviceFits'
  BY DEF NameInv, DeviceFits
<1>2. Now' = Now /\ View' = View /\ (Claimed' <=> Claimed)
  BY DEF Now, View, Claimed
<1>3. up = "up" => ROOT \in Dirs(Seen(Now))
  <2> SUFFICES ASSUME up = "up" PROVE ROOT \in Dirs(Seen(Now))
    OBVIOUS
  <2>1. Crashable(Now) /\ Sound(Seen(Now))
    BY CwdIsKnown DEF Settled
  <2> QED BY <2>1, SeenProper, SoundIs DEF Treelike, RootOnTop
<1>4. up = "up" => CwdsOf(proc') \subseteq Dirs(Seen(Now))
  BY <1>3 DEF NameInv
<1>5. NameInv'
  BY <1>1, <1>2, <1>4 DEF NameInv
<1>6. Tree' = Tree
  BY <1>2 DEF Tree
<1>7. Moves(Tree, Tree')
  BY <1>6 DEF Moves
<1>8. Spared
  BY DEF Spared
<1> QED BY <1>2, <1>5, <1>7, <1>8 DEF Steps

LEMMA ProcessSteps ==
    ASSUME NameInv, NEW p \in Procs,
           SwitchProcess(p) \/ KillProcess(p) \/ \E usertype \in Groups : CreateProcess(usertype, p)
    PROVE  Steps
<1>0. UNCHANGED <<disk, core, up, image>> /\ up = "up"
  BY DEF SwitchProcess, KillProcess, CreateProcess
<1>1. Manned(proc, running)
  BY <1>0 DEF NameInv
<1>2. 0 \in Procs
  BY FileSystemAssumption DEF Procs
<1>3. NoProc[p] = [status |-> "FREE", gid |-> 0, cwd |-> 0]
  BY DEF NoProc
<1>4. CASE SwitchProcess(p)
  <2>1. proc' = proc /\ running' = p /\ proc[p].status = "READY"
    BY <1>4 DEF SwitchProcess
  <2> QED BY <1>0, <1>1, <2>1, SameSteps DEF Manned
<1>5. CASE KillProcess(p)
  <2>1. proc' = [proc EXCEPT ![p] = NoProc[p]] /\ running' = (IF p = running THEN 0 ELSE running) /\ p > 0
    BY <1>5 DEF KillProcess
  <2>2. /\ DOMAIN proc' = Procs /\ proc'[p] = [status |-> "FREE", gid |-> 0, cwd |-> 0]
        /\ \A q \in Procs \ {p} : proc'[q] = proc[q]
    BY <1>1, <1>3, <2>1 DEF Manned
  <2>3. Manned(proc', running')
    BY <1>1, <1>2, <2>1, <2>2 DEF Manned
  <2>4. CwdsOf(proc') \subseteq CwdsOf(proc)
    BY <2>2 DEF CwdsOf
  <2> QED BY <1>0, <2>3, <2>4, SameSteps
<1>6. ASSUME NEW usertype \in Groups, CreateProcess(usertype, p) PROVE Steps
  <2> DEFINE new == [status |-> "READY", gid |-> usertype, cwd |-> ROOT]
  <2>1. proc' = [proc EXCEPT ![p] = new] /\ running' = running
    BY <1>6 DEF CreateProcess
  <2>2. /\ DOMAIN proc' = Procs /\ proc'[p] = new
        /\ \A q \in Procs \ {p} : proc'[q] = proc[q]
    BY <1>1, <2>1 DEF Manned
  <2>3. DOMAIN new = {"status", "gid", "cwd"} /\ new.status = "READY" /\ new.cwd = ROOT
    OBVIOUS
  <2> HIDE DEF new
  <2>4. Manned(proc', running')
    BY <1>1, <1>2, <2>1, <2>2, <2>3 DEF Manned
  <2>5. CwdsOf(proc') \subseteq CwdsOf(proc) \cup {ROOT}
    BY <2>2, <2>3 DEF CwdsOf
  <2> QED BY <1>0, <2>4, <2>5, SameSteps
<1> QED BY <1>4, <1>5, <1>6

-------------------------------------------------------------------------------
\* The beginnings and the ends of the program.

\* Two images that say the same, but for the count of free inodes.
Alike(d, e) ==
    /\ e.imap = d.imap /\ e.bmap = d.bmap /\ e.dir = d.dir
    /\ \A i \in Inos : e.inode[i] = d.inode[i]

LEMMA AlikeDirs ==
    ASSUME NEW d, NEW e, Proper(d), Proper(e), Alike(d, e)
    PROVE  /\ Dirs(d) \subseteq Dirs(e) /\ Files(d) = Files(e) /\ Dirs(d) \subseteq Inos
           /\ \A i \in Inos : EntriesOf(d, i) = EntriesOf(e, i)
<1>1. ASSUME NEW i \in Inos PROVE EntriesOf(d, i) = EntriesOf(e, i)
  BY <1>1 DEF EntriesOf, Alike
<1>2. OpenDirs(d) = OpenDirs(e) /\ Files(d) = Files(e) /\ OpenDirs(d) \subseteq Inos
  BY DEF OpenDirs, Files, Allocated, Alike, Proper
<1>3. Dirs(e) \subseteq OpenDirs(e) /\ Dirs(d) \subseteq OpenDirs(d)
  BY DirsOpen
<1>4. ROOT \in OpenDirs(d) => ROOT \in Dirs(e)
  BY <1>2, DirsOpen
<1>5. Covers(d, Dirs(e))
  <2>1. Covers(e, Dirs(e))
    BY DirsOpen
  <2> QED BY <1>1, <1>2, <1>3, <2>1 DEF Covers
<1>6. Dirs(d) \subseteq Dirs(e)
  <2> DEFINE S == Dirs(e)
  <2> HIDE DEF S
  <2>1. Dirs(d) \subseteq S
    BY <1>4, <1>5, DirsLeast DEF S
  <2> QED BY <2>1 DEF S
<1> QED BY <1>1, <1>2, <1>3, <1>6

LEMMA AlikeSound ==
    ASSUME NEW d, NEW e, Proper(d), Proper(e), Alike(d, e)
    PROVE  /\ NamesKept(d, e) /\ Dirs(e) = Dirs(d)
           /\ (Sound(d) => Sound(e)) /\ (LinksEnough(d) => LinksEnough(e))
<1>1. Alike(e, d)
  BY DEF Alike
<1>2. /\ Dirs(e) = Dirs(d) /\ Files(e) = Files(d) /\ Dirs(d) \subseteq Inos
      /\ \A i \in Inos : EntriesOf(e, i) = EntriesOf(d, i)
  BY <1>1, AlikeDirs
<1>3. Entries(e) = Entries(d)
  <2>1. \A x : x \in Entries(e) <=> x \in Entries(d)
    BY <1>2, EntriesIs
  <2> QED BY <2>1
<1>4. \A i \in Inos : UpOf(e, i) = UpOf(d, i) /\ e.inode[i].links = d.inode[i].links
  BY DEF Alike, UpOf
<1>5. \A i : Named(Entries(e), i) = Named(Entries(d), i)
  BY <1>3
<1>6. Leads(d) => Leads(e)
  BY <1>2, <1>3 DEF Leads
<1>7. Linked(d) => Linked(e)
  <2>1. Files(d) \subseteq Inos
    BY DEF Files, Allocated, Proper
  <2> QED BY <1>2, <1>4, <1>5, <2>1 DEF Linked
<1>8. Treelike(d) => Treelike(e)
  <2>1. RootOnTop(d) => RootOnTop(e)
    BY <1>2, <1>3, <1>4, InosFinite DEF RootOnTop
  <2>2. Distinct(d) => Distinct(e)
    BY <1>3 DEF Distinct
  <2>3. ASSUME NEW i \in Dirs(d), Hangs(d, i) PROVE Hangs(e, i)
    BY <1>2, <1>3, <1>4, <1>5, <2>3 DEF Hangs
  <2> QED BY <1>2, <2>1, <2>2, <2>3 DEF Treelike
<1>9. Sound(d) => Sound(e)
  BY <1>6, <1>7, <1>8, SoundIs
<1>10. LinksEnough(d) => LinksEnough(e)
  BY <1>2, <1>4 DEF LinksEnough
<1> QED BY <1>2, <1>3, <1>9, <1>10 DEF NamesKept

\* Neither the names nor what is claimed of them changes.
LEMMA AlikeMoves ==
    ASSUME NEW d, NEW e, Proper(d), Proper(e), Alike(d, e), Sound(d), Claimed, View = d,
           Claimed', View' = e
    PROVE  Moves(Tree, Tree')
<1>1. Sound(e) /\ Renamed(d, e)
  BY AlikeSound DEF Renamed
<1>2. Treelike(d) /\ Treelike(e)
  BY <1>1, SoundIs
<1> QED BY <1>1, <1>2, TreeMoves

LEMMA BootedSteps ==
    ASSUME NameInv, Booted, up = "down", Claimed, image' = image, Manned(proc', running'),
           CwdsOf(proc') \subseteq {ROOT}
    PROVE  Steps
<1> DEFINE x == Now'
<1>1. up' = "up" /\ disk' = disk
  BY DEF Booted
<1>2. Bootable(disk) /\ (image = "sound" => LinksEnough(disk))
  BY DEF NameInv, View
<1>3. DeviceFits'
  BY <1>1, BootedFits DEF NameInv
<1>4. /\ x.disk = disk /\ x.core.inode = disk.inode /\ x.up = "up"
      /\ DOMAIN x = {"disk", "core", "up"} /\ x.core = core'
  BY <1>1 DEF Now, Booted
<1>5. View' = Seen(x) /\ (Claimed' <=> Claimed)
  BY <1>1 DEF View, Claimed
<1> HIDE DEF x
<1>6. Fit(x)
  BY <1>1, <1>3, <1>4 DEF Fit, DeviceFits, Outcomes
<1>7. Crashable(x) /\ \A i \in Inos : CleanAt(x, i)
  BY <1>2, <1>4, <1>6 DEF Follows, Crashable, Bootable, Behind, CleanAt, Room
<1>8. Alike(disk, Seen(x))
  BY <1>4, <1>6, SeenIs DEF Alike
<1>9. Proper(disk) /\ Proper(Seen(x))
  BY <1>4, <1>7, SeenProper
<1>10. /\ Dirs(Seen(x)) = Dirs(disk) /\ Sound(Seen(x))
       /\ (image = "sound" => LinksEnough(Seen(x)))
  BY <1>2, <1>8, <1>9, AlikeSound DEF Bootable
<1>11. ROOT \in Dirs(Seen(x))
  BY <1>9, <1>10, SoundIs DEF Treelike, RootOnTop
<1>12. Settled(x)
  BY <1>7, <1>10 DEF Settled
<1>13. CwdsOf(proc') \subseteq Dirs(x.disk) /\ CwdsOf(proc') \subseteq Dirs(Seen(x))
  BY <1>4, <1>10, <1>11
<1>14. NameInv'
  BY <1>1, <1>2, <1>3, <1>5, <1>10, <1>12, <1>13 DEF NameInv, x
<1>15. Moves(Tree, Tree')
  <2> DEFINE d == disk
             e == Seen(x)
  <2>1. Proper(d) /\ Proper(e) /\ Alike(d, e) /\ Sound(d) /\ Claimed' /\ View' = e /\ View = d
    BY <1>1, <1>2, <1>5, <1>8, <1>9 DEF Bootable, View
  <2> HIDE DEF d, e
  <2> QED BY <1>2, <2>1, AlikeMoves
<1>16. Spared
  BY <1>1 DEF Spared
<1> QED BY <1>1, <1>14, <1>15, <1>16 DEF Steps

LEMMA BootSteps ==
    ASSUME NameInv, Boot
    PROVE  Steps
<1> DEFINE zero == [status |-> "READY", gid |-> 0, cwd |-> ROOT]
           one == [status |-> "READY", gid |-> USER_GROUP, cwd |-> ROOT]
           none == [status |-> "FREE", gid |-> 0, cwd |-> 0]
<1>1. /\ Booted /\ up = "down" /\ Claimed /\ image' = image /\ running' = 0
      /\ proc' = [NoProc EXCEPT ![0] = zero, ![1] = one]
  BY DEF Boot, Booted, Claimed
<1>2. 0 \in Procs /\ 1 \in Procs
  BY FileSystemAssumption DEF Procs
<1>3. /\ DOMAIN proc' = Procs
      /\ \A p \in Procs : proc'[p] = IF p = 1 THEN one ELSE IF p = 0 THEN zero ELSE none
  BY <1>1, <1>2 DEF NoProc
<1>4. /\ DOMAIN zero = {"status", "gid", "cwd"} /\ zero.status = "READY" /\ zero.cwd = ROOT
      /\ DOMAIN one = {"status", "gid", "cwd"} /\ one.status = "READY" /\ one.cwd = ROOT
      /\ DOMAIN none = {"status", "gid", "cwd"} /\ none.status # "READY"
  OBVIOUS
<1> HIDE DEF zero, one, none
<1>5. Manned(proc', running')
  BY <1>1, <1>2, <1>3, <1>4 DEF Manned
<1>6. CwdsOf(proc') \subseteq {ROOT}
  BY <1>3, <1>4 DEF CwdsOf
<1> QED BY <1>1, <1>5, <1>6, BootedSteps

LEMMA BootOneSteps ==
    ASSUME NameInv, BootOne
    PROVE  Steps
<1> DEFINE zero == [status |-> "READY", gid |-> 0, cwd |-> ROOT]
           none == [status |-> "FREE", gid |-> 0, cwd |-> 0]
<1>1. /\ Booted /\ up = "down" /\ Claimed /\ image' = image /\ running' = 0
      /\ proc' = [NoProc EXCEPT ![0] = zero]
  BY DEF BootOne, Booted, Claimed
<1>2. 0 \in Procs
  BY FileSystemAssumption DEF Procs
<1>3. DOMAIN proc' = Procs /\ \A p \in Procs : proc'[p] = IF p = 0 THEN zero ELSE none
  BY <1>1, <1>2 DEF NoProc
<1>4. /\ DOMAIN zero = {"status", "gid", "cwd"} /\ zero.status = "READY" /\ zero.cwd = ROOT
      /\ DOMAIN none = {"status", "gid", "cwd"} /\ none.status # "READY"
  OBVIOUS
<1> HIDE DEF zero, none
<1>5. Manned(proc', running')
  BY <1>1, <1>2, <1>3, <1>4 DEF Manned
<1>6. CwdsOf(proc') \subseteq {ROOT}
  BY <1>3, <1>4 DEF CwdsOf
<1> QED BY <1>1, <1>5, <1>6, BootedSteps

\* quit: the blocks and the bits stay, and so do the names.
HasLeft ==
    /\ HasQuit /\ up = "up" /\ image' = image
    /\ disk'.bmap = disk.bmap /\ disk'.dir = disk.dir

LEMMA LeftSteps ==
    ASSUME NameInv, HasLeft
    PROVE  Steps
<1> DEFINE d == Seen(Now)
           e == disk'
<1>1. up = "up" /\ up' = "down" /\ image' = image
  BY DEF HasLeft, HasQuit
<1>2. Settled(Now) /\ Crashable(Now) /\ View = d /\ Claimed /\ DeviceFits
  BY <1>1, CwdIsKnown DEF NameInv
<1>3. /\ HasQuit
      /\ e.imap = disk.imap /\ e.bmap = disk.bmap /\ e.dir = disk.dir
      /\ e.inode = [i \in Inos |-> IF core.ref[i] > 0 THEN core.inode[i] ELSE disk.inode[i]]
  BY DEF HasLeft, HasQuit
<1>4. DeviceFits'
  BY <1>1, <1>2, <1>3, QuitFits
<1>5. Now.disk = disk /\ Now.core = core
  BY DEF Now
<1>6. /\ d.imap = disk.imap /\ d.bmap = disk.bmap /\ d.dir = disk.dir /\ d.inode = core.inode
  BY <1>2, <1>5, SeenIs DEF Crashable
<1>7. DOMAIN e.inode = Inos /\ \A i \in Inos : e.inode[i] = core.inode[i]
  <2>1. ASSUME NEW i \in Inos PROVE e.inode[i] = core.inode[i]
    <3>1. CleanAt(Now, i) /\ core.ref[i] \in Int
      BY <1>2, <1>5 DEF Settled, Crashable, Fit, CoreFit
    <3>2. CASE core.ref[i] > 0
      BY <1>3, <3>2
    <3>3. CASE core.ref[i] <= 0
      BY <1>3, <1>5, <3>1, <3>3 DEF CleanAt
    <3> QED BY <3>1, <3>2, <3>3
  <2> QED BY <1>3, <2>1
<1>8. View' = e /\ (Claimed' <=> Claimed)
  BY <1>1 DEF View, Claimed
<1> HIDE DEF d, e
<1>9. Alike(d, e)
  BY <1>3, <1>6, <1>7 DEF Alike
<1>10. Shaped(e.inode) /\ Blocked(e) /\ Taken(e.inode, e.imap)
  BY <1>2, <1>3, <1>5, <1>7 DEF Crashable, Shaped, Blocked, Taken, Fit, CoreFit
<1>11. Proper(d) /\ Proper(e)
  BY <1>2, <1>3, <1>10, SeenProper DEF Proper, d, DeviceFits, DiskFit
<1>12. Sound(e) /\ (LinksEnough(d) => LinksEnough(e))
  BY <1>2, <1>9, <1>11, AlikeSound DEF Settled, d
<1>13. Room(e, e.inode)
  <2>1. Holders(e.imap, e.inode) = Holders(disk.imap, core.inode)
    BY <1>2, <1>3, <1>7 DEF Holders, DeviceFits, DiskFit
  <2>2. Room(disk, core.inode)
    BY <1>2, <1>5 DEF Crashable
  <2> QED BY <1>3, <2>1, <2>2 DEF Room
<1>14. Bootable(disk')
  BY <1>10, <1>12, <1>13 DEF Bootable, e
<1>15. (image = "sound" => LinksEnough(View))'
  BY <1>1, <1>2, <1>8, <1>12 DEF NameInv
<1>16. up' # "up" /\ up' = "down"
  BY <1>1
<1>17. Moves(Tree, Tree')
  BY <1>2, <1>8, <1>9, <1>11, AlikeMoves DEF Settled, d
<1>18. Spared
  BY <1>1 DEF Spared
<1> QED BY <1>4, <1>14, <1>15, <1>16, <1>17, <1>18 DEF NameInv, Steps

LEMMA QuitSteps ==
    ASSUME NameInv, Quit \/ QuitOne
    PROVE  Steps
<1>1. DiskFit(disk)
  BY DEF NameInv, DeviceFits
<1>2. HasLeft
  BY <1>1 DEF Quit, QuitOne, HasLeft, HasQuit, DiskFit
<1> QED BY <1>2, LeftSteps

LEMMA FreshDiskSound ==
    Bootable(FreshDisk) /\ LinksEnough(FreshDisk) /\ TreePaths(FreshDisk) = {}
<1> DEFINE d == FreshDisk
<1>1. /\ d.imap = {ROOT} /\ d.bmap = {ROOT}
      /\ DOMAIN d.inode = Inos /\ DOMAIN d.dir = Blocks
      /\ \A i \in Inos : d.inode[i] = IF i = ROOT THEN Directory(0, ROOT) ELSE NoInode
      /\ \A b \in Blocks : d.dir[b] = IF b = ROOT THEN Dir(ROOT, ROOT) ELSE Dir(0, 0)
  BY DEF FreshDisk
<1>2. DiskFit(d)
  BY FreshDiskFits
<1> HIDE DEF d
<1>3. ROOT \in Inos /\ ROOT \in Blocks
  BY FileSystemAssumption DEF Inos, Blocks, ROOT
<1>4. /\ d.inode[ROOT].kind = "dir" /\ d.inode[ROOT].links = 2 /\ d.inode[ROOT].block = ROOT
      /\ d.dir[ROOT].dot = ROOT /\ d.dir[ROOT].up = ROOT /\ d.dir[ROOT].list = {}
  BY <1>1, <1>3 DEF Directory, Dir
<1>5. Shaped(d.inode)
  BY <1>1 DEF Shaped, Formed, Directory, NoInode
<1>6. Blocked(d)
  <2>1. \A i, j : Listed(Dir(i, j))
    BY FS_EmptySet DEF Listed, Dir
  <2> QED BY <1>1, <1>3, <2>1 DEF Blocked
<1>7. Proper(d)
  BY <1>2, <1>5, <1>6 DEF Proper, DiskFit
<1>8. OpenDirs(d) = {ROOT} /\ Files(d) = {} /\ EntriesOf(d, ROOT) = {}
  BY <1>1, <1>4 DEF OpenDirs, Files, Allocated, EntriesOf
<1>9. Dirs(d) = {ROOT}
  BY <1>8, DirsOpen
<1>10. Entries(d) = {}
  BY <1>8, <1>9, EntriesIs
<1>11. Leads(d) /\ Linked(d) /\ Treelike(d)
  BY <1>4, <1>8, <1>9, <1>10 DEF Leads, Linked, Treelike, RootOnTop, Distinct, UpOf
<1>12. Sound(d)
  BY <1>7, <1>11, SoundIs
<1>13. LinksEnough(d)
  <2>1. {e \in EntriesOf(d, ROOT) : e.ino \in {ROOT}} = {}
    BY <1>8
  <2>2. Cardinality({e \in EntriesOf(d, ROOT) : e.ino \in {ROOT}}) = 0
    BY <2>1, FS_EmptySet
  <2> QED BY <1>4, <1>9, <2>2 DEF LinksEnough
<1>14. Room(d, d.inode)
  <2>1. Holders(d.imap, d.inode) = {ROOT}
    BY <1>1, <1>4 DEF Holders
  <2>2. Cardinality({ROOT}) = 1
    BY FS_Singleton
  <2> QED BY <1>1, <2>1, <2>2 DEF Room
<1>15. TreePaths(d) = {}
  <2>1. PICK h : Routes(d, h, {})
    BY <1>10, <1>11, RoutesExist
  <2> QED BY <1>10, <1>11, <2>1, TreePathsAre DEF PathsOf, Shown
<1> QED BY <1>5, <1>6, <1>12, <1>13, <1>14, <1>15 DEF Bootable, d

LEMMA NameInvInit == Init => NameInv
<1> SUFFICES ASSUME Init PROVE NameInv
  OBVIOUS
<1>1. disk = FreshDisk /\ up = "down" /\ up # "up"
  BY DEF Init
<1>2. DeviceFits
  BY <1>1, FreshDiskFits DEF DeviceFits
<1>3. View = disk
  BY <1>1 DEF View
<1> QED BY <1>1, <1>2, <1>3, FreshDiskSound DEF NameInv

\* mk, and mkdisk.
LEMMA FreshSteps ==
    ASSUME disk' = FreshDisk, up' = "down", image' = "sound"
    PROVE  Steps
<1>1. up' # "up"
  OBVIOUS
<1>2. DeviceFits'
  BY <1>1, FreshDiskFits DEF DeviceFits
<1>3. View' = disk' /\ Bootable(disk') /\ LinksEnough(disk')
  BY FreshDiskSound DEF View
<1>4. (image = "sound" => LinksEnough(View))'
  BY <1>3
<1>5. (Claimed => up = "down" /\ Bootable(disk))'
  BY <1>3
<1>6. Tree' = {}
  BY <1>3, FreshDiskSound DEF Tree
<1>7. Spared
  BY DEF Spared
<1> QED BY <1>1, <1>2, <1>4, <1>5, <1>6, <1>7 DEF NameInv, Steps

LEMMA EndSteps ==
    ASSUME NameInv, Crash \/ Retarget \/ Restore
    PROVE  Steps
<1> DEFINE idle == "idle"
           away == "retarget"
<1>1. CASE Crash
  <2>1. up = "up" /\ CrashAt(Now, idle)
    BY <1>1 DEF Crash
  <2>2. Settled(Now) /\ Crashable(Now)
    BY <2>1, CwdIsKnown
  <2>3. idle \notin {"sound", "miscounted"}
    BY Zenon
  <2> DEFINE s == Now
  <2> HIDE DEF idle
  <2>4. Safe(Now, s, idle) /\ CrashAt(s, idle)
    BY <2>1, <2>2, SelfLeft DEF Safe
  <2> HIDE DEF s
  <2> QED BY <2>1, <2>3, <2>4, CrashSteps
<1>2. CASE Retarget
  <2>1. GiveUp(away) /\ away \in Farewells
    BY <1>2, WordsApart DEF Retarget
  <2> HIDE DEF away
  <2> QED BY <2>1, GiveUpSteps
<1>3. CASE Restore
  BY <1>3, FreshSteps DEF Restore
<1> QED BY <1>1, <1>2, <1>3

LEMMA UnmovedSteps ==
    ASSUME NameInv, UNCHANGED vars
    PROVE  Steps
<1>1. UNCHANGED <<disk, core, up, image>> /\ proc' = proc /\ running' = running
  BY DEF vars
<1>2. up = "up" => Manned(proc', running') /\ CwdsOf(proc') \subseteq CwdsOf(proc) \cup {ROOT}
  BY <1>1 DEF NameInv
<1> QED BY <1>1, <1>2, SameSteps

LEMMA NameInvStep == NameInv /\ [Next]_vars => Steps
<1> SUFFICES ASSUME NameInv, [Next]_vars PROVE Steps
  OBVIOUS
<1>1. CASE Boot
  BY <1>1, BootSteps
<1>2. CASE Quit
  BY <1>2, QuitSteps
<1>3. CASE Crash \/ Retarget \/ Restore
  BY <1>3, EndSteps
<1>4. ASSUME NEW p \in Paths, Mkdir(p) \/ Creat(p) \/ Rmdir(p) \/ Unlink(p)
      PROVE  Steps
  BY <1>4, CommandsStep
<1>5. ASSUME NEW p \in Paths, NEW q \in Paths, Link(p, q) \/ Symlink(p, q)
      PROVE  Steps
  BY <1>5, CommandsStep
<1>6. ASSUME NEW p \in Paths \cup {RootPath, UpPath}, Chdir(p)
      PROVE  Steps
  BY <1>6, ChdirSteps
<1>7. ASSUME NEW p \in Procs,
             SwitchProcess(p) \/ KillProcess(p) \/ \E usertype \in Groups : CreateProcess(usertype, p)
      PROVE  Steps
  BY <1>7, ProcessSteps
<1>8. CASE UNCHANGED vars
  BY <1>8, UnmovedSteps
<1> QED BY <1>1, <1>2, <1>3, <1>4, <1>5, <1>6, <1>7, <1>8 DEF Next

LEMMA NameInvStepOne == NameInv /\ HeldInv /\ [NextOne]_vars => Steps
<1> SUFFICES ASSUME NameInv, HeldInv, [NextOne]_vars PROVE Steps
  OBVIOUS
<1>1. CASE BootOne
  BY <1>1, BootOneSteps
<1>2. CASE QuitOne
  BY <1>2, QuitSteps
<1>3. CASE Crash
  BY <1>3, EndSteps
<1>4. CASE Mkdisk
  BY <1>4, FreshSteps DEF Mkdisk
<1>5. ASSUME NEW p \in Paths, MkdirOne(p) \/ CreatOne(p) \/ RmdirOne(p) \/ UnlinkOne(p)
      PROVE  Steps
  BY <1>5, CommandsOneStep
<1>6. ASSUME NEW p \in Paths, NEW q \in Paths, LinkOne(p, q) \/ SymlinkOne(p, q)
      PROVE  Steps
  BY <1>6, CommandsOneStep
<1>7. ASSUME NEW p \in Paths \cup {RootPath, UpPath}, ChdirOne(p)
      PROVE  Steps
  <2>1. up = "up"
    BY <1>7, Zenon DEF ChdirOne
  <2>2. running = 0
    BY <2>1, Zenon DEF HeldInv
  <2> QED BY <1>7, <2>2, ChdirSteps
<1>8. CASE UNCHANGED vars
  BY <1>8, UnmovedSteps
<1> QED BY <1>1, <1>2, <1>3, <1>4, <1>5, <1>6, <1>7, <1>8 DEF NextOne

LEMMA NameInvSound == NameInv => SoundImage /\ LinksCover
<1> SUFFICES ASSUME NameInv PROVE SoundImage /\ LinksCover
  OBVIOUS
<1>1. CASE up = "up"
  <2>1. View = Seen(Now) /\ Sound(Seen(Now))
    BY <1>1, CwdIsKnown DEF Settled
  <2> QED BY <2>1 DEF NameInv, SoundImage, LinksCover
<1>2. CASE up # "up"
  <2>1. Claimed => View = disk /\ Sound(disk)
    BY <1>2 DEF NameInv, Bootable, View
  <2> QED BY <2>1 DEF NameInv, SoundImage, LinksCover
<1> QED BY <1>1, <1>2

\* While no crash has damaged the image, whatever the commands and processes of level-3
\* do, no name leads to an inode that is not in use, no file has more names than links,
\* and the directories form one tree that every ".." agrees with.
THEOREM SoundImageAlways == Spec => []SoundImage
<1>1. NameInv => SoundImage
  BY NameInvSound
<1>2. NameInv /\ [Next]_vars => NameInv'
  BY NameInvStep DEF Steps
<1> QED BY <1>1, <1>2, NameInvInit, PTL DEF Spec

\* Until a crash loses a link count, the links of a directory cover its own two names and
\* the ".." of its children, so that removeDirectory takes away none that has a directory
\* in it.
THEOREM LinksCoverAlways == Spec => []LinksCover
<1>1. NameInv => LinksCover
  BY NameInvSound
<1>2. NameInv /\ [Next]_vars => NameInv'
  BY NameInvStep DEF Steps
<1> QED BY <1>1, <1>2, NameInvInit, PTL DEF Spec

\* No command takes away more than one directory, and a file comes to have more links
\* than names only by losing a name in a directory that rmdir has removed.
THEOREM RmdirLosesFilesOnlyAlways == Spec => RmdirLosesFilesOnly
<1>1. NameInv /\ [Next]_vars => NameInv'
  BY NameInvStep DEF Steps
<1>2. NameInv /\ [Next]_vars =>
        [image = "sound" /\ up = "up" /\ up' = "up" /\ View' # View =>
        LET gone == Dirs(View) \ Dirs(View)'
            before == Excess(View)
            after == Excess(View)'
        IN  /\ Cardinality(gone) <= 1
            /\ \A i \in Inos : after[i] > before[i] =>
                    \E e \in Named(Entries(View), i) : e.dir \in gone]_vars
  BY NameInvStep DEF Steps, Lost
<1> QED BY <1>1, <1>2, NameInvInit, PTL DEF Spec, RmdirLosesFilesOnly

LEMMA InitFormats == Init => Abstract!Init
<1> SUFFICES ASSUME Init PROVE Tree = {}
  BY DEF Abstract!Init, Tree
<1>1. View = FreshDisk
  BY DEF Init, View
<1> QED BY <1>1, FreshDiskSound DEF Tree

LEMMA StepsRefine == Steps => [Abstract!Next]_Tree
<1> SUFFICES ASSUME Steps PROVE Abstract!Step(Tree, Tree') \/ Tree' = Tree
  BY DEF Abstract!Next, Tree
<1>1. Moves(Tree, Tree') \/ Tree' = {}
  BY DEF Steps
<1> QED BY <1>1, Zenon DEF Moves, Abstract!Step, Abstract!Formats

\* The refinement.  With the tree of paths that a device shows for tree, as long as no crash has
\* damaged the image, whatever the commands do, where a crash cuts one short and whatever goes
\* to the disk and comes back from it, FileSystem takes the steps of NameTree: one path comes,
\* or one goes with what is below it, or the image is made anew.
THEOREM ImplementsNameTreeAlways == Spec => ImplementsNameTree
<1>1. NameInv /\ [Next]_vars => NameInv'
  BY NameInvStep DEF Steps
<1>2. NameInv /\ [Next]_vars => [Abstract!Next]_Tree
  BY NameInvStep, StepsRefine
<1> QED BY <1>1, <1>2, InitFormats, NameInvInit, PTL
      DEF Spec, ImplementsNameTree, Abstract!Spec, Tree

\* The image of level-1 is sound, and no directory has too few links, under the same claims: that
\* quit leaves the free counts on the disk as they were concerns neither.
THEOREM LevelOneSound == SpecOne => [](SoundImage /\ LinksCover)
<1>1. NameInv /\ HeldInv /\ [NextOne]_vars => NameInv'
  BY NameInvStepOne DEF Steps
<1> QED BY <1>1, NameInvInit, HeldInvInit, HeldInvStep, NameInvSound, PTL DEF SpecOne

\* The refinement again.  In level-1 nobody is denied, a failed cd and a failed rmdir forget a
\* reference, and unlink releases the directory once; its steps are steps of NameTree all the same.
THEOREM LevelOneImplementsNameTree == SpecOne => ImplementsNameTree
<1>1. NameInv /\ HeldInv /\ [NextOne]_vars => NameInv'
  BY NameInvStepOne DEF Steps
<1>2. NameInv /\ HeldInv /\ [NextOne]_vars => [Abstract!Next]_Tree
  BY NameInvStepOne, StepsRefine
<1> QED BY <1>1, <1>2, InitFormats, NameInvInit, HeldInvInit, HeldInvStep, PTL
      DEF SpecOne, ImplementsNameTree, Abstract!Spec, Tree

\* A crash damages one name at most, and only within a command that enters a name before it
\* writes the inode or the link count, or clears the bits before it removes the name: unlink,
\* and the time between two commands, are safe, unless a reference was forgotten before.
THEOREM CrashDamagesOneNameAlways == Spec => CrashDamagesOneName
<1>1. NameInv /\ [Next]_vars => NameInv'
  BY NameInvStep DEF Steps
<1>2. NameInv /\ [Next]_vars =>
        [up' = "down" /\ image' # image /\ image' # "sound" /\ ~Unwritten =>
            /\ image' \in {"miscounted", "creat", "mkdir", "symlink", "link", "rmdir"}
            /\ Cardinality(BadEntries(disk')) + Cardinality(ShortFiles(disk')) <= 1]_vars
  BY NameInvStep DEF Steps, Spared, Risky, AtMostOne
<1> QED BY <1>1, <1>2, NameInvInit, PTL DEF Spec, CrashDamagesOneName

-------------------------------------------------------------------------------
\* What pwd prints.

Absolute(q) == [abs |-> TRUE, comps |-> q]

\* An absolute path leads one component further than the path before it.
LEMMA AbsoluteSteps ==
    ASSUME NEW s, Crashable(s), NEW d, d = Seen(s), Sound(d)
    PROVE  /\ getino(s, ROOT, Absolute(<<>>)) = ROOT
           /\ \A N : \A q \in Seq(N) : \A n \in N :
                getino(s, ROOT, Absolute(Append(q, n))) = StepOf(s, getino(s, ROOT, Absolute(q)), n)
<1>0. ROOT \in Dirs(d)
  BY SeenProper, SoundIs DEF Treelike, RootOnTop
<1>1. getino(s, ROOT, Absolute(<<>>)) = ROOT
  <2> DEFINE p == Absolute(<<>>)
  <2>1. p.abs = TRUE /\ Len(p.comps) = 0
    BY DEF Absolute
  <2> HIDE DEF p
  <2>2. PICK w : Walks(s, ROOT, p, w)
    BY <1>0, <2>1, GetinoWalks
  <2>3. getino(s, ROOT, p) = ROOT
    BY <2>1, <2>2 DEF Walks
  <2> QED BY <2>3 DEF p
<1>2. ASSUME NEW N, NEW q \in Seq(N), NEW n \in N
      PROVE  getino(s, ROOT, Absolute(Append(q, n))) = StepOf(s, getino(s, ROOT, Absolute(q)), n)
  <2> DEFINE p == Absolute(q)
             r == Absolute(Append(q, n))
             M == Len(q)
  <2>1. /\ M \in Nat /\ Len(Append(q, n)) = M + 1 /\ Append(q, n)[M + 1] = n
        /\ \A k \in 1 .. M : Append(q, n)[k] = q[k]
    BY <1>2
  <2>2. /\ p.abs = TRUE /\ r.abs = TRUE /\ p.comps = q /\ r.comps = Append(q, n)
    BY DEF Absolute
  <2>3. /\ Len(p.comps) = M /\ Len(r.comps) = M + 1 /\ r.comps[M + 1] = n
        /\ \A k \in 1 .. M : r.comps[k] = p.comps[k]
    BY <2>1, <2>2
  <2> HIDE DEF p, r, M
  <2>4. PICK v : Walks(s, ROOT, p, v)
    BY <1>0, <2>1, <2>3, GetinoWalks
  <2>5. PICK w : Walks(s, ROOT, r, w)
    <3>1. Len(r.comps) \in Nat
      BY <2>1, <2>3
    <3> QED BY <1>0, <3>1, GetinoWalks
  <2> DEFINE T == {k \in 0 .. M : w[k] = v[k]}
  <2>6. 0 \in T
    BY <2>1, <2>2, <2>4, <2>5 DEF Walks
  <2>7. ASSUME NEW k \in 0 .. M - 1, k \in T PROVE k + 1 \in T
    <3>1. k + 1 \in 1 .. M /\ k + 1 \in 1 .. (M + 1) /\ (k + 1) - 1 = k /\ k + 1 \in 0 .. M
      BY <2>1
    <3>2. w[k + 1] = StepOf(s, w[k], r.comps[k + 1]) /\ v[k + 1] = StepOf(s, v[k], p.comps[k + 1])
      BY <2>3, <2>4, <2>5, <3>1 DEF Walks
    <3>3. w[k] = v[k] /\ r.comps[k + 1] = p.comps[k + 1]
      BY <2>3, <2>7, <3>1
    <3> QED BY <3>1, <3>2, <3>3
  <2> HIDE DEF T
  <2>8. 0 .. M \subseteq T
    BY <2>1, <2>6, <2>7, SetInduction
  <2>9. w[M] = v[M]
    BY <2>1, <2>8 DEF T
  <2>10. M + 1 \in 1 .. (M + 1) /\ (M + 1) - 1 = M
    BY <2>1
  <2>11. w[M + 1] = StepOf(s, w[M], n)
    BY <2>3, <2>5, <2>10 DEF Walks
  <2>12. getino(s, ROOT, r) = w[M + 1] /\ getino(s, ROOT, p) = v[M]
    BY <2>3, <2>4, <2>5 DEF Walks
  <2>13. getino(s, ROOT, r) = StepOf(s, getino(s, ROOT, p), n)
    BY <2>9, <2>11, <2>12
  <2> QED BY <2>13 DEF p, r
<1> QED BY <1>1, <1>2

\* No entry is called "." or "..".
LEMMA EntryPlain ==
    ASSUME NEW d, Proper(d), NEW i \in Dirs(d), NEW e \in EntriesOf(d, i)
    PROVE  Plain(e.name)
<1>1. i \in Inos /\ i \in OpenDirs(d) /\ d.inode[i].block \in Blocks
  BY EntriesFinite, DirsOpen
<1>2. PICK r \in ListOf(d, i) : e = Entry(i, r.name, r.ino)
  BY EntriesOfIs
<1>3. Plain(r.name)
  BY <1>1, <1>2 DEF ListOf, Proper, Blocked, Listed
<1> QED BY <1>2, <1>3, EntryIs

\* A name leads to what has it.
LEMMA SearchFinds ==
    ASSUME NEW s, Crashable(s), NEW d, d = Seen(s), Sound(d), NEW i \in Dirs(d), NEW n, NEW j,
           Entry(i, n, j) \in EntriesOf(d, i)
    PROVE  StepOf(s, i, n) = j
<1> DEFINE x == search(s, i, n)
           e == Entry(i, n, j)
           f == Entry(i, n, x)
<1>1. Proper(d) /\ Treelike(d) /\ Distinct(d) /\ i \notin {0, STUCK}
  BY SeenProper, SoundIs, KnownIs, Numbers DEF Treelike, Known
<1>2. e.dir = i /\ e.name = n /\ e.ino = j /\ f.dir = i /\ f.name = n /\ f.ino = x
  BY EntryIs
<1>3. Plain(n)
  BY <1>1, <1>2, EntryPlain
<1>4. (x = 0 /\ \A y \in EntriesOf(d, i) : y.name # n) \/ f \in EntriesOf(d, i)
  BY <1>3, SearchDir DEF Plain
<1>5. StepOf(s, i, n) = x
  BY <1>1 DEF StepOf
<1> HIDE DEF x, f, e
<1>6. f \in EntriesOf(d, i) /\ e \in EntriesOf(d, i)
  BY <1>2, <1>4 DEF e
<1>7. e \in Entries(d) /\ f \in Entries(d)
  BY <1>2, <1>6, EntriesIs
<1>8. e = f
  BY <1>1, <1>2, <1>7 DEF Distinct
<1> QED BY <1>2, <1>5, <1>8

\* findmyname finds the name of a directory in the one above it.
LEMMA NameFound ==
    ASSUME NEW d, d = View, Treelike(d), NEW j \in Dirs(d) \ {ROOT}
    PROVE  LET i == UpOf(d, j) IN i \in Dirs(d) /\ Entry(i, findmyname(i, j), j) \in EntriesOf(d, i)
<1> DEFINE i == UpOf(d, j)
           found == {e \in EntriesOf(d, i) : e.ino = j}
           x == CHOOSE e \in found : TRUE
<1>1. PICK f \in Entries(d) : Named(Entries(d), j) = {f} /\ i = f.dir
  BY DEF Treelike, Hangs
<1>2. f.ino = j /\ f \in EntriesOf(d, i) /\ i \in Dirs(d)
  BY <1>1, EntriesIs DEF Named
<1>3. found # {}
  BY <1>2
<1>4. x \in found
  BY <1>3
<1>5. findmyname(i, j) = x.name
  BY <1>3 DEF findmyname
<1>6. x = Entry(i, x.name, j) /\ x \in EntriesOf(d, i)
  BY <1>4, EntriesOfIs
<1> HIDE DEF x, i
<1>7. Entry(i, findmyname(i, j), j) \in EntriesOf(d, i)
  BY <1>5, <1>6
<1> QED BY <1>2, <1>7 DEF i

\* The path of a directory, by its equation.
Downwards(d, h) ==
    \A j \in Dirs(d) :
        h[j] = IF j = ROOT THEN <<>>
               ELSE LET parent == search(Now, j, DotDot) IN Append(h[parent], findmyname(parent, j))

LEMMA PathsExist ==
    ASSUME NEW d, d = View, d = Seen(Now), Crashable(Now), Sound(d)
    PROVE  \E h \in [Dirs(d) -> Seq({e.name : e \in Entries(d)})] :
                Downwards(d, h) /\ \A i \in Dirs(d) : PathTo(i) = h[i]
<1> DEFINE N == {e.name : e \in Entries(d)}
           G == Seq(N)
           D == Dirs(d)
           name == [j \in D |-> findmyname(UpOf(d, j), j)]
           g == [j \in D |-> [q \in G |-> IF j = ROOT THEN q ELSE Append(q, name[j])]]
           Path(h) == [j \in D |->
                        IF j = ROOT THEN <<>>
                        ELSE LET parent == search(Now, j, DotDot)
                             IN  Append(h[parent], findmyname(parent, j))]
           path == CHOOSE h : h = Path(h)
<1>1. Treelike(d)
  BY SeenProper, SoundIs
<1>2. ASSUME NEW j \in D \ {ROOT} PROVE name[j] \in N
  <2> DEFINE e == Entry(UpOf(d, j), findmyname(UpOf(d, j), j), j)
  <2>1. UpOf(d, j) \in D /\ e \in EntriesOf(d, UpOf(d, j)) /\ e.dir = UpOf(d, j) /\ e.name = name[j]
    BY <1>1, NameFound, EntryIs
  <2> HIDE DEF e, name
  <2>2. e \in Entries(d)
    BY <2>1, EntriesIs
  <2> QED BY <2>1, <2>2
<1>3. g \in [D -> [G -> G]]
  <2> HIDE DEF name, N
  <2>1. ASSUME NEW j \in D, NEW q \in G PROVE (IF j = ROOT THEN q ELSE Append(q, name[j])) \in G
    BY <1>2, <2>1
  <2> HIDE DEF G
  <2> QED BY <2>1
<1>4. <<>> \in G
  OBVIOUS
<1>5. PICK h \in [D -> G] : Descends(d, <<>>, g, D, h)
  <2> HIDE DEF g, G
  <2> QED BY <1>1, <1>3, <1>4, TreeRecursion
<1>6. ASSUME NEW j \in D
      PROVE  h[j] = IF j = ROOT THEN <<>>
                    ELSE LET parent == search(Now, j, DotDot) IN Append(h[parent], findmyname(parent, j))
  <2>1. CASE j = ROOT
    BY <1>5, <2>1 DEF Descends
  <2>2. CASE j # ROOT
    <3> DEFINE higher == UpOf(d, j)
    <3>1. search(Now, j, DotDot) = higher
      BY <1>6, SearchDir
    <3>2. higher \in D /\ h[j] = g[j][h[higher]]
      BY <1>5, <1>6, <2>2 DEF Descends
    <3>3. h[higher] \in G
      BY <1>5, <3>2
    <3> HIDE DEF G
    <3>4. g[j][h[higher]] = Append(h[higher], findmyname(higher, j))
      BY <1>6, <2>2, <3>3
    <3> HIDE DEF higher, g
    <3>5. h[j] = Append(h[higher], findmyname(higher, j))
      BY <3>2, <3>4
    <3> QED BY <2>2, <3>1, <3>5
  <2> QED BY <2>1, <2>2
<1>7. Downwards(d, h)
  BY <1>6 DEF Downwards
<1>8. h = Path(h)
  <2> HIDE DEF G
  <2>1. h = [j \in D |-> h[j]]
    OBVIOUS
  <2> QED BY <1>6, <2>1, Zenon
<1> HIDE DEF g, G
<1>9. path = Path(path)
  <2> HIDE DEF Path
  <2>1. \E k : k = Path(k)
    BY <1>8
  <2> QED BY <2>1, Zenon
<1>10. \A i : PathTo(i) = path[i]
  BY Zenon DEF PathTo
<1>11. path = [j \in D |-> path[j]] /\ Downwards(d, path)
  <2> HIDE DEF path
  <2>1. DOMAIN path = D /\ path = [j \in D |-> path[j]]
    BY <1>9, Zenon
  <2> QED BY <1>9, <2>1, Zenon DEF Downwards
<1>12. ASSUME NEW i \in D PROVE path[i] = h[i]
  <2> HIDE DEF path
  <2> DEFINE A == {j \in D : path[j] = h[j]}
  <2>1. ROOT \in A
    BY <1>1, <1>7, <1>11 DEF Downwards, Treelike, RootOnTop
  <2>2. ASSUME NEW j \in D \ {ROOT}, UpOf(d, j) \in A PROVE j \in A
    <3>1. search(Now, j, DotDot) = UpOf(d, j)
      BY SearchDir
    <3> QED BY <1>7, <1>11, <2>2, <3>1 DEF Downwards
  <2> HIDE DEF A
  <2>3. D \subseteq A
    BY <1>1, <2>1, <2>2, TreeInduction
  <2> QED BY <1>12, <2>3 DEF A
<1> HIDE DEF path
<1> QED BY <1>5, <1>7, <1>10, <1>12 DEF G

LEMMA PathsLead ==
    ASSUME NEW d, d = View, d = Seen(Now), Crashable(Now), Sound(d), NEW i \in Dirs(d)
    PROVE  getino(Now, ROOT, Absolute(PathTo(i))) = i
<1> DEFINE N == {e.name : e \in Entries(d)}
           D == Dirs(d)
<1>1. PICK h \in [D -> Seq(N)] : Downwards(d, h) /\ \A j \in D : PathTo(j) = h[j]
  BY PathsExist
<1>2. Treelike(d)
  BY SeenProper, SoundIs
<1> DEFINE A == {j \in D : getino(Now, ROOT, Absolute(h[j])) = j}
<1>3. ROOT \in A
  <2>1. ROOT \in D /\ h[ROOT] = <<>>
    BY <1>1, <1>2 DEF Downwards, Treelike, RootOnTop
  <2> QED BY <2>1, AbsoluteSteps
<1>4. ASSUME NEW j \in D \ {ROOT}, UpOf(d, j) \in A PROVE j \in A
  <2> DEFINE higher == UpOf(d, j)
             n == findmyname(higher, j)
  <2>1. higher \in D /\ Entry(higher, n, j) \in EntriesOf(d, higher)
    BY <1>2, <1>4, NameFound
  <2>2. n \in N
    <3>1. Entry(higher, n, j).dir = higher /\ Entry(higher, n, j).name = n
      BY EntryIs
    <3>2. Entry(higher, n, j) \in Entries(d)
      BY <2>1, <3>1, EntriesIs
    <3> QED BY <3>1, <3>2
  <2>3. search(Now, j, DotDot) = higher
    BY <1>4, SearchDir
  <2> HIDE DEF higher, n, N
  <2>4. h[j] = Append(h[higher], n)
    BY <1>1, <1>4, <2>3 DEF Downwards, n
  <2>5. h[higher] \in Seq(N)
    BY <1>1, <2>1
  <2>6. getino(Now, ROOT, Absolute(Append(h[higher], n))) = StepOf(Now, getino(Now, ROOT, Absolute(h[higher])), n)
    BY <2>2, <2>5, AbsoluteSteps
  <2>7. getino(Now, ROOT, Absolute(h[higher])) = higher
    BY <1>4 DEF higher
  <2>8. StepOf(Now, higher, n) = j
    BY <2>1, SearchFinds
  <2> QED BY <1>4, <2>4, <2>6, <2>7, <2>8
<1> HIDE DEF A, N
<1>5. D \subseteq A
  BY <1>2, <1>3, <1>4, TreeInduction
<1>6. getino(Now, ROOT, Absolute(h[i])) = i
  BY <1>5 DEF A
<1> QED BY <1>1, <1>6

\* The path that pwd prints leads from the root to the directory that the process is in,
\* whatever has been made, removed and renumbered on the way.
THEOREM PwdResolvesAlways == Spec => []PwdResolves
<1>1. NameInv => PwdResolves
  <2> SUFFICES ASSUME NameInv, Claimed, up = "up", NEW p \in Procs, proc[p].status = "READY"
               PROVE  getino(Now, ROOT, Absolute(PathTo(proc[p].cwd))) = proc[p].cwd
    BY DEF PwdResolves, Absolute
  <2>1. Settled(Now) /\ View = Seen(Now) /\ CwdsOf(proc) \subseteq Dirs(Seen(Now))
    BY CwdIsKnown DEF NameInv
  <2>2. proc[p].cwd \in Dirs(View)
    BY <2>1 DEF CwdsOf
  <2> QED BY <2>1, <2>2, PathsLead DEF Settled
<1>2. NameInv /\ [Next]_vars => NameInv'
  BY NameInvStep DEF Steps
<1> QED BY <1>1, <1>2, NameInvInit, PTL DEF Spec

===============================================================================
