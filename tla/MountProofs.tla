------------------------------ MODULE MountProofs ------------------------------
(***************************************************************************)
(* Proofs about Mount for every set of images, every tree on them, every   *)
(* set of path names, and every number of slots, entries and descriptors.  *)
(*                                                                         *)
(* A command is a composition of iget and iput, each a function from a     *)
(* state within a command to the next.  Between the state b that a walk    *)
(* begins in and any state s of it, only the references have changed that  *)
(* the walk holds, and only slots nobody references have been loaded       *)
(* (Kept and Held); a walk that does not die gives back all but the MINODE *)
(* it was made for.                                                        *)
(***************************************************************************)
EXTENDS Mount, InductionLemmas, FiniteSetTheorems, TLAPS

SlotRecs == [dev : Devs \cup {NONE}, ino : Nat, of : Disks \cup {NoDisk}, ref : Int,
             mounted : Tables \cup {NONE}]
TableRecs == [dev : Devs \cup {NONE}, name : Disks \cup {NoDisk}, at : Slots \cup {NONE}]
States == [minode : [Slots -> SlotRecs], dev : Devs \cup {NONE}, cwd : Slots,
           mtable : [Tables -> TableRecs], host : [Devs -> Disks \cup {NoDisk}],
           mip : Slots, ino : Nat, died : BOOLEAN]

\* What a walk relies on in the state b it begins in: the root, the place it begins at and
\* the mount points are referenced, and the mount points are directories.
Ready(b) ==
    /\ b.dev \in Devs /\ b.minode[ROOT].ref > 0 /\ b.minode[b.cwd].ref > 0
    /\ \A i \in Slots : /\ b.minode[i].ref \in Nat
                        /\ b.minode[i].ref > 0 => b.minode[i].dev \in Devs
    /\ \A i \in Slots : b.minode[i].mounted # NONE =>
            b.minode[i].ref > 0 /\ b.mtable[b.minode[i].mounted].dev # NONE
    /\ \A t \in Tables : b.mtable[t].dev # NONE =>
            /\ b.mtable[t].at \in Slots /\ b.minode[b.mtable[t].at].ref > 0
            /\ IsDir(b.minode[b.mtable[t].at])

\* A walk leaves the tables, the marks and every referenced MINODE as they were.
Kept(b, s) ==
    /\ s.mtable = b.mtable /\ s.host = b.host /\ s.cwd = b.cwd /\ s.dev \in Devs
    /\ \A i \in Slots :
            /\ s.minode[i].mounted = b.minode[i].mounted
            /\ b.minode[i].ref > 0 => /\ s.minode[i].dev = b.minode[i].dev
                                      /\ s.minode[i].ino = b.minode[i].ino
                                      /\ s.minode[i].of = b.minode[i].of
            /\ s.minode[i].ref > 0 => s.minode[i].dev \in Devs

\* A walk holds n references more than there were, all to the MINODE in hand.
Held(b, s, n) ==
    \A i \in Slots : s.minode[i].ref = b.minode[i].ref + (IF i = s.mip THEN n ELSE 0)

Walk(b, n) == {s \in States : s.died = TRUE \/ (Kept(b, s) /\ Held(b, s, n))}

-------------------------------------------------------------------------------
LEMMA Constants ==
    /\ NMINODE \in Nat \ {0} /\ NMTABLE \in Nat /\ NHOST \in Nat \ {0}
    /\ Slots \subseteq Nat \ {0} /\ Tables \subseteq Nat \ {0} /\ Devs \subseteq Nat \ {0}
    /\ NONE \notin Slots /\ NONE \notin Tables /\ NONE \notin Devs
    /\ ROOT \in Slots /\ ROOTDEV \in Devs /\ ROOTINO \in Nat /\ ROOTINO # 0
    /\ NoDisk \notin Disks /\ RootDisk \in Disks
BY MountAssumption DEF Slots, Tables, Devs, NONE, ROOT, ROOTDEV, ROOTINO, Disks

LEMMA LeastIn ==
    ASSUME NEW S \in SUBSET Nat, S # {}
    PROVE  Least(S) \in S
BY LeastNat DEF Least

\* The entries of a directory that is in use carry inode numbers, and ".." is among them.
LEMMA Directories ==
    ASSUME NEW slot, IsDir(slot)
    PROVE  /\ Tree[slot.of][slot.ino] \in Seq(STRING \X (Nat \ {0}))
           /\ \E k \in DOMAIN Tree[slot.of][slot.ino] : Tree[slot.of][slot.ino][k][1] = ".."
BY MountAssumption DEF IsDir, IsDirectory

LEMMA SearchFinds ==
    ASSUME NEW slot, NEW name
    PROVE  /\ search(slot, name) \in Nat
           /\ IsDir(slot) => search(slot, "..") # 0
<1>1. CASE ~IsDir(slot)
  BY <1>1 DEF search
<1>2. CASE IsDir(slot)
  <2> DEFINE entries == Tree[slot.of][slot.ino]
             Found(n) == {entries[k][2] : k \in {j \in DOMAIN entries : entries[j][1] = n}}
  <2>1. entries \in Seq(STRING \X (Nat \ {0})) /\ \E k \in DOMAIN entries : entries[k][1] = ".."
    BY <1>2, Directories
  <2>2. \A n : search(slot, n) = IF Found(n) = {} THEN 0 ELSE CHOOSE ino \in Found(n) : TRUE
    BY <1>2 DEF search
  <2> HIDE DEF entries
  <2>3. \A n : Found(n) \subseteq Nat \ {0}
    BY <2>1
  <2>4. Found("..") # {}
    BY <2>1
  <2> HIDE DEF Found
  <2>5. \A n : search(slot, n) = 0 \/ search(slot, n) \in Found(n)
    BY <2>2
  <2>6. search(slot, "..") \in Found("..")
    BY <2>2, <2>4
  <2> QED BY <2>3, <2>5, <2>6
<1> QED BY <1>1, <1>2

-------------------------------------------------------------------------------
\* What assignments to the parts of a state make of it.
SameButSlots(s, r) ==
    /\ r.dev = s.dev /\ r.cwd = s.cwd /\ r.mtable = s.mtable /\ r.host = s.host
    /\ r.mip = s.mip /\ r.ino = s.ino /\ r.died = s.died

RefAdded(s, r, i, n) ==
    \A j \in Slots :
        /\ r.minode[j].ref = s.minode[j].ref + (IF j = i THEN n ELSE 0)
        /\ r.minode[j].dev = s.minode[j].dev /\ r.minode[j].ino = s.minode[j].ino
        /\ r.minode[j].of = s.minode[j].of /\ r.minode[j].mounted = s.minode[j].mounted

Marked(s, r, i, t) ==
    \A j \in Slots :
        /\ r.minode[j].mounted = IF j = i THEN t ELSE s.minode[j].mounted
        /\ r.minode[j].dev = s.minode[j].dev /\ r.minode[j].ino = s.minode[j].ino
        /\ r.minode[j].of = s.minode[j].of /\ r.minode[j].ref = s.minode[j].ref

\* Two states of a walk between which neither dev nor the inode number found changes.
SamePlace(s, r) == r.dev = s.dev /\ r.ino = s.ino

LEMMA SetSlotParts ==
    ASSUME NEW s \in States, NEW i \in Slots, NEW slot \in SlotRecs,
           NEW r, r = SetSlot(s, i, slot)
    PROVE  /\ r \in States /\ SameButSlots(s, r)
           /\ r.minode = [s.minode EXCEPT ![i] = slot]
<1> DEFINE m == [s.minode EXCEPT ![i] = slot]
<1>1. m \in [Slots -> SlotRecs]
  BY DEF States
<1>2. r = [s EXCEPT !.minode = m]
  BY DEF SetSlot
<1> HIDE DEF m
<1>3. r \in States /\ SameButSlots(s, r) /\ r.minode = m
  BY <1>1, <1>2 DEF States, SameButSlots
<1> QED BY <1>3 DEF m

LEMMA AddRefParts ==
    ASSUME NEW s \in States, NEW i \in Slots, NEW n \in Int, NEW r, r = AddRef(s, i, n)
    PROVE  r \in States /\ SameButSlots(s, r) /\ RefAdded(s, r, i, n)
<1> DEFINE slot == [s.minode[i] EXCEPT !.ref = s.minode[i].ref + n]
<1>1. s.minode \in [Slots -> SlotRecs]
  BY DEF States
<1>2. /\ slot \in SlotRecs /\ slot.ref = s.minode[i].ref + n
      /\ slot.dev = s.minode[i].dev /\ slot.ino = s.minode[i].ino
      /\ slot.of = s.minode[i].of /\ slot.mounted = s.minode[i].mounted
  BY <1>1 DEF SlotRecs
<1>3. r = SetSlot(s, i, slot)
  BY DEF AddRef
<1> HIDE DEF slot
<1>4. /\ r \in States /\ SameButSlots(s, r) /\ r.minode = [s.minode EXCEPT ![i] = slot]
  BY <1>2, <1>3, SetSlotParts
<1>5. \A j \in Slots : r.minode[j] = IF j = i THEN slot ELSE s.minode[j]
  BY <1>1, <1>4
<1>6. \A j \in Slots : s.minode[j].ref \in Int
  BY <1>1 DEF SlotRecs
<1> QED BY <1>2, <1>4, <1>5, <1>6 DEF RefAdded

LEMMA MarkParts ==
    ASSUME NEW s \in States, NEW i \in Slots, NEW t \in Tables \cup {NONE},
           NEW r, r = Mark(s, i, t)
    PROVE  r \in States /\ SameButSlots(s, r) /\ Marked(s, r, i, t)
<1> DEFINE slot == [s.minode[i] EXCEPT !.mounted = t]
<1>1. s.minode \in [Slots -> SlotRecs]
  BY DEF States
<1>2. /\ slot \in SlotRecs /\ slot.mounted = t
      /\ slot.dev = s.minode[i].dev /\ slot.ino = s.minode[i].ino
      /\ slot.of = s.minode[i].of /\ slot.ref = s.minode[i].ref
  BY <1>1 DEF SlotRecs
<1>3. r = SetSlot(s, i, slot)
  BY DEF Mark
<1> HIDE DEF slot
<1>4. /\ r \in States /\ SameButSlots(s, r) /\ r.minode = [s.minode EXCEPT ![i] = slot]
  BY <1>2, <1>3, SetSlotParts
<1>5. \A j \in Slots : r.minode[j] = IF j = i THEN slot ELSE s.minode[j]
  BY <1>1, <1>4
<1> QED BY <1>2, <1>4, <1>5 DEF Marked

LEMMA HandParts ==
    ASSUME NEW s \in States, NEW i \in Slots, NEW r, r = [s EXCEPT !.mip = i]
    PROVE  /\ r \in States /\ r.mip = i /\ r.minode = s.minode /\ r.dev = s.dev
           /\ r.cwd = s.cwd /\ r.mtable = s.mtable /\ r.host = s.host /\ r.ino = s.ino
           /\ r.died = s.died
BY DEF States

LEMMA InoParts ==
    ASSUME NEW s \in States, NEW ino \in Nat, NEW r, r = [s EXCEPT !.ino = ino]
    PROVE  /\ r \in States /\ r.ino = ino /\ r.minode = s.minode /\ r.dev = s.dev
           /\ r.cwd = s.cwd /\ r.mtable = s.mtable /\ r.host = s.host /\ r.mip = s.mip
           /\ r.died = s.died
BY DEF States

LEMMA OnDevParts ==
    ASSUME NEW s \in States, NEW d \in Devs \cup {NONE}, NEW r, r = OnDev(s, d)
    PROVE  /\ r \in States /\ r.dev = d /\ r.minode = s.minode /\ r.ino = s.ino
           /\ r.cwd = s.cwd /\ r.mtable = s.mtable /\ r.host = s.host /\ r.mip = s.mip
           /\ r.died = s.died
BY DEF States, OnDev

LEMMA CwdParts ==
    ASSUME NEW s \in States, NEW i \in Slots, NEW r, r = [s EXCEPT !.cwd = i]
    PROVE  /\ r \in States /\ r.cwd = i /\ r.minode = s.minode /\ r.ino = s.ino
           /\ r.dev = s.dev /\ r.mtable = s.mtable /\ r.host = s.host /\ r.mip = s.mip
           /\ r.died = s.died
BY DEF States

LEMMA DiedParts ==
    ASSUME NEW s \in States, NEW r, r = [s EXCEPT !.died = TRUE]
    PROVE  r \in States /\ r.died = TRUE
BY DEF States

LEMMA StateTypes ==
    ASSUME NEW s \in States
    PROVE  /\ s.minode \in [Slots -> SlotRecs] /\ s.dev \in Devs \cup {NONE} /\ s.cwd \in Slots
           /\ s.mtable \in [Tables -> TableRecs] /\ s.host \in [Devs -> Disks \cup {NoDisk}]
           /\ s.mip \in Slots /\ s.ino \in Nat /\ s.died \in BOOLEAN
BY DEF States

LEMMA SlotTypes ==
    ASSUME NEW s \in States, NEW i \in Slots
    PROVE  /\ s.minode[i].dev \in Devs \cup {NONE} /\ s.minode[i].ino \in Nat
           /\ s.minode[i].ref \in Int /\ s.minode[i].mounted \in Tables \cup {NONE}
           /\ s.minode[i].of \in Disks \cup {NoDisk}
BY StateTypes DEF SlotRecs

LEMMA TableTypes ==
    ASSUME NEW s \in States, NEW t \in Tables
    PROVE  /\ s.mtable[t].dev \in Devs \cup {NONE} /\ s.mtable[t].name \in Disks \cup {NoDisk}
           /\ s.mtable[t].at \in Slots \cup {NONE}
BY StateTypes DEF TableRecs

-------------------------------------------------------------------------------
\* iget and iput within a walk.
LEMMA HitWalk ==
    ASSUME NEW b \in States, Ready(b), NEW s \in Walk(b, 0), NEW i \in Slots,
           s.died = TRUE \/ s.minode[i].dev \in Devs, NEW r, r = Hit(s, i)
    PROVE  r \in Walk(b, 1) /\ r.mip = i /\ SamePlace(s, r)
<1> DEFINE q == AddRef(s, i, 1)
<1>1. s \in States
  BY DEF Walk
<1>2. q \in States /\ SameButSlots(s, q) /\ RefAdded(s, q, i, 1)
  BY <1>1, AddRefParts
<1>3. r = [q EXCEPT !.mip = i]
  BY DEF Hit
<1> HIDE DEF q
<1>4. /\ r \in States /\ r.mip = i /\ r.minode = q.minode /\ r.dev = q.dev
      /\ r.cwd = q.cwd /\ r.mtable = q.mtable /\ r.host = q.host /\ r.ino = q.ino
      /\ r.died = q.died
  BY <1>2, <1>3, HandParts
<1>5. ASSUME Kept(b, s), Held(b, s, 0), s.minode[i].dev \in Devs
      PROVE  Kept(b, r) /\ Held(b, r, 1)
  <2>1. \A j \in Slots : s.minode[j].ref = b.minode[j].ref /\ b.minode[j].ref \in Nat
    BY <1>5 DEF Held, Ready
  <2>2. Held(b, r, 1)
    BY <1>2, <1>4, <2>1 DEF Held, RefAdded
  <2>3. ASSUME NEW j \in Slots, r.minode[j].ref > 0
        PROVE  r.minode[j].dev \in Devs
    <3>1. CASE j = i
      BY <1>2, <1>4, <1>5, <3>1 DEF RefAdded
    <3>2. CASE j # i
      BY <1>2, <1>4, <1>5, <2>1, <2>3, <3>2 DEF Kept, RefAdded
    <3> QED BY <3>1, <3>2
  <2>4. Kept(b, r)
    BY <1>2, <1>4, <1>5, <2>3 DEF Kept, SameButSlots, RefAdded
  <2> QED BY <2>2, <2>4
<1>6. s.died = TRUE \/ (Kept(b, s) /\ Held(b, s, 0))
  BY DEF Walk
<1>7. r.died = s.died /\ SamePlace(s, r)
  BY <1>2, <1>4 DEF SameButSlots, SamePlace
<1> QED BY <1>4, <1>5, <1>6, <1>7 DEF Walk

LEMMA LoadWalk ==
    ASSUME NEW b \in States, Ready(b), NEW s \in Walk(b, 0), NEW i \in Slots,
           NEW device \in Devs, NEW ino \in Nat, s.minode[i].ref = 0,
           NEW r, r = Load(s, i, device, ino)
    PROVE  r \in Walk(b, 1) /\ r.mip = i /\ SamePlace(s, r)
<1> DEFINE slot == [dev |-> device, ino |-> ino, of |-> s.host[device], ref |-> 1,
                    mounted |-> s.minode[i].mounted]
           q == SetSlot(s, i, slot)
<1>1. s \in States
  BY DEF Walk
<1>2. slot \in SlotRecs
  BY <1>1, StateTypes, SlotTypes DEF SlotRecs
<1>3. r = [q EXCEPT !.mip = i]
  BY Zenon DEF Load
<1>4. slot.dev = device /\ slot.ref = 1 /\ slot.mounted = s.minode[i].mounted
  OBVIOUS
<1> HIDE DEF slot
<1>5. q \in States /\ SameButSlots(s, q) /\ q.minode = [s.minode EXCEPT ![i] = slot]
  BY <1>1, <1>2, SetSlotParts
<1> HIDE DEF q
<1>6. /\ r \in States /\ r.mip = i /\ r.minode = q.minode /\ r.dev = q.dev
      /\ r.cwd = q.cwd /\ r.mtable = q.mtable /\ r.host = q.host /\ r.ino = q.ino
      /\ r.died = q.died
  BY <1>3, <1>5, HandParts
<1>7. \A j \in Slots : r.minode[j] = IF j = i THEN slot ELSE s.minode[j]
  BY <1>1, <1>5, <1>6, StateTypes
<1>8. ASSUME Kept(b, s), Held(b, s, 0)
      PROVE  Kept(b, r) /\ Held(b, r, 1)
  <2>1. \A j \in Slots : s.minode[j].ref = b.minode[j].ref /\ b.minode[j].ref \in Nat
    BY <1>8 DEF Held, Ready
  <2>2. Held(b, r, 1)
    BY <1>4, <1>6, <1>7, <2>1 DEF Held
  <2>3. Kept(b, r)
    BY <1>4, <1>5, <1>6, <1>7, <1>8, <2>1 DEF Kept, SameButSlots
  <2> QED BY <2>2, <2>3
<1>9. s.died = TRUE \/ (Kept(b, s) /\ Held(b, s, 0))
  BY DEF Walk
<1>10. r.died = s.died /\ SamePlace(s, r)
  BY <1>5, <1>6 DEF SameButSlots, SamePlace
<1> QED BY <1>6, <1>8, <1>9, <1>10 DEF Walk

LEMMA IgetWalk ==
    ASSUME NEW b \in States, Ready(b), NEW s \in Walk(b, 0), NEW device \in Devs,
           NEW ino \in Nat, NEW r, r = iget(s, device, ino)
    PROVE  r \in Walk(b, 1) /\ (r.died = TRUE \/ SamePlace(s, r))
<1> DEFINE hit == {i \in Slots : s.minode[i].dev = device /\ s.minode[i].ino = ino}
           free == {i \in Slots : s.minode[i].ref = 0}
<1>1. s \in States
  BY DEF Walk
<1>2. hit \in SUBSET Nat /\ free \in SUBSET Nat /\ hit \subseteq Slots /\ free \subseteq Slots
  BY Constants
<1>3. r = IF hit # {} THEN Hit(s, Least(hit))
          ELSE IF free # {} THEN Load(s, Least(free), device, ino)
          ELSE [s EXCEPT !.died = TRUE]
  BY Zenon DEF iget
<1>4. \A i \in hit : i \in Slots /\ s.minode[i].dev = device
  OBVIOUS
<1>5. \A i \in free : i \in Slots /\ s.minode[i].ref = 0
  OBVIOUS
<1> HIDE DEF hit, free
<1>6. CASE hit # {}
  <2>1. Least(hit) \in hit
    BY <1>2, <1>6, LeastIn
  <2>2. r = Hit(s, Least(hit))
    BY <1>3, <1>6
  <2>3. Least(hit) \in Slots /\ s.minode[Least(hit)].dev \in Devs
    BY <1>4, <2>1
  <2> HIDE DEF hit
  <2> QED BY <2>2, <2>3, HitWalk
<1>7. CASE hit = {} /\ free # {}
  <2>1. Least(free) \in free
    BY <1>2, <1>7, LeastIn
  <2>2. r = Load(s, Least(free), device, ino)
    BY <1>3, <1>7
  <2> QED BY <1>5, <2>1, <2>2, LoadWalk
<1>8. CASE hit = {} /\ free = {}
  <2>1. r = [s EXCEPT !.died = TRUE]
    BY <1>3, <1>8
  <2>2. r \in States /\ r.died = TRUE
    BY <1>1, <2>1, DiedParts
  <2> QED BY <2>2 DEF Walk
<1> QED BY <1>6, <1>7, <1>8

LEMMA IputWalk ==
    ASSUME NEW b \in States, Ready(b), NEW s \in Walk(b, 1), NEW r, r = iput(s, s.mip)
    PROVE  r \in Walk(b, 0) /\ r.mip = s.mip /\ SamePlace(s, r)
<1>1. s \in States /\ s.mip \in Slots
  BY StateTypes DEF Walk
<1>2. r \in States /\ SameButSlots(s, r) /\ RefAdded(s, r, s.mip, -1)
  <2>1. r = AddRef(s, s.mip, -1) /\ -1 \in Int
    BY DEF iput
  <2> QED BY <1>1, <2>1, AddRefParts
<1>3. ASSUME Kept(b, s), Held(b, s, 1)
      PROVE  Kept(b, r) /\ Held(b, r, 0)
  <2>1. \A j \in Slots : b.minode[j].ref \in Nat
    BY DEF Ready
  <2>2. \A j \in Slots : r.minode[j].ref = b.minode[j].ref
    BY <1>2, <1>3, <2>1 DEF Held, RefAdded
  <2>3. Held(b, r, 0)
    BY <2>1, <2>2 DEF Held
  <2>4. \A j \in Slots : r.minode[j].ref > 0 => s.minode[j].ref > 0
    BY <1>3, <2>1, <2>2 DEF Held
  <2>5. Kept(b, r)
    BY <1>2, <1>3, <2>4 DEF Kept, SameButSlots, RefAdded
  <2> QED BY <2>3, <2>5
<1>4. s.died = TRUE \/ (Kept(b, s) /\ Held(b, s, 1))
  BY DEF Walk
<1> QED BY <1>2, <1>3, <1>4 DEF Walk, SameButSlots, SamePlace

-------------------------------------------------------------------------------
\* A path name: what a walk along it makes of a state in which it may begin.
LEMMA OnDevWalk ==
    ASSUME NEW b \in States, NEW s \in Walk(b, 0), NEW d \in Devs, NEW r, r = OnDev(s, d)
    PROVE  r \in Walk(b, 0)
<1>1. s \in States /\ (s.died = TRUE \/ (Kept(b, s) /\ Held(b, s, 0)))
  BY DEF Walk
<1>2. /\ r \in States /\ r.dev = d /\ r.minode = s.minode /\ r.cwd = s.cwd
      /\ r.mtable = s.mtable /\ r.host = s.host /\ r.mip = s.mip /\ r.died = s.died
  BY <1>1, OnDevParts
<1>3. Kept(b, s) => Kept(b, r)
  BY <1>2 DEF Kept
<1>4. Held(b, s, 0) => Held(b, r, 0)
  BY <1>2 DEF Held
<1> QED BY <1>1, <1>2, <1>3, <1>4 DEF Walk

LEMMA InoWalk ==
    ASSUME NEW b \in States, NEW n, NEW s \in Walk(b, n), NEW ino \in Nat,
           NEW r, r = [s EXCEPT !.ino = ino]
    PROVE  r \in Walk(b, n) /\ r.ino = ino /\ r.died = s.died
<1>1. s \in States /\ (s.died = TRUE \/ (Kept(b, s) /\ Held(b, s, n)))
  BY DEF Walk
<1>2. /\ r \in States /\ r.ino = ino /\ r.minode = s.minode /\ r.dev = s.dev
      /\ r.cwd = s.cwd /\ r.mtable = s.mtable /\ r.host = s.host /\ r.mip = s.mip
      /\ r.died = s.died
  BY <1>1, InoParts
<1>3. Kept(b, s) => Kept(b, r)
  BY <1>2 DEF Kept
<1>4. Held(b, s, n) => Held(b, r, n)
  BY <1>2 DEF Held
<1> QED BY <1>1, <1>2, <1>3, <1>4 DEF Walk

\* A walk that has failed has nothing in hand; another one has one MINODE.
Walking(b) == {s \in States : \/ s.died = TRUE
                              \/ s.ino = 0 /\ s \in Walk(b, 0)
                              \/ s.ino # 0 /\ s \in Walk(b, 1)}

LEMMA EnterWalk ==
    ASSUME NEW b \in States, Ready(b), NEW s \in Walk(b, 0), NEW device \in Devs,
           NEW ino \in Nat \ {0}, NEW r, r = Enter(s, device, ino)
    PROVE  r \in Walk(b, 1) /\ r \in Walking(b) /\ r.ino = ino
<1> DEFINE p == OnDev(s, device)
           q == iget(p, device, ino)
<1>1. r = [q EXCEPT !.ino = ino]
  BY DEF Enter
<1>2. p \in Walk(b, 0)
  BY OnDevWalk
<1> HIDE DEF p
<1>3. q \in Walk(b, 1)
  BY <1>2, IgetWalk
<1> HIDE DEF q
<1>4. r \in Walk(b, 1) /\ r.ino = ino
  BY <1>1, <1>3, InoWalk
<1> QED BY <1>4 DEF Walk, Walking

LEMMA EndOfWalkHolds ==
    ASSUME NEW b \in States, Ready(b), NEW s \in Walking(b), NEW r, r = EndOfWalk(s)
    PROVE  r \in Walk(b, 0)
<1>1. CASE s.died = TRUE
  BY <1>1 DEF Walking, Walk, EndOfWalk
<1>2. CASE s.died # TRUE /\ s.ino = 0
  BY <1>2 DEF Walking, EndOfWalk
<1>3. CASE s.died # TRUE /\ s.ino # 0
  <2>1. s \in Walk(b, 1) /\ s.died = FALSE
    BY <1>3, StateTypes DEF Walking
  <2>2. r = iput(s, s.mip)
    BY <1>3, <2>1 DEF EndOfWalk
  <2> QED BY <2>1, <2>2, IputWalk
<1> QED BY <1>1, <1>2, <1>3

\* A referenced MINODE of a walk is the one it was when the walk began.
LEMMA PointHolds ==
    ASSUME NEW b \in States, Ready(b), NEW s, Kept(b, s), NEW t \in Tables,
           s.mtable[t].dev # NONE, NEW point, point = s.minode[s.mtable[t].at]
    PROVE  point.dev \in Devs /\ IsDir(point)
<1>1. s.mtable[t].at \in Slots /\ b.minode[s.mtable[t].at].ref > 0
      /\ IsDir(b.minode[s.mtable[t].at])
  BY DEF Kept, Ready
<1> QED BY <1>1 DEF Kept, Ready, IsDir

LEMMA BesideWalk ==
    ASSUME NEW b \in States, Ready(b), NEW s \in Walk(b, 0), NEW point,
           point.dev \in Devs, IsDir(point), NEW r, r = Beside(s, point)
    PROVE  r \in Walking(b)
<1>1. search(point, "..") \in Nat \ {0}
  BY SearchFinds
<1> QED BY <1>1, EnterWalk DEF Beside

\* A state of a walk that has not died.
LEMMA Alive ==
    ASSUME NEW b \in States, Ready(b), NEW s \in Walk(b, 1), s.died # TRUE
    PROVE  /\ s \in States /\ Kept(b, s) /\ Held(b, s, 1) /\ s.mip \in Slots
           /\ s.minode[s.mip].dev \in Devs /\ s.dev \in Devs
<1>1. s \in States /\ Kept(b, s) /\ Held(b, s, 1) /\ s.mip \in Slots
  BY StateTypes DEF Walk
<1>2. b.minode[s.mip].ref \in Nat
  BY <1>1 DEF Ready
<1>3. s.minode[s.mip].ref > 0
  BY <1>1, <1>2 DEF Held
<1> QED BY <1>1, <1>3 DEF Kept

LEMMA StepUpWalk ==
    ASSUME NEW b \in States, Ready(b), NEW s \in Walk(b, 1), s.died # TRUE,
           NEW tables, tables = TableOf(s, s.minode[s.mip].dev), NEW r, r = StepUp(s, tables)
    PROVE  r \in Walking(b)
<1>1. s \in States /\ Kept(b, s) /\ s.minode[s.mip].dev \in Devs
  BY Alive
<1>2. CASE tables = {}
  <2>1. r = [s EXCEPT !.died = TRUE]
    BY <1>2 DEF StepUp
  <2>2. r \in States /\ r.died = TRUE
    BY <1>1, <2>1, DiedParts
  <2> QED BY <2>2 DEF Walking
<1>3. CASE tables # {}
  <2> DEFINE t == Least(tables)
             point == s.minode[s.mtable[t].at]
             q == iput(s, s.mip)
  <2>1. tables \in SUBSET Nat
    BY Constants DEF TableOf
  <2>2. t \in tables
    BY <1>3, <2>1, LeastIn
  <2> HIDE DEF t
  <2>3. t \in Tables /\ s.mtable[t].dev # NONE
    BY <1>1, <2>2, Constants DEF TableOf
  <2>4. r = Beside(q, point)
    BY <1>3, Zenon DEF StepUp, CrossUp, t
  <2>5. point.dev \in Devs /\ IsDir(point)
    BY <1>1, <2>3, PointHolds
  <2>6. q \in Walk(b, 0)
    BY IputWalk
  <2> HIDE DEF point, q
  <2> QED BY <2>4, <2>5, <2>6, BesideWalk
<1> QED BY <1>2, <1>3

LEMMA CrossDownWalk ==
    ASSUME NEW b \in States, Ready(b), NEW s \in Walk(b, 1), s \in Walking(b),
           NEW r, r = CrossDown(s)
    PROVE  r \in Walking(b)
<1>1. CASE s.died = TRUE \/ s.minode[s.mip].mounted = NONE
  BY <1>1 DEF CrossDown
<1>2. CASE s.died # TRUE /\ s.minode[s.mip].mounted # NONE
  <2> DEFINE t == s.minode[s.mip].mounted
             q == iput(s, s.mip)
  <2>1. s \in States /\ Kept(b, s) /\ s.mip \in Slots
    BY <1>2, Alive
  <2>2. t \in Tables
    BY <1>2, <2>1, SlotTypes
  <2>3. s.mtable[t].dev \in Devs
    <3>1. s.mtable[t].dev # NONE
      BY <1>2, <2>1 DEF Kept, Ready
    <3> QED BY <2>1, <2>2, <3>1, TableTypes
  <2>4. q \in Walk(b, 0)
    BY IputWalk
  <2>5. r = Enter(q, s.mtable[t].dev, ROOTINO)
    BY <1>2, <2>1, StateTypes DEF CrossDown
  <2>6. PICK d \in Devs : r = Enter(q, d, ROOTINO)
    BY <2>3, <2>5
  <2>7. ROOTINO \in Nat \ {0}
    BY Constants
  <2> HIDE DEF q
  <2> QED BY <2>4, <2>6, <2>7, EnterWalk
<1> QED BY <1>1, <1>2

LEMMA StepDownWalk ==
    ASSUME NEW b \in States, Ready(b), NEW s \in Walk(b, 1), s.died # TRUE, NEW ino \in Nat,
           NEW r, r = StepDown(s, ino)
    PROVE  r \in Walking(b)
<1> DEFINE q == iput(s, s.mip)
<1>1. q \in Walk(b, 0)
  BY IputWalk
<1>2. s.dev \in Devs
  BY Alive
<1>3. CASE ino = 0
  <2>1. r = [q EXCEPT !.ino = 0] /\ 0 \in Nat
    BY <1>3 DEF StepDown
  <2> HIDE DEF q
  <2>2. r \in Walk(b, 0) /\ r.ino = 0
    BY <1>1, <2>1, InoWalk
  <2> QED BY <2>2 DEF Walk, Walking
<1>4. CASE ino # 0
  <2> DEFINE p == Enter(q, s.dev, ino)
  <2>1. r = CrossDown(p)
    BY <1>4 DEF StepDown
  <2> HIDE DEF q
  <2>2. p \in Walk(b, 1) /\ p \in Walking(b)
    BY <1>1, <1>2, <1>4, EnterWalk
  <2> HIDE DEF p
  <2> QED BY <2>1, <2>2, CrossDownWalk
<1> QED BY <1>3, <1>4

LEMMA StepWalk ==
    ASSUME NEW b \in States, Ready(b), NEW s \in Walking(b), NEW name, NEW r, r = Step(s, name)
    PROVE  r \in Walking(b)
<1>1. CASE s.died = TRUE \/ s.ino = 0
  BY <1>1 DEF Step
<1>2. CASE s.died # TRUE /\ s.ino # 0
  <2>1. s \in Walk(b, 1) /\ s.died = FALSE
    BY <1>2, StateTypes DEF Walking
  <2>2. CASE name = ".." /\ AtDiskRoot(s)
    <3>1. r = StepUp(s, TableOf(s, s.minode[s.mip].dev))
      BY <1>2, <2>1, <2>2 DEF Step
    <3> QED BY <1>2, <2>1, <3>1, StepUpWalk
  <2>3. CASE ~(name = ".." /\ AtDiskRoot(s))
    <3>1. r = StepDown(s, search(s.minode[s.mip], name))
      BY <1>2, <2>1, <2>3 DEF Step
    <3>2. search(s.minode[s.mip], name) \in Nat
      BY SearchFinds
    <3> QED BY <1>2, <2>1, <3>1, <3>2, StepDownWalk
  <2> QED BY <2>2, <2>3
<1> QED BY <1>1, <1>2

\* The state a walk begins in is one of its own.
LEMMA BeginsItself ==
    ASSUME NEW b \in States, Ready(b)
    PROVE  b \in Walk(b, 0)
<1>1. Held(b, b, 0)
  BY DEF Held, Ready
<1>2. Kept(b, b)
  BY DEF Kept, Ready
<1> QED BY <1>1, <1>2 DEF Walk

LEMMA BeginWalk ==
    ASSUME NEW b \in States, Ready(b), NEW start \in {ROOT, b.cwd}, NEW r, r = Begin(b, start)
    PROVE  r \in Walking(b)
<1> DEFINE p == OnDev(b, b.minode[start].dev)
           q == Hit(p, start)
<1>1. start \in Slots /\ b.minode[start].dev \in Devs
  BY Constants, StateTypes DEF Ready
<1>2. b \in Walk(b, 0)
  BY BeginsItself
<1>3. p \in Walk(b, 0) /\ p.minode = b.minode
  BY <1>1, <1>2, OnDevWalk, OnDevParts
<1>4. r = [q EXCEPT !.ino = ROOTINO]
  BY DEF Begin
<1> HIDE DEF p
<1>5. q \in Walk(b, 1)
  BY <1>1, <1>3, HitWalk
<1> HIDE DEF q
<1>6. r \in Walk(b, 1) /\ r.ino = ROOTINO
  BY <1>4, <1>5, Constants, InoWalk
<1> QED BY <1>6, Constants DEF Walk, Walking

\* getino takes one step for every name of the path.
LEMMA GetinoWalk ==
    ASSUME NEW b \in States, Ready(b), NEW path, path.absolute \in BOOLEAN,
           Len(path.names) \in Nat, NEW r, r = getino(b, path)
    PROVE  r \in Walk(b, 0)
<1> DEFINE N == Len(path.names)
           start == Begin(b, IF path.absolute THEN ROOT ELSE b.cwd)
           g == [n \in 1 .. N |-> [x \in Walking(b) |-> Step(x, path.names[n])]]
           Loop(h) == [k \in 0 .. N |->
                        IF k = 0 THEN Begin(b, IF path.absolute THEN ROOT ELSE b.cwd)
                        ELSE Step(h[k - 1], path.names[k])]
           walk == CHOOSE h : h = Loop(h)
<1>1. N \in Nat
  OBVIOUS
<1>2. start \in Walking(b)
  BY BeginWalk
<1>3. \A x \in Walking(b), n \in 1 .. N : Step(x, path.names[n]) \in Walking(b)
  BY StepWalk
<1>4. r = IF path = Slash THEN [b EXCEPT !.ino = ROOTINO] ELSE EndOfWalk(walk[N])
  BY Zenon DEF getino
<1> HIDE DEF N, start
<1>5. \E h : h = Loop(h)
  <2>1. g \in [1 .. N -> [Walking(b) -> Walking(b)]]
    BY <1>3
  <2> HIDE DEF g
  <2>2. HasRecursion(N, Walking(b), start, g)
    BY <1>1, <1>2, <2>1, RecursionExists
  <2>3. PICK h \in [0 .. N -> Walking(b)] :
            h[0] = start /\ \A n \in 1 .. N : h[n] = g[n][h[n - 1]]
    BY <2>2 DEF HasRecursion
  <2>4. \A n \in 1 .. N : h[n] = Step(h[n - 1], path.names[n])
    <3> SUFFICES ASSUME NEW n \in 1 .. N PROVE h[n] = Step(h[n - 1], path.names[n])
      OBVIOUS
    <3>1. n - 1 \in 0 .. N
      BY <1>1
    <3>2. h[n - 1] \in Walking(b)
      BY <3>1
    <3>3. g[n][h[n - 1]] = Step(h[n - 1], path.names[n])
      BY <3>2 DEF g
    <3> QED BY <2>3, <3>3
  <2>5. h = Loop(h)
    BY <1>1, <2>3, <2>4 DEF start
  <2> QED BY <2>5
<1>6. walk = Loop(walk)
  BY <1>5, Zenon
<1> HIDE DEF walk
<1>7. walk[0] = start /\ \A n \in 1 .. N : walk[n] = Step(walk[n - 1], path.names[n])
  BY <1>1, <1>6 DEF start
<1>8. \A n \in 0 .. N : walk[n] \in Walking(b)
  BY <1>1, <1>2, <1>3, <1>7, LoopStays
<1>9. CASE path = Slash
  <2>1. b \in Walk(b, 0)
    BY BeginsItself
  <2>2. r = [b EXCEPT !.ino = ROOTINO]
    BY <1>4, <1>9
  <2> QED BY <2>1, <2>2, Constants, InoWalk
<1>10. CASE path # Slash
  <2>1. r = EndOfWalk(walk[N]) /\ walk[N] \in Walking(b)
    BY <1>1, <1>4, <1>8, <1>10
  <2> QED BY <2>1, EndOfWalkHolds
<1> QED BY <1>9, <1>10

\* The MINODE of a path name is the one thing held when the walk has ended.
LEMMA NamedWalk ==
    ASSUME NEW b \in States, Ready(b), NEW path, path.absolute \in BOOLEAN,
           Len(path.names) \in Nat, NEW r, r = Named(b, path)
    PROVE  r \in Walk(b, 1)
<1> DEFINE s == getino(b, path)
<1>1. s \in Walk(b, 0)
  BY GetinoWalk
<1>2. r = InHand(s)
  BY DEF Named
<1> HIDE DEF s
<1>3. CASE s.died = TRUE
  BY <1>1, <1>2, <1>3 DEF InHand, Walk
<1>4. CASE s.died # TRUE
  <2>1. s \in States /\ s.dev \in Devs /\ s.ino \in Nat /\ s.died = FALSE
    BY <1>1, <1>4, StateTypes DEF Walk, Kept
  <2>2. r = iget(s, s.dev, s.ino)
    BY <1>2, <2>1 DEF InHand
  <2> QED BY <1>1, <2>1, <2>2, IgetWalk
<1> QED BY <1>3, <1>4

-------------------------------------------------------------------------------
\* Walks within walks: what a walk leaves is a state in which another may begin.
LEMMA RefsGrow ==
    ASSUME NEW b \in States, Ready(b), NEW n \in {0, 1}, NEW s \in Walk(b, n), s.died # TRUE
    PROVE  /\ s \in States /\ Kept(b, s) /\ Held(b, s, n)
           /\ \A i \in Slots : /\ s.minode[i].ref \in Nat /\ b.minode[i].ref \in Nat
                               /\ b.minode[i].ref > 0 => s.minode[i].ref > 0
<1>1. s \in States /\ Kept(b, s) /\ Held(b, s, n)
  BY DEF Walk
<1>2. ASSUME NEW i \in Slots
      PROVE  /\ s.minode[i].ref \in Nat /\ b.minode[i].ref \in Nat
             /\ b.minode[i].ref > 0 => s.minode[i].ref > 0
  <2>1. b.minode[i].ref \in Nat
    BY DEF Ready
  <2>2. s.minode[i].ref = b.minode[i].ref + (IF i = s.mip THEN n ELSE 0)
    BY <1>1 DEF Held
  <2> QED BY <2>1, <2>2
<1> QED BY <1>1, <1>2

LEMMA ReadyAgain ==
    ASSUME NEW b \in States, Ready(b), NEW n \in {0, 1}, NEW s \in Walk(b, n), s.died # TRUE
    PROVE  Ready(s)
<1>1. /\ s \in States /\ Kept(b, s)
      /\ \A i \in Slots : /\ s.minode[i].ref \in Nat /\ b.minode[i].ref \in Nat
                          /\ b.minode[i].ref > 0 => s.minode[i].ref > 0
  BY RefsGrow
<1>2. s.dev \in Devs /\ s.minode[ROOT].ref > 0 /\ s.minode[s.cwd].ref > 0
  BY <1>1, StateTypes, Constants DEF Kept, Ready
<1>3. \A i \in Slots : /\ s.minode[i].ref \in Nat
                       /\ s.minode[i].ref > 0 => s.minode[i].dev \in Devs
  BY <1>1 DEF Kept
<1>4. \A i \in Slots : s.minode[i].mounted # NONE =>
            s.minode[i].ref > 0 /\ s.mtable[s.minode[i].mounted].dev # NONE
  BY <1>1 DEF Kept, Ready
<1>5. ASSUME NEW t \in Tables, s.mtable[t].dev # NONE
      PROVE  /\ s.mtable[t].at \in Slots /\ s.minode[s.mtable[t].at].ref > 0
             /\ IsDir(s.minode[s.mtable[t].at])
  <2>1. IsDir(s.minode[s.mtable[t].at])
    BY <1>1, <1>5, PointHolds
  <2>2. s.mtable[t].at \in Slots /\ b.minode[s.mtable[t].at].ref > 0
    BY <1>1, <1>5 DEF Kept, Ready
  <2> QED BY <1>1, <2>1, <2>2
<1> QED BY <1>2, <1>3, <1>4, <1>5 DEF Ready

LEMMA KeptTwice ==
    ASSUME NEW b, NEW s, NEW r, Kept(b, s), Kept(s, r),
           \A i \in Slots : b.minode[i].ref > 0 => s.minode[i].ref > 0
    PROVE  Kept(b, r)
BY DEF Kept

\* A walk made with one MINODE in hand, which is given back after it.
LEMMA PutBack ==
    ASSUME NEW b \in States, Ready(b), NEW s \in Walk(b, 1), s.died # TRUE,
           NEW r \in Walk(s, 0), NEW q, q = iput(r, s.mip)
    PROVE  q \in Walk(b, 0)
<1>1. /\ s \in States /\ Kept(b, s) /\ Held(b, s, 1) /\ s.mip \in Slots
      /\ \A i \in Slots : /\ s.minode[i].ref \in Nat /\ b.minode[i].ref \in Nat
                          /\ b.minode[i].ref > 0 => s.minode[i].ref > 0
  BY RefsGrow, StateTypes
<1>2. r \in States /\ (r.died = TRUE \/ (Kept(s, r) /\ Held(s, r, 0)))
  BY DEF Walk
<1>3. q \in States /\ SameButSlots(r, q) /\ RefAdded(r, q, s.mip, -1)
  <2>1. q = AddRef(r, s.mip, -1) /\ -1 \in Int
    BY DEF iput
  <2> QED BY <1>1, <1>2, <2>1, AddRefParts
<1>4. ASSUME Kept(s, r), Held(s, r, 0)
      PROVE  Kept(b, q) /\ Held(b, q, 0)
  <2>1. \A i \in Slots : r.minode[i].ref = s.minode[i].ref
    BY <1>1, <1>4 DEF Held
  <2>2. \A i \in Slots : q.minode[i].ref = b.minode[i].ref
    BY <1>1, <1>3, <2>1 DEF Held, RefAdded
  <2>3. Held(b, q, 0)
    BY <1>1, <2>2 DEF Held
  <2>4. Kept(b, r)
    BY <1>1, <1>4, KeptTwice
  <2>5. \A i \in Slots : q.minode[i].ref > 0 => r.minode[i].ref > 0
    BY <1>1, <2>1, <2>2
  <2>6. Kept(b, q)
    BY <1>3, <2>4, <2>5 DEF Kept, SameButSlots, RefAdded
  <2> QED BY <2>3, <2>6
<1> QED BY <1>2, <1>3, <1>4 DEF Walk, SameButSlots

\* ls_dir has every entry of the directory in hand once.
LEMMA LsDirWalk ==
    ASSUME NEW b \in States, Ready(b), NEW slot, slot.dev \in Devs, IsDir(slot),
           NEW r, r = ls_dir(b, slot)
    PROVE  r \in Walk(b, 0)
<1> DEFINE entries == Tree[slot.of][slot.ino]
           N == Len(entries)
           S == Walk(b, 0)
           Turn(x, k) == EndOfWalk(Enter(x, slot.dev, entries[k][2]))
           g == [n \in 1 .. N |-> [x \in S |-> Turn(x, n)]]
           Loop(h) == [k \in 0 .. N |-> IF k = 0 THEN b ELSE Turn(h[k - 1], k)]
           listed == CHOOSE h : h = Loop(h)
<1>1. entries \in Seq(STRING \X (Nat \ {0}))
  BY Directories
<1>2. r = listed[N]
  BY Zenon DEF ls_dir
<1> HIDE DEF entries
<1>3. N \in Nat /\ b \in S
  BY <1>1, BeginsItself
<1>4. ASSUME NEW x \in S, NEW n \in 1 .. N PROVE Turn(x, n) \in S
  <2> DEFINE ino == entries[n][2]
             e == Enter(x, slot.dev, ino)
  <2>1. ino \in Nat \ {0}
    BY <1>1
  <2> HIDE DEF ino
  <2>2. e \in Walking(b)
    BY <2>1, EnterWalk
  <2>3. Turn(x, n) = EndOfWalk(e)
    BY DEF ino
  <2> HIDE DEF e, Turn
  <2> QED BY <2>2, <2>3, EndOfWalkHolds
<1> HIDE DEF N, S, Turn
<1>5. \E h : h = Loop(h)
  <2>1. g \in [1 .. N -> [S -> S]]
    BY <1>4
  <2> HIDE DEF g
  <2>2. HasRecursion(N, S, b, g)
    BY <1>3, <2>1, RecursionExists
  <2>3. PICK h \in [0 .. N -> S] : h[0] = b /\ \A n \in 1 .. N : h[n] = g[n][h[n - 1]]
    BY <2>2 DEF HasRecursion
  <2>4. \A n \in 1 .. N : h[n] = Turn(h[n - 1], n)
    <3> SUFFICES ASSUME NEW n \in 1 .. N PROVE h[n] = Turn(h[n - 1], n)
      OBVIOUS
    <3>1. n - 1 \in 0 .. N
      BY <1>3
    <3>2. h[n - 1] \in S
      BY <3>1
    <3>3. g[n][h[n - 1]] = Turn(h[n - 1], n)
      BY <3>2 DEF g
    <3> QED BY <2>3, <3>3
  <2>5. h = Loop(h)
    BY <1>3, <2>3, <2>4
  <2> QED BY <2>5
<1>6. listed = Loop(listed)
  BY <1>5, Zenon
<1> HIDE DEF listed
<1>7. listed[0] = b /\ \A n \in 1 .. N : listed[n] = Turn(listed[n - 1], n)
  BY <1>3, <1>6
<1>8. \A n \in 0 .. N : listed[n] \in S
  BY <1>3, <1>4, <1>7, LoopStays
<1> QED BY <1>2, <1>3, <1>8 DEF S

-------------------------------------------------------------------------------
\* The inductive invariant, of a state between two commands.

MountedAt(s, i) == {t \in Tables : s.mtable[t].at = i}

\* Each reference is one of those the program has between two commands.
Counted(s) ==
    \A i \in Slots :
        s.minode[i].ref = (IF i = ROOT THEN 1 ELSE 0) + (IF i = s.cwd THEN 1 ELSE 0)
                          + Cardinality(MountedAt(s, i))

\* A referenced MINODE has been loaded; where P0 stands, and at the mount points, from a
\* directory.
Loaded(s) ==
    /\ s.dev \in Devs /\ IsDir(s.minode[s.cwd])
    /\ \A i \in Slots : s.minode[i].ref > 0 => s.minode[i].dev \in Devs
    /\ \A t \in Tables : s.mtable[t].dev # NONE =>
            s.mtable[t].at \in Slots /\ IsDir(s.minode[s.mtable[t].at])

\* The entries in use are those of the open images they name, one for each; the others are
\* cleared.
Entries(s) ==
    \A t \in Tables :
        IF s.mtable[t].dev = NONE THEN s.mtable[t] = FreeTable
        ELSE /\ s.host[s.mtable[t].dev] = s.mtable[t].name /\ s.mtable[t].name # NoDisk
             /\ \A u \in Tables : s.mtable[u].dev = s.mtable[t].dev => u = t

\* A mark leads to an entry that is mounted there.
Marks(s) ==
    \A i \in Slots : s.minode[i].mounted # NONE =>
        /\ s.mtable[s.minode[i].mounted].dev # NONE
        /\ s.mtable[s.minode[i].mounted].at = i

Sound(s) == Counted(s) /\ Loaded(s) /\ Entries(s) /\ Marks(s)

IInv == Now \in States /\ Sound(Now)

\* The entries mounted at a slot can be counted.
LEMMA MountedCount ==
    ASSUME NEW s, NEW i
    PROVE  /\ IsFiniteSet(MountedAt(s, i)) /\ Cardinality(MountedAt(s, i)) \in Nat
           /\ \A t \in MountedAt(s, i) : Cardinality(MountedAt(s, i)) > 0
<1>1. IsFiniteSet(Tables)
  BY Constants, FS_Interval DEF Tables
<1>2. IsFiniteSet(MountedAt(s, i))
  BY <1>1, FS_Subset DEF MountedAt
<1>3. Cardinality(MountedAt(s, i)) \in Nat
  BY <1>2, FS_CardinalityType
<1>4. MountedAt(s, i) # {} => Cardinality(MountedAt(s, i)) # 0
  BY <1>2, FS_EmptySet
<1> QED BY <1>2, <1>3, <1>4

LEMMA SoundReady ==
    ASSUME NEW s \in States, Sound(s)
    PROVE  Ready(s)
<1>1. \A i \in Slots : s.minode[i].ref \in Nat
  BY MountedCount DEF Sound, Counted
<1>2. ASSUME NEW t \in Tables, NEW i \in Slots, s.mtable[t].at = i
      PROVE  s.minode[i].ref > 0
  <2>1. Cardinality(MountedAt(s, i)) \in Nat /\ Cardinality(MountedAt(s, i)) > 0
    BY <1>2, MountedCount DEF MountedAt
  <2> QED BY <2>1 DEF Sound, Counted
<1>3. s.minode[ROOT].ref > 0 /\ s.minode[s.cwd].ref > 0
  <2> SUFFICES ASSUME NEW i \in Slots, i = ROOT \/ i = s.cwd PROVE s.minode[i].ref > 0
    BY StateTypes, Constants
  <2>1. Cardinality(MountedAt(s, i)) \in Nat
    BY MountedCount
  <2>2. s.minode[i].ref = (IF i = ROOT THEN 1 ELSE 0) + (IF i = s.cwd THEN 1 ELSE 0)
                          + Cardinality(MountedAt(s, i))
    BY DEF Sound, Counted
  <2> QED BY <2>1, <2>2
<1>4. ASSUME NEW i \in Slots, s.minode[i].mounted # NONE
      PROVE  s.minode[i].ref > 0 /\ s.mtable[s.minode[i].mounted].dev # NONE
  <2>1. s.minode[i].mounted \in Tables
    BY <1>4, SlotTypes
  <2> QED BY <1>2, <1>4, <2>1 DEF Sound, Marks
<1> QED BY <1>1, <1>2, <1>3, <1>4 DEF Ready, Sound, Loaded

\* A walk that has given back everything leaves a sound state.
LEMMA SoundKept ==
    ASSUME NEW b \in States, Sound(b), NEW s \in Walk(b, 0), s.died # TRUE
    PROVE  s \in States /\ Sound(s)
<1>1. Ready(b)
  BY SoundReady
<1>2. s \in States /\ Kept(b, s) /\ Held(b, s, 0)
  BY DEF Walk
<1>3. \A i \in Slots : s.minode[i].ref = b.minode[i].ref
  BY <1>1, <1>2 DEF Held, Ready
<1>4. \A i \in Slots : MountedAt(s, i) = MountedAt(b, i)
  BY <1>2 DEF MountedAt, Kept
<1>5. Counted(s)
  BY <1>2, <1>3, <1>4 DEF Counted, Sound, Kept
<1>6. Entries(s)
  BY <1>2 DEF Entries, Sound, Kept
<1>7. Marks(s)
  BY <1>2 DEF Marks, Sound, Kept
<1>8. \A t \in Tables : s.mtable[t].dev # NONE =>
            s.mtable[t].at \in Slots /\ IsDir(s.minode[s.mtable[t].at])
  <2> SUFFICES ASSUME NEW t \in Tables, s.mtable[t].dev # NONE
               PROVE  s.mtable[t].at \in Slots /\ IsDir(s.minode[s.mtable[t].at])
    OBVIOUS
  <2>1. IsDir(s.minode[s.mtable[t].at])
    BY <1>1, <1>2, PointHolds
  <2> QED BY <1>1, <1>2, <2>1 DEF Kept, Ready
<1>9. IsDir(s.minode[s.cwd])
  BY <1>1, <1>2, StateTypes DEF Kept, Ready, Sound, Loaded, IsDir
<1>10. Loaded(s)
  BY <1>2, <1>8, <1>9 DEF Loaded, Kept
<1> QED BY <1>2, <1>5, <1>6, <1>7, <1>10 DEF Sound

-------------------------------------------------------------------------------
\* Each command keeps the invariant.
LEMMA NowParts ==
    ASSUME IInv
    PROVE  /\ Now \in States /\ Sound(Now) /\ Ready(Now) /\ Now.died = FALSE
           /\ Now.minode = minode /\ Now.dev = dev /\ Now.cwd = cwd /\ Now.mtable = mtable
           /\ Now.host = host /\ Now.mip = ROOT
BY SoundReady DEF IInv, Now

LEMMA SoundFields ==
    ASSUME NEW s \in States, Sound(s), NEW r, r.minode = s.minode, r.dev = s.dev,
           r.cwd = s.cwd, r.mtable = s.mtable, r.host = s.host
    PROVE  Sound(r)
<1>1. \A i : MountedAt(r, i) = MountedAt(s, i)
  BY DEF MountedAt
<1>2. Counted(r)
  BY <1>1 DEF Sound, Counted
<1>3. Loaded(r)
  BY DEF Sound, Loaded
<1>4. Entries(r)
  BY DEF Sound, Entries
<1>5. Marks(r)
  BY DEF Sound, Marks
<1> QED BY <1>2, <1>3, <1>4, <1>5 DEF Sound

LEMMA TakesOver ==
    ASSUME NEW s \in States, Sound(s), Become(s)
    PROVE  IInv'
<1> DEFINE r == [minode |-> minode', dev |-> dev', cwd |-> cwd', mtable |-> mtable',
                 host |-> host', mip |-> ROOT, ino |-> 0, died |-> FALSE]
<1>1. /\ r.minode = s.minode /\ r.dev = s.dev /\ r.cwd = s.cwd /\ r.mtable = s.mtable
      /\ r.host = s.host
  BY DEF Become
<1>2. r \in States
  BY <1>1, StateTypes, Constants DEF States
<1>3. Now' = r
  BY DEF Now
<1> HIDE DEF r
<1>4. Sound(r)
  BY <1>1, SoundFields
<1>5. Sound(Now')
  BY <1>3, <1>4
<1> QED BY <1>2, <1>3, <1>5 DEF IInv

\* The state the program starts with, and starts with again.
Begun == [minode |-> Fresh.minode, dev |-> Fresh.dev, cwd |-> Fresh.cwd,
          mtable |-> Fresh.mtable, host |-> Fresh.host, mip |-> ROOT, ino |-> 0,
          died |-> FALSE]

LEMMA BegunSound == Begun \in States /\ Sound(Begun)
<1> DEFINE root == [dev |-> ROOTDEV, ino |-> ROOTINO, of |-> RootDisk, ref |-> 2,
                    mounted |-> NONE]
<1>1. /\ Begun.dev = ROOTDEV /\ Begun.cwd = ROOT /\ Begun.mip = ROOT /\ Begun.ino = 0
      /\ Begun.died = FALSE
      /\ Begun.minode = [i \in Slots |-> IF i = ROOT THEN root ELSE FreeSlot]
      /\ Begun.mtable = [t \in Tables |-> FreeTable]
      /\ Begun.host = [d \in Devs |-> IF d = ROOTDEV THEN RootDisk ELSE NoDisk]
  BY DEF Begun, Fresh
<1>2. /\ root \in SlotRecs /\ root.ref = 2 /\ root.dev = ROOTDEV /\ root.mounted = NONE
      /\ IsDir(root)
  BY Constants, MountAssumption DEF SlotRecs, IsDir
<1>3. FreeSlot \in SlotRecs /\ FreeSlot.ref = 0 /\ FreeSlot.mounted = NONE
  BY Constants DEF SlotRecs, FreeSlot
<1>4. FreeTable \in TableRecs /\ FreeTable.dev = NONE /\ FreeTable.at = NONE
  BY DEF TableRecs, FreeTable
<1> HIDE DEF root
<1>5. /\ Begun.minode \in [Slots -> SlotRecs] /\ Begun.mtable \in [Tables -> TableRecs]
      /\ Begun.host \in [Devs -> Disks \cup {NoDisk}]
  BY <1>1, <1>2, <1>3, <1>4, Constants
<1>6. Begun \in States
  <2>1. /\ Begun.dev \in Devs \cup {NONE} /\ Begun.cwd \in Slots /\ Begun.mip \in Slots
        /\ Begun.ino \in Nat /\ Begun.died \in BOOLEAN
    <3>1. /\ Begun.dev = ROOTDEV /\ Begun.cwd = ROOT /\ Begun.mip = ROOT /\ Begun.ino = 0
          /\ Begun.died = FALSE
      BY <1>1
    <3>2. ROOTDEV \in Devs /\ ROOT \in Slots /\ 0 \in Nat
      BY Constants
    <3> QED BY <3>1, <3>2, Zenon
  <2>2. Begun = [minode |-> Begun.minode, dev |-> Begun.dev, cwd |-> Begun.cwd,
                 mtable |-> Begun.mtable, host |-> Begun.host, mip |-> Begun.mip,
                 ino |-> Begun.ino, died |-> Begun.died]
    BY DEF Begun
  <2>3. \A r : /\ r.minode \in [Slots -> SlotRecs] /\ r.mtable \in [Tables -> TableRecs]
               /\ r.host \in [Devs -> Disks \cup {NoDisk}]
               /\ r.dev \in Devs \cup {NONE} /\ r.cwd \in Slots /\ r.mip \in Slots
               /\ r.ino \in Nat /\ r.died \in BOOLEAN
               /\ r = [minode |-> r.minode, dev |-> r.dev, cwd |-> r.cwd, mtable |-> r.mtable,
                       host |-> r.host, mip |-> r.mip, ino |-> r.ino, died |-> r.died]
               => r \in States
    BY DEF States
  <2> QED BY Zenon, <1>5, <2>1, <2>2, <2>3
<1>7. \A i \in Slots : Begun.minode[i] = IF i = ROOT THEN root ELSE FreeSlot
  BY <1>1
<1>8. \A t \in Tables : Begun.mtable[t] = FreeTable
  BY <1>1
<1>9. \A i \in Slots : Cardinality(MountedAt(Begun, i)) = 0
  <2> SUFFICES ASSUME NEW i \in Slots PROVE MountedAt(Begun, i) = {}
    BY FS_EmptySet
  <2> QED BY <1>4, <1>8, Constants DEF MountedAt
<1>10. Counted(Begun)
  BY <1>1, <1>2, <1>3, <1>7, <1>9 DEF Counted
<1>11. Loaded(Begun)
  BY <1>1, <1>2, <1>3, <1>4, <1>7, <1>8, Constants DEF Loaded
<1>12. Entries(Begun)
  BY <1>4, <1>8 DEF Entries
<1>13. Marks(Begun)
  BY <1>2, <1>3, <1>7 DEF Marks
<1> QED BY <1>6, <1>10, <1>11, <1>12, <1>13 DEF Sound

LEMMA InitEstablishes == Init => IInv
<1> SUFFICES ASSUME Init PROVE IInv
  OBVIOUS
<1>1. Now = Begun
  BY DEF Init, Now, Begun
<1> QED BY <1>1, BegunSound DEF IInv

LEMMA RestartKeeps ==
    ASSUME Restart
    PROVE  IInv'
<1>1. Become(Begun)
  BY DEF Restart, Become, Begun
<1> QED BY <1>1, BegunSound, TakesOver

\* A command keeps the invariant when it dies or leaves a sound state.
LEMMA CommandKeeps ==
    ASSUME NEW s \in States, s.died = TRUE \/ Sound(s), Command(s)
    PROVE  IInv'
<1>1. CASE s.died = TRUE
  <2>1. Restart
    BY <1>1 DEF Command
  <2> QED BY <2>1, RestartKeeps
<1>2. CASE s.died # TRUE
  <2>1. s.died = FALSE
    BY <1>2, StateTypes
  <2>2. Become(s)
    BY <2>1 DEF Command
  <2> QED BY <1>2, <2>2, TakesOver
<1> QED BY <1>1, <1>2

LEMMA WalkKeeps ==
    ASSUME NEW b \in States, Sound(b), NEW s \in Walk(b, 0), Command(s)
    PROVE  IInv'
<1>1. s \in States /\ (s.died = TRUE \/ Sound(s))
  BY SoundKept DEF Walk
<1> QED BY <1>1, CommandKeeps

\* ls: HomeDev takes the dev of the cwd.
LEMMA HomeDevWalk ==
    ASSUME NEW b \in States, Ready(b), NEW s \in Walk(b, 0), NEW r, r = HomeDev(s)
    PROVE  r \in Walk(b, 0)
<1> DEFINE d == s.minode[s.cwd].dev
<1>1. s \in States
  BY DEF Walk
<1>2. d \in Devs \cup {NONE}
  BY <1>1, StateTypes, SlotTypes
<1>3. r = OnDev(s, d)
  BY DEF HomeDev, OnDev
<1>4. s.died # TRUE => d \in Devs
  <2> SUFFICES ASSUME s.died # TRUE PROVE d \in Devs
    OBVIOUS
  <2>1. Ready(s)
    BY ReadyAgain
  <2> QED BY <1>1, <2>1, StateTypes DEF Ready
<1> HIDE DEF d
<1>5. r \in States /\ r.died = s.died
  BY <1>1, <1>2, <1>3, OnDevParts
<1>6. CASE s.died = TRUE
  BY <1>5, <1>6 DEF Walk
<1>7. CASE s.died # TRUE
  BY <1>3, <1>4, <1>7, OnDevWalk
<1> QED BY <1>6, <1>7

LEMMA ListWalk ==
    ASSUME NEW b \in States, Ready(b), NEW s \in Walk(b, 1), NEW r, r = List(s)
    PROVE  r \in Walk(b, 0)
<1>1. CASE s.died = TRUE
  BY <1>1 DEF List, Walk
<1>2. CASE s.died # TRUE
  <2> DEFINE l == IF IsDir(Here(s)) THEN ls_dir(s, Here(s)) ELSE s
             q == iput(l, s.mip)
  <2>1. s \in States /\ Ready(s) /\ s.died = FALSE /\ s.minode[s.mip].dev \in Devs
    BY <1>2, ReadyAgain, Alive, StateTypes
  <2>2. l \in Walk(s, 0)
    <3>1. CASE IsDir(Here(s))
      <4>1. l = ls_dir(s, Here(s)) /\ Here(s).dev \in Devs
        BY <2>1, <3>1 DEF Here
      <4> HIDE DEF l
      <4> QED BY <2>1, <3>1, <4>1, LsDirWalk
    <3>2. CASE ~IsDir(Here(s))
      BY <2>1, <3>2, BeginsItself
    <3> QED BY <3>1, <3>2
  <2>3. r = HomeDev(q)
    BY <2>1, Zenon DEF List
  <2> HIDE DEF l
  <2>4. q \in Walk(b, 0)
    BY <1>2, <2>2, PutBack
  <2> HIDE DEF q
  <2> QED BY <2>3, <2>4, HomeDevWalk
<1> QED BY <1>1, <1>2

LEMMA LsKeeps ==
    ASSUME IInv, NEW path \in Paths, Ls(path)
    PROVE  IInv'
<1> DEFINE s == Named(Now, path)
           r == List(s)
<1>1. Now \in States /\ Sound(Now) /\ Ready(Now)
  BY NowParts
<1>2. s \in Walk(Now, 1)
  BY <1>1, NamedWalk, MountAssumption
<1>3. Command(r)
  BY DEF Ls, ls
<1> HIDE DEF s
<1>4. r \in Walk(Now, 0)
  BY <1>1, <1>2, ListWalk
<1> HIDE DEF r
<1> QED BY <1>1, <1>3, <1>4, WalkKeeps

LEMMA LsHereKeeps ==
    ASSUME IInv, LsHere
    PROVE  IInv'
<1> DEFINE slot == minode[cwd]
           s == ls_dir(Now, slot)
           r == HomeDev(s)
<1>1. Now \in States /\ Sound(Now) /\ Ready(Now) /\ Now.minode = minode /\ Now.cwd = cwd
  BY NowParts
<1>2. slot.dev \in Devs /\ IsDir(slot)
  BY <1>1, StateTypes DEF Ready, Sound, Loaded
<1>3. Command(r)
  BY DEF LsHere, lsHere
<1> HIDE DEF slot
<1>4. s \in Walk(Now, 0)
  BY <1>1, <1>2, LsDirWalk
<1> HIDE DEF s
<1>5. r \in Walk(Now, 0)
  BY <1>1, <1>4, HomeDevWalk
<1> HIDE DEF r
<1> QED BY <1>1, <1>3, <1>5, WalkKeeps

\* The tables and the marks of a sound state are sound in every state of a walk.
LEMMA TablesKept ==
    ASSUME NEW b \in States, Sound(b), NEW s, Kept(b, s)
    PROVE  /\ Entries(s) /\ Marks(s)
           /\ \A t \in Tables : s.mtable[t].dev # NONE =>
                s.mtable[t].at \in Slots /\ IsDir(s.minode[s.mtable[t].at])
<1>1. Ready(b)
  BY SoundReady
<1>2. Entries(s)
  BY DEF Entries, Sound, Kept
<1>3. Marks(s)
  BY DEF Marks, Sound, Kept
<1>4. ASSUME NEW t \in Tables, s.mtable[t].dev # NONE
      PROVE  s.mtable[t].at \in Slots /\ IsDir(s.minode[s.mtable[t].at])
  <2>1. IsDir(s.minode[s.mtable[t].at])
    BY <1>1, <1>4, PointHolds
  <2> QED BY <1>1, <1>4, <2>1 DEF Kept, Ready
<1> QED BY <1>2, <1>3, <1>4

\* chdir exchanges the reference of the old cwd for that of the new one.
LEMMA StandInSound ==
    ASSUME NEW b \in States, Sound(b), NEW s \in Walk(b, 1), NEW r, r = StandIn(s)
    PROVE  r \in States /\ (r.died = TRUE \/ Sound(r))
<1>1. Ready(b)
  BY SoundReady
<1>2. CASE s.died = TRUE
  BY <1>2 DEF StandIn, Walk
<1>3. CASE s.died # TRUE /\ ~IsDir(Here(s))
  <2> DEFINE q == iput(s, s.mip)
  <2>1. s.died = FALSE
    BY <1>3, StateTypes DEF Walk
  <2>2. r = HomeDev(q)
    BY <1>3, <2>1 DEF StandIn
  <2>3. q \in Walk(b, 0)
    BY <1>1, IputWalk
  <2> HIDE DEF q
  <2>4. r \in Walk(b, 0)
    BY <1>1, <2>2, <2>3, HomeDevWalk
  <2> QED BY <2>4, SoundKept DEF Walk
<1>4. CASE s.died # TRUE /\ IsDir(Here(s))
  <2> DEFINE q == iput(s, s.cwd)
  <2>1. s \in States /\ Kept(b, s) /\ Held(b, s, 1) /\ s.died = FALSE /\ s.mip \in Slots
        /\ s.cwd \in Slots /\ s.cwd = b.cwd
    BY <1>1, <1>4, Alive, StateTypes DEF Kept
  <2>2. r = [q EXCEPT !.cwd = s.mip]
    BY <1>4, <2>1 DEF StandIn
  <2>3. q \in States /\ SameButSlots(s, q) /\ RefAdded(s, q, s.cwd, -1)
    <3>1. q = AddRef(s, s.cwd, -1) /\ -1 \in Int
      BY DEF iput
    <3> HIDE DEF q
    <3> QED BY <2>1, <3>1, AddRefParts
  <2> HIDE DEF q
  <2>4. /\ r \in States /\ r.cwd = s.mip /\ r.minode = q.minode /\ r.dev = s.dev
        /\ r.mtable = s.mtable /\ r.host = s.host
    BY <2>1, <2>2, <2>3, CwdParts DEF SameButSlots
  <2>5. /\ Entries(s) /\ Marks(s)
        /\ \A t \in Tables : s.mtable[t].dev # NONE =>
                s.mtable[t].at \in Slots /\ IsDir(s.minode[s.mtable[t].at])
    BY <2>1, TablesKept
  <2>6. \A i \in Slots : /\ r.minode[i].dev = s.minode[i].dev
                         /\ r.minode[i].mounted = s.minode[i].mounted
                         /\ IsDir(s.minode[i]) => IsDir(r.minode[i])
    BY <2>3, <2>4 DEF RefAdded, IsDir
  <2>7. Counted(r)
    <3> SUFFICES ASSUME NEW i \in Slots
                 PROVE  r.minode[i].ref = (IF i = ROOT THEN 1 ELSE 0)
                            + (IF i = r.cwd THEN 1 ELSE 0) + Cardinality(MountedAt(r, i))
      BY DEF Counted
    <3>1. MountedAt(r, i) = MountedAt(b, i)
      BY <2>1, <2>4 DEF MountedAt, Kept
    <3>2. Cardinality(MountedAt(b, i)) \in Nat
      BY MountedCount
    <3>3. b.minode[i].ref = (IF i = ROOT THEN 1 ELSE 0) + (IF i = b.cwd THEN 1 ELSE 0)
                            + Cardinality(MountedAt(b, i))
      BY DEF Sound, Counted
    <3>4. s.minode[i].ref = b.minode[i].ref + (IF i = s.mip THEN 1 ELSE 0)
      BY <2>1 DEF Held
    <3>5. r.minode[i].ref = s.minode[i].ref + (IF i = b.cwd THEN -1 ELSE 0)
      BY <2>1, <2>3, <2>4 DEF RefAdded
    <3> QED BY <2>4, <3>1, <3>2, <3>3, <3>4, <3>5
  <2>8. \A i \in Slots : r.minode[i].ref > 0 => r.minode[i].dev \in Devs
    <3> SUFFICES ASSUME NEW i \in Slots, r.minode[i].ref > 0 PROVE s.minode[i].dev \in Devs
      BY <2>6
    <3>1. s.minode[i].ref \in Int
      BY <2>1, SlotTypes
    <3>2. s.minode[i].ref > 0
      BY <2>3, <2>4, <3>1 DEF RefAdded
    <3> QED BY <2>1, <3>2 DEF Kept
  <2>9. IsDir(r.minode[r.cwd])
    BY <1>4, <2>1, <2>4, <2>6 DEF Here
  <2>10. Loaded(r)
    BY <2>1, <2>4, <2>5, <2>6, <2>8, <2>9 DEF Loaded, Kept
  <2>11. Entries(r)
    BY <2>4, <2>5 DEF Entries
  <2>12. Marks(r)
    BY <2>4, <2>5, <2>6 DEF Marks
  <2> QED BY <2>4, <2>7, <2>10, <2>11, <2>12 DEF Sound
<1> QED BY <1>2, <1>3, <1>4

LEMMA ChdirKeeps ==
    ASSUME IInv, NEW path \in Paths, Chdir(path)
    PROVE  IInv'
<1> DEFINE s == Named(Now, path)
           r == StandIn(s)
<1>1. Now \in States /\ Sound(Now) /\ Ready(Now)
  BY NowParts
<1>2. s \in Walk(Now, 1)
  BY <1>1, NamedWalk, MountAssumption
<1>3. Command(r)
  BY DEF Chdir, chdir
<1> HIDE DEF s
<1>4. r \in States /\ (r.died = TRUE \/ Sound(r))
  BY <1>1, <1>2, StandInSound
<1> HIDE DEF r
<1> QED BY <1>3, <1>4, CommandKeeps

\* mount and umount.
SameButTables(s, r) ==
    /\ r.minode = s.minode /\ r.dev = s.dev /\ r.cwd = s.cwd /\ r.mip = s.mip
    /\ r.ino = s.ino /\ r.died = s.died

LEMMA SetTableParts ==
    ASSUME NEW s \in States, NEW t \in Tables, NEW entry \in TableRecs,
           NEW r, r = SetTable(s, t, entry)
    PROVE  /\ r \in States /\ SameButTables(s, r) /\ r.host = s.host
           /\ r.mtable = [s.mtable EXCEPT ![t] = entry]
<1> DEFINE m == [s.mtable EXCEPT ![t] = entry]
<1>1. m \in [Tables -> TableRecs]
  BY DEF States
<1>2. r = [s EXCEPT !.mtable = m]
  BY DEF SetTable
<1> HIDE DEF m
<1>3. r \in States /\ SameButTables(s, r) /\ r.host = s.host /\ r.mtable = m
  BY <1>1, <1>2 DEF States, SameButTables
<1> QED BY <1>3 DEF m

LEMMA SetHostParts ==
    ASSUME NEW s \in States, NEW d \in Devs, NEW disk \in Disks \cup {NoDisk},
           NEW r, r = SetHost(s, d, disk)
    PROVE  /\ r \in States /\ SameButTables(s, r) /\ r.mtable = s.mtable
           /\ r.host = [s.host EXCEPT ![d] = disk]
<1> DEFINE h == [s.host EXCEPT ![d] = disk]
<1>1. h \in [Devs -> Disks \cup {NoDisk}]
  BY DEF States
<1>2. r = [s EXCEPT !.host = h]
  BY DEF SetHost
<1> HIDE DEF h
<1>3. r \in States /\ SameButTables(s, r) /\ r.mtable = s.mtable /\ r.host = h
  BY <1>1, <1>2 DEF States, SameButTables
<1> QED BY <1>3 DEF h

\* An image that has been opened, and is no entry's yet.
OpenedFor(b, name, d) ==
    /\ b \in States /\ Sound(b) /\ b.host[d] = name /\ b.died = FALSE
    /\ \A t \in Tables : b.mtable[t].dev # d

LEMMA OpenedSound ==
    ASSUME IInv, NEW name \in Images, NEW d \in Devs, host[d] = NoDisk,
           NEW b, b = Opened(name, d)
    PROVE  OpenedFor(b, name, d) /\ b.mtable = mtable
<1>1. Now \in States /\ Sound(Now) /\ Now.host = host /\ Now.mtable = mtable /\ Now.died = FALSE
  BY NowParts
<1>2. name \in Disks \cup {NoDisk}
  BY DEF Disks
<1>3. /\ b \in States /\ SameButTables(Now, b) /\ b.mtable = mtable
      /\ b.host = [host EXCEPT ![d] = name]
  BY <1>1, <1>2, SetHostParts DEF Opened
<1>4. \A e \in Devs : b.host[e] = IF e = d THEN name ELSE host[e]
  BY <1>1, <1>3, StateTypes
<1>5. ASSUME NEW t \in Tables, mtable[t].dev # NONE
      PROVE  mtable[t].dev \in Devs /\ mtable[t].dev # d
  <2>1. host[mtable[t].dev] # NoDisk
    BY <1>1, <1>5 DEF Sound, Entries
  <2>2. mtable[t].dev \in Devs
    BY <1>1, <1>5, TableTypes
  <2> QED BY <2>1, <2>2
<1>6. \A i : MountedAt(b, i) = MountedAt(Now, i)
  BY <1>1, <1>3 DEF MountedAt
<1>7. Counted(b)
  BY <1>1, <1>3, <1>6 DEF Counted, Sound, SameButTables
<1>8. Loaded(b)
  BY <1>1, <1>3 DEF Loaded, Sound, SameButTables
<1>9. Entries(b)
  BY <1>1, <1>3, <1>4, <1>5 DEF Entries, Sound
<1>10. Marks(b)
  BY <1>1, <1>3 DEF Marks, Sound, SameButTables
<1>11. \A t \in Tables : b.mtable[t].dev # d
  BY <1>3, <1>5, Constants
<1>12. b.died = FALSE
  BY <1>1, <1>3 DEF SameButTables
<1> QED BY <1>3, <1>4, <1>7, <1>8, <1>9, <1>10, <1>11, <1>12 DEF Sound, OpenedFor

LEMMA AttachSound ==
    ASSUME NEW name \in Images, NEW d \in Devs, NEW b, OpenedFor(b, name, d),
           NEW t \in Tables, b.mtable[t].dev = NONE, NEW s \in Walk(b, 1),
           NEW r, r = Attach(s, name, t, d)
    PROVE  r \in States /\ (r.died = TRUE \/ Sound(r))
<1>1. b \in States /\ Sound(b) /\ Ready(b)
  BY SoundReady DEF OpenedFor
<1>2. CASE s.died = TRUE
  BY <1>2 DEF Attach, Walk
<1>3. CASE s.died # TRUE /\ (~IsDir(Here(s)) \/ InUse(s))
  <2>1. s.died = FALSE
    BY <1>3, StateTypes DEF Walk
  <2>2. r = iput(s, s.mip)
    BY <1>3, <2>1 DEF Attach
  <2>3. r \in Walk(b, 0)
    BY <1>1, <2>2, IputWalk
  <2> QED BY <1>1, <2>3, SoundKept DEF Walk
<1>4. CASE s.died # TRUE /\ ~(~IsDir(Here(s)) \/ InUse(s))
  <2> DEFINE entry == [dev |-> d, name |-> name, at |-> s.mip]
             q == Mark(s, s.mip, t)
  <2>1. /\ s \in States /\ Kept(b, s) /\ Held(b, s, 1) /\ s.died = FALSE /\ s.mip \in Slots
        /\ IsDir(s.minode[s.mip])
    BY <1>1, <1>4, Alive, StateTypes DEF Here
  <2>2. r = SetTable(q, t, entry)
    BY <1>4, <2>1 DEF Attach
  <2>3. q \in States /\ SameButSlots(s, q) /\ Marked(s, q, s.mip, t)
    BY <2>1, MarkParts
  <2>4. entry \in TableRecs /\ entry.dev = d /\ entry.name = name /\ entry.at = s.mip
    BY <2>1 DEF TableRecs, Disks
  <2> HIDE DEF entry, q
  <2>5. /\ r \in States /\ SameButTables(q, r) /\ r.host = q.host
        /\ r.mtable = [q.mtable EXCEPT ![t] = entry]
    BY <2>2, <2>3, <2>4, SetTableParts
  <2>6. /\ r.minode = q.minode /\ r.dev \in Devs /\ r.cwd = b.cwd /\ r.host = b.host
        /\ r.cwd \in Slots
    BY <1>1, <2>1, <2>3, <2>5, StateTypes DEF SameButSlots, SameButTables, Kept
  <2>7. \A u \in Tables : r.mtable[u] = IF u = t THEN entry ELSE b.mtable[u]
    BY <2>1, <2>3, <2>5, StateTypes DEF SameButSlots, Kept
  <2>8. \A i \in Slots : /\ r.minode[i].mounted = IF i = s.mip THEN t ELSE b.minode[i].mounted
                         /\ r.minode[i].dev = s.minode[i].dev
                         /\ r.minode[i].ref = s.minode[i].ref
                         /\ IsDir(s.minode[i]) => IsDir(r.minode[i])
    BY <2>1, <2>3, <2>6 DEF Marked, IsDir, Kept
  <2>9. b.mtable[t].at = NONE
    BY <1>1 DEF Sound, Entries, FreeTable
  <2>10. /\ Entries(s) /\ Marks(s) /\ s.mtable = b.mtable
         /\ \A u \in Tables : s.mtable[u].dev # NONE =>
                s.mtable[u].at \in Slots /\ IsDir(s.minode[s.mtable[u].at])
    BY <1>1, <2>1, TablesKept DEF Kept
  <2>11. Counted(r)
    <3> SUFFICES ASSUME NEW i \in Slots
                 PROVE  r.minode[i].ref = (IF i = ROOT THEN 1 ELSE 0)
                            + (IF i = r.cwd THEN 1 ELSE 0) + Cardinality(MountedAt(r, i))
      BY DEF Counted
    <3>1. Cardinality(MountedAt(r, i)) =
                Cardinality(MountedAt(b, i)) + (IF i = s.mip THEN 1 ELSE 0)
      <4>1. t \notin MountedAt(b, i)
        BY <2>9, Constants DEF MountedAt
      <4>2. IsFiniteSet(MountedAt(b, i)) /\ Cardinality(MountedAt(b, i)) \in Nat
        BY MountedCount
      <4>3. CASE i = s.mip
        <5>1. MountedAt(r, i) = MountedAt(b, i) \cup {t}
          BY <2>4, <2>7, <4>3 DEF MountedAt
        <5> QED BY <4>1, <4>2, <4>3, <5>1, FS_AddElement
      <4>4. CASE i # s.mip
        <5>1. MountedAt(r, i) = MountedAt(b, i)
          BY <2>4, <2>7, <2>9, <4>4, Constants DEF MountedAt
        <5> QED BY <4>2, <4>4, <5>1
      <4> QED BY <4>3, <4>4
    <3>2. Cardinality(MountedAt(b, i)) \in Nat
      BY MountedCount
    <3>3. b.minode[i].ref = (IF i = ROOT THEN 1 ELSE 0) + (IF i = b.cwd THEN 1 ELSE 0)
                            + Cardinality(MountedAt(b, i))
      BY <1>1 DEF Sound, Counted
    <3>4. r.minode[i].ref = b.minode[i].ref + (IF i = s.mip THEN 1 ELSE 0)
      BY <2>1, <2>8 DEF Held
    <3> QED BY <2>6, <3>1, <3>2, <3>3, <3>4
  <2>12. Loaded(r)
    <3>1. IsDir(r.minode[r.cwd])
      <4>1. IsDir(s.minode[b.cwd])
        BY <1>1, <2>1, StateTypes DEF Sound, Loaded, Kept, Ready, IsDir
      <4> QED BY <2>6, <2>8, <4>1
    <3>2. \A i \in Slots : r.minode[i].ref > 0 => r.minode[i].dev \in Devs
      BY <2>1, <2>8 DEF Kept
    <3>3. \A u \in Tables : r.mtable[u].dev # NONE =>
                r.mtable[u].at \in Slots /\ IsDir(r.minode[r.mtable[u].at])
      BY <2>1, <2>4, <2>7, <2>8, <2>10
    <3> QED BY <2>6, <3>1, <3>2, <3>3 DEF Loaded
  <2>13. Entries(r)
    <3>1. /\ r.host[d] = name /\ name # NoDisk /\ d # NONE
          /\ \A u \in Tables : b.mtable[u].dev # d
      BY <2>6, Constants DEF OpenedFor, Disks
    <3> SUFFICES ASSUME NEW u \in Tables
                 PROVE  IF r.mtable[u].dev = NONE THEN r.mtable[u] = FreeTable
                        ELSE /\ r.host[r.mtable[u].dev] = r.mtable[u].name
                             /\ r.mtable[u].name # NoDisk
                             /\ \A v \in Tables : r.mtable[v].dev = r.mtable[u].dev => v = u
      BY DEF Entries
    <3>2. CASE u = t
      BY <2>4, <2>7, <3>1, <3>2
    <3>3. CASE u # t
      <4>1. Entries(b)
        BY <1>1 DEF Sound
      <4> QED BY <2>4, <2>6, <2>7, <3>1, <3>3, <4>1 DEF Entries
    <3> QED BY <3>2, <3>3
  <2>14. Marks(r)
    <3> SUFFICES ASSUME NEW i \in Slots, r.minode[i].mounted # NONE
                 PROVE  /\ r.mtable[r.minode[i].mounted].dev # NONE
                        /\ r.mtable[r.minode[i].mounted].at = i
      BY DEF Marks
    <3>1. CASE i = s.mip
      BY <2>4, <2>7, <2>8, <3>1, Constants
    <3>2. CASE i # s.mip
      <4>1. /\ b.minode[i].mounted \in Tables /\ b.mtable[b.minode[i].mounted].dev # NONE
            /\ b.mtable[b.minode[i].mounted].at = i
        BY <1>1, <2>8, <3>2, SlotTypes DEF Sound, Marks
      <4> QED BY <2>7, <2>8, <3>2, <4>1
    <3> QED BY <3>1, <3>2
  <2> QED BY <2>5, <2>11, <2>12, <2>13, <2>14 DEF Sound
<1> QED BY <1>2, <1>3, <1>4

LEMMA MountKeeps ==
    ASSUME IInv, NEW name \in Images, NEW path \in Paths, Mount(name, path)
    PROVE  IInv'
<1> DEFINE free == {t \in Tables : mtable[t].dev = NONE}
           closed == {d \in Devs : host[d] = NoDisk}
           refused == (\E t \in Tables : mtable[t].name = name) \/ free = {} \/ closed = {}
           d == Least(closed)
           t == Least(free)
           b == Opened(name, d)
           s == Named(b, path)
           r == Attach(s, name, t, d)
<1>1. Now \in States /\ Sound(Now)
  BY NowParts
<1>2. mount(name, path) = IF refused THEN Now ELSE IF name \notin Ext2 THEN b ELSE r
  BY Zenon DEF mount
<1>3. Command(mount(name, path))
  BY DEF Mount
<1>4. free \in SUBSET Nat /\ closed \in SUBSET Nat
  BY Constants
<1>5. CASE refused
  <2>1. mount(name, path) = Now
    BY <1>2, <1>5
  <2> QED BY <1>1, <1>3, <2>1, CommandKeeps
<1>6. CASE ~refused
  <2>1. d \in closed /\ t \in free
    BY <1>4, <1>6, LeastIn
  <2>2. d \in Devs /\ host[d] = NoDisk /\ t \in Tables /\ mtable[t].dev = NONE
    BY <2>1
  <2> HIDE DEF d, t
  <2>3. OpenedFor(b, name, d) /\ b.mtable = mtable
    BY <2>2, OpenedSound
  <2> HIDE DEF b
  <2>4. b \in States /\ Sound(b) /\ Ready(b)
    BY <2>3, SoundReady DEF OpenedFor
  <2>5. s \in Walk(b, 1)
    BY <2>4, NamedWalk, MountAssumption
  <2> HIDE DEF s
  <2>6. r \in States /\ (r.died = TRUE \/ Sound(r))
    BY <2>2, <2>3, <2>5, AttachSound
  <2> HIDE DEF r
  <2>7. mount(name, path) = b \/ mount(name, path) = r
    BY <1>2, <1>6
  <2> QED BY <1>3, <2>4, <2>6, <2>7, CommandKeeps
<1> QED BY <1>5, <1>6

LEMMA UnmountedSound ==
    ASSUME IInv, NEW t \in Tables, mtable[t].dev # NONE, NEW r, r = Unmounted(t)
    PROVE  r \in States /\ Sound(r)
<1> DEFINE at == mtable[t].at
           d == mtable[t].dev
           p == Mark(Now, at, NONE)
           q == iput(p, at)
           h == SetHost(q, d, NoDisk)
<1>1. /\ Now \in States /\ Sound(Now) /\ Ready(Now) /\ Now.minode = minode /\ Now.dev = dev
      /\ Now.cwd = cwd /\ Now.mtable = mtable /\ Now.host = host
  BY NowParts
<1>2. at \in Slots /\ d \in Devs
  BY <1>1, TableTypes DEF Ready
<1>3. r = SetTable(h, t, FreeTable)
  BY Zenon DEF Unmounted
<1> HIDE DEF at, d
<1>4. p \in States /\ SameButSlots(Now, p) /\ Marked(Now, p, at, NONE)
  BY <1>1, <1>2, MarkParts
<1> HIDE DEF p
<1>5. q \in States /\ SameButSlots(p, q) /\ RefAdded(p, q, at, -1)
  <2>1. q = AddRef(p, at, -1) /\ -1 \in Int
    BY DEF iput
  <2> HIDE DEF q
  <2> QED BY <1>2, <1>4, <2>1, AddRefParts
<1> HIDE DEF q
<1>6. /\ h \in States /\ SameButTables(q, h) /\ h.mtable = q.mtable
      /\ h.host = [q.host EXCEPT ![d] = NoDisk]
  BY <1>2, <1>5, SetHostParts
<1> HIDE DEF h
<1>7. FreeTable \in TableRecs /\ FreeTable.dev = NONE /\ FreeTable.at = NONE
  BY DEF TableRecs, FreeTable
<1>8. /\ r \in States /\ SameButTables(h, r) /\ r.host = h.host
      /\ r.mtable = [h.mtable EXCEPT ![t] = FreeTable]
  BY <1>3, <1>6, <1>7, SetTableParts
<1>9. r.dev = dev /\ r.cwd = cwd /\ r.minode = q.minode /\ cwd \in Slots
  BY <1>1, <1>4, <1>5, <1>6, <1>8, StateTypes DEF SameButSlots, SameButTables
<1>10. \A e \in Devs : r.host[e] = IF e = d THEN NoDisk ELSE host[e]
  BY <1>1, <1>4, <1>5, <1>6, <1>8, StateTypes DEF SameButSlots
<1>11. \A u \in Tables : r.mtable[u] = IF u = t THEN FreeTable ELSE mtable[u]
  BY <1>1, <1>4, <1>5, <1>6, <1>8, StateTypes DEF SameButSlots
<1>12. \A i \in Slots : /\ r.minode[i].mounted = IF i = at THEN NONE ELSE minode[i].mounted
                        /\ r.minode[i].dev = minode[i].dev
                        /\ r.minode[i].ref = minode[i].ref + (IF i = at THEN -1 ELSE 0)
                        /\ IsDir(minode[i]) => IsDir(r.minode[i])
  BY <1>1, <1>4, <1>5, <1>9 DEF Marked, RefAdded, IsDir
<1>13. Counted(r)
  <2> SUFFICES ASSUME NEW i \in Slots
               PROVE  r.minode[i].ref = (IF i = ROOT THEN 1 ELSE 0)
                          + (IF i = r.cwd THEN 1 ELSE 0) + Cardinality(MountedAt(r, i))
    BY DEF Counted
  <2>1. IsFiniteSet(MountedAt(Now, i)) /\ Cardinality(MountedAt(Now, i)) \in Nat
    BY MountedCount
  <2>2. Cardinality(MountedAt(r, i)) =
            Cardinality(MountedAt(Now, i)) + (IF i = at THEN -1 ELSE 0)
    <3>1. CASE i = at
      <4>1. t \in MountedAt(Now, i)
        BY <1>1, <3>1 DEF MountedAt, at
      <4>2. MountedAt(r, i) = MountedAt(Now, i) \ {t}
        BY <1>1, <1>2, <1>7, <1>11, <3>1, Constants DEF MountedAt
      <4>3. Cardinality(MountedAt(r, i)) = Cardinality(MountedAt(Now, i)) - 1
        BY <2>1, <4>1, <4>2, FS_RemoveElement
      <4> QED BY <2>1, <3>1, <4>3
    <3>2. CASE i # at
      <4>1. MountedAt(r, i) = MountedAt(Now, i)
        BY <1>1, <1>7, <1>11, <3>2, Constants DEF MountedAt, at
      <4> QED BY <2>1, <3>2, <4>1
    <3> QED BY <3>1, <3>2
  <2>3. minode[i].ref = (IF i = ROOT THEN 1 ELSE 0) + (IF i = cwd THEN 1 ELSE 0)
                        + Cardinality(MountedAt(Now, i))
    BY <1>1 DEF Sound, Counted
  <2> QED BY <1>9, <1>12, <2>1, <2>2, <2>3
<1>14. Loaded(r)
  <2>1. \A i \in Slots : r.minode[i].ref > 0 => r.minode[i].dev \in Devs
    <3> SUFFICES ASSUME NEW i \in Slots, r.minode[i].ref > 0 PROVE minode[i].dev \in Devs
      BY <1>12
    <3>1. minode[i].ref \in Nat
      BY <1>1 DEF Ready
    <3>2. minode[i].ref > 0
      BY <1>12, <3>1
    <3> QED BY <1>1, <3>2 DEF Ready
  <2>2. IsDir(r.minode[r.cwd])
    BY <1>1, <1>9, <1>12 DEF Sound, Loaded
  <2>3. \A u \in Tables : r.mtable[u].dev # NONE =>
            r.mtable[u].at \in Slots /\ IsDir(r.minode[r.mtable[u].at])
    BY <1>1, <1>7, <1>11, <1>12 DEF Sound, Loaded
  <2>4. r.dev \in Devs
    BY <1>1, <1>9 DEF Sound, Loaded
  <2> QED BY <2>1, <2>2, <2>3, <2>4 DEF Loaded
<1>15. Entries(r)
  <2> SUFFICES ASSUME NEW u \in Tables
               PROVE  IF r.mtable[u].dev = NONE THEN r.mtable[u] = FreeTable
                      ELSE /\ r.host[r.mtable[u].dev] = r.mtable[u].name
                           /\ r.mtable[u].name # NoDisk
                           /\ \A v \in Tables : r.mtable[v].dev = r.mtable[u].dev => v = u
    BY DEF Entries
  <2>1. CASE u = t
    BY <1>7, <1>11, <2>1
  <2>2. CASE u # t
    <3>1. /\ Entries(Now) /\ r.mtable[u] = mtable[u]
          /\ mtable[u].dev \in Devs \cup {NONE}
      BY <1>1, <1>11, <2>2, TableTypes DEF Sound
    <3>2. CASE mtable[u].dev = NONE
      BY <1>1, <3>1, <3>2 DEF Entries
    <3>3. CASE mtable[u].dev # NONE
      <4>1. /\ host[mtable[u].dev] = mtable[u].name /\ mtable[u].name # NoDisk
            /\ \A v \in Tables : mtable[v].dev = mtable[u].dev => v = u
        BY <1>1, <3>1, <3>3 DEF Entries
      <4>2. mtable[u].dev # d
        BY <2>2, <4>1 DEF d
      <4>3. r.host[mtable[u].dev] = host[mtable[u].dev]
        BY <1>10, <3>1, <3>3, <4>2
      <4>4. \A v \in Tables : r.mtable[v].dev = mtable[u].dev => v = u
        BY <1>7, <1>11, <3>3, <4>1
      <4> QED BY <3>1, <3>3, <4>1, <4>3, <4>4
    <3> QED BY <3>2, <3>3
  <2> QED BY <2>1, <2>2
<1>16. Marks(r)
  <2> SUFFICES ASSUME NEW i \in Slots, r.minode[i].mounted # NONE
               PROVE  /\ r.mtable[r.minode[i].mounted].dev # NONE
                      /\ r.mtable[r.minode[i].mounted].at = i
    BY DEF Marks
  <2>1. i # at /\ r.minode[i].mounted = minode[i].mounted /\ minode[i].mounted # NONE
    BY <1>12
  <2>2. /\ minode[i].mounted \in Tables /\ mtable[minode[i].mounted].dev # NONE
        /\ mtable[minode[i].mounted].at = i
    BY <1>1, <2>1, SlotTypes DEF Sound, Marks
  <2>3. minode[i].mounted # t
    BY <2>1, <2>2 DEF at
  <2> QED BY <1>11, <2>1, <2>2, <2>3
<1> QED BY <1>8, <1>13, <1>14, <1>15, <1>16 DEF Sound

LEMMA UmountKeeps ==
    ASSUME IInv, NEW name \in Images, Umount(name)
    PROVE  IInv'
<1> DEFINE found == {t \in Tables : mtable[t].name = name}
           t == Least(found)
           r == Unmounted(t)
<1>1. Now \in States /\ Sound(Now) /\ Now.mtable = mtable
  BY NowParts
<1>2. umount(name) = IF found = {} \/ Busy(t) THEN Now ELSE r
  BY Zenon DEF umount
<1>3. Command(umount(name))
  BY DEF Umount
<1>4. CASE found = {} \/ Busy(t)
  <2>1. umount(name) = Now
    BY <1>2, <1>4
  <2> QED BY <1>1, <1>3, <2>1, CommandKeeps
<1>5. CASE ~(found = {} \/ Busy(t))
  <2>1. found \in SUBSET Nat
    BY Constants
  <2>2. t \in found
    BY <1>5, <2>1, LeastIn
  <2>3. t \in Tables /\ mtable[t].name = name
    BY <2>2
  <2>4. name # NoDisk
    BY Constants DEF Disks
  <2> HIDE DEF t
  <2>5. mtable[t].dev # NONE
    BY <1>1, <2>3, <2>4 DEF Sound, Entries, FreeTable
  <2>6. r \in States /\ Sound(r)
    BY <2>3, <2>5, UnmountedSound
  <2> HIDE DEF r
  <2>7. umount(name) = r
    BY <1>2, <1>5
  <2> QED BY <1>3, <2>6, <2>7, CommandKeeps
<1> QED BY <1>4, <1>5

-------------------------------------------------------------------------------
\* pwd holds each directory on the way up once more for every time it came there.
Takes(held, k, i) == {j \in k .. Len(held) : held[j] = i}

HeldFrom(b, s, held, k) ==
    \A i \in Slots : s.minode[i].ref = b.minode[i].ref + Cardinality(Takes(held, k, i))

\* The state s with P0 back where it stood in b.
Back(b, s) == [s EXCEPT !.cwd = b.cwd]

Climbs(b) ==
    {c \in [now : States, held : Seq(Slots)] :
        \/ c.now.died = TRUE
        \/ Ready(c.now) /\ Kept(b, Back(b, c.now)) /\ HeldFrom(b, c.now, c.held, 1)}

LEMMA TakesCount ==
    ASSUME NEW held \in Seq(Slots), NEW k \in Nat, NEW i
    PROVE  /\ IsFiniteSet(Takes(held, k, i)) /\ Cardinality(Takes(held, k, i)) \in Nat
           /\ k > Len(held) => Cardinality(Takes(held, k, i)) = 0
<1>1. IsFiniteSet(k .. Len(held))
  BY FS_Interval
<1>2. IsFiniteSet(Takes(held, k, i))
  BY <1>1, FS_Subset DEF Takes
<1>3. k > Len(held) => Takes(held, k, i) = {}
  BY DEF Takes
<1> QED BY <1>2, <1>3, FS_CardinalityType, FS_EmptySet

\* One directory more, and one directory less.
LEMMA TakesMore ==
    ASSUME NEW held \in Seq(Slots), NEW x \in Slots, NEW i
    PROVE  Cardinality(Takes(Append(held, x), 1, i))
                = Cardinality(Takes(held, 1, i)) + (IF i = x THEN 1 ELSE 0)
<1> DEFINE more == Append(held, x)
           n == Len(held)
<1>1. n \in Nat /\ Len(more) = n + 1 /\ more[n + 1] = x
      /\ \A j \in 1 .. n : more[j] = held[j]
  OBVIOUS
<1>2. IsFiniteSet(Takes(held, 1, i)) /\ n + 1 \notin Takes(held, 1, i)
  <2>1. n + 1 \notin Takes(held, 1, i)
    BY DEF Takes
  <2>2. 1 \in Nat
    OBVIOUS
  <2> QED BY <2>1, <2>2, TakesCount
<1> HIDE DEF more, n
<1>3. CASE i = x
  <2>1. Takes(more, 1, i) = Takes(held, 1, i) \cup {n + 1}
    BY <1>1, <1>3 DEF Takes, n
  <2> QED BY <1>2, <1>3, <2>1, FS_AddElement, TakesCount DEF more
<1>4. CASE i # x
  <2>1. Takes(more, 1, i) = Takes(held, 1, i)
    BY <1>1, <1>4 DEF Takes, n
  <2> QED BY <1>4, <2>1, TakesCount DEF more
<1> QED BY <1>3, <1>4

LEMMA TakesLess ==
    ASSUME NEW held \in Seq(Slots), NEW k \in 1 .. Len(held), NEW i
    PROVE  Cardinality(Takes(held, k, i))
                = Cardinality(Takes(held, k + 1, i)) + (IF i = held[k] THEN 1 ELSE 0)
<1>1. IsFiniteSet(Takes(held, k + 1, i)) /\ Cardinality(Takes(held, k + 1, i)) \in Nat
  BY TakesCount
<1>2. k \notin Takes(held, k + 1, i)
  BY DEF Takes
<1>3. CASE i = held[k]
  <2>1. Takes(held, k, i) = Takes(held, k + 1, i) \cup {k}
    BY <1>3 DEF Takes
  <2> QED BY <1>1, <1>2, <1>3, <2>1, FS_AddElement
<1>4. CASE i # held[k]
  <2>1. Takes(held, k, i) = Takes(held, k + 1, i)
    BY <1>4 DEF Takes
  <2> QED BY <1>1, <1>4, <2>1
<1> QED BY <1>3, <1>4

LEMMA BackParts ==
    ASSUME NEW b \in States, NEW s \in States
    PROVE  /\ Back(b, s) \in States /\ Back(b, s).cwd = b.cwd
           /\ Back(b, s).minode = s.minode /\ Back(b, s).dev = s.dev
           /\ Back(b, s).mtable = s.mtable /\ Back(b, s).host = s.host
           /\ Back(b, s).died = s.died
<1> DEFINE r == Back(b, s)
<1>1. r = [s EXCEPT !.cwd = b.cwd] /\ b.cwd \in Slots
  BY StateTypes DEF Back
<1> HIDE DEF r
<1>2. /\ r \in States /\ r.cwd = b.cwd /\ r.minode = s.minode /\ r.dev = s.dev
      /\ r.mtable = s.mtable /\ r.host = s.host /\ r.died = s.died
  BY <1>1, CwdParts
<1> QED BY <1>2 DEF r

LEMMA ClimbKeeps ==
    ASSUME NEW b \in States, Ready(b), NEW c \in Climbs(b)
    PROVE  Climb(c) \in Climbs(b)
<1> DEFINE top == c.now.died \/ AtRoot(c.now.minode[c.now.cwd])
           s == Named(c.now, Up)
           q == [s EXCEPT !.cwd = s.mip]
           more == Append(c.held, s.mip)
<1>1. c.now \in States /\ c.held \in Seq(Slots) /\ c \in [now : States, held : Seq(Slots)]
  BY DEF Climbs
<1>2. Climb(c) = IF top THEN c ELSE [now |-> q, held |-> more]
  BY DEF Climb, Climbed
<1>3. CASE top
  BY <1>2, <1>3
<1>4. CASE ~top
  <2>1. c.now.died # TRUE
    BY <1>4
  <2>2. Ready(c.now) /\ Kept(b, Back(b, c.now)) /\ HeldFrom(b, c.now, c.held, 1)
    BY <2>1 DEF Climbs
  <2>3. Up.absolute \in BOOLEAN /\ Len(Up.names) \in Nat
    BY DEF Up
  <2>4. s \in Walk(c.now, 1)
    BY <1>1, <2>2, <2>3, NamedWalk
  <2>5. Climb(c) = [now |-> q, held |-> more]
    BY <1>2, <1>4
  <2> HIDE DEF s, top
  <2>6. s \in States /\ s.mip \in Slots
    BY <2>4, StateTypes DEF Walk
  <2>7. /\ q \in States /\ q.cwd = s.mip /\ q.minode = s.minode /\ q.dev = s.dev
        /\ q.mtable = s.mtable /\ q.host = s.host /\ q.died = s.died
    BY <2>6, CwdParts
  <2>8. more \in Seq(Slots)
    BY <1>1, <2>6
  <2> HIDE DEF q
  <2>9. ASSUME s.died # TRUE
        PROVE  Ready(q) /\ Kept(b, Back(b, q)) /\ HeldFrom(b, q, more, 1)
    <3>1. Ready(s) /\ Kept(c.now, s) /\ Held(c.now, s, 1)
      BY <1>1, <2>2, <2>4, <2>9, ReadyAgain, RefsGrow
    <3>2. \A i \in Slots : c.now.minode[i].ref \in Nat /\ b.minode[i].ref \in Nat
      BY <2>2 DEF Ready
    <3>3. s.minode[s.mip].ref > 0
      BY <2>6, <3>1, <3>2 DEF Held
    <3>4. Ready(q)
      BY <2>7, <3>1, <3>3 DEF Ready
    <3>5. HeldFrom(b, q, more, 1)
      <4> SUFFICES ASSUME NEW i \in Slots
                   PROVE  q.minode[i].ref = b.minode[i].ref + Cardinality(Takes(more, 1, i))
        BY DEF HeldFrom
      <4>1. c.now.minode[i].ref = b.minode[i].ref + Cardinality(Takes(c.held, 1, i))
        BY <2>2 DEF HeldFrom
      <4>2. s.minode[i].ref = c.now.minode[i].ref + (IF i = s.mip THEN 1 ELSE 0)
        BY <3>1 DEF Held
      <4>3. Cardinality(Takes(more, 1, i))
                = Cardinality(Takes(c.held, 1, i)) + (IF i = s.mip THEN 1 ELSE 0)
        BY <1>1, <2>6, TakesMore
      <4>4. Cardinality(Takes(c.held, 1, i)) \in Nat /\ b.minode[i].ref \in Nat
        BY <1>1, <3>2, TakesCount
      <4> HIDE DEF more
      <4> QED BY <2>7, <4>1, <4>2, <4>3, <4>4
    <3>6. \A i \in Slots : b.minode[i].ref > 0 => c.now.minode[i].ref > 0
      <4> SUFFICES ASSUME NEW i \in Slots, b.minode[i].ref > 0 PROVE c.now.minode[i].ref > 0
        OBVIOUS
      <4>1. Cardinality(Takes(c.held, 1, i)) \in Nat /\ b.minode[i].ref \in Nat
        BY <1>1, <3>2, TakesCount
      <4>2. c.now.minode[i].ref = b.minode[i].ref + Cardinality(Takes(c.held, 1, i))
        BY <2>2 DEF HeldFrom
      <4> QED BY <4>1, <4>2
    <3> DEFINE p == Back(b, c.now)
               r == Back(b, q)
    <3>7. /\ r.cwd = b.cwd /\ r.minode = s.minode /\ r.dev = s.dev
          /\ r.mtable = s.mtable /\ r.host = s.host
      BY <2>7, BackParts
    <3>8. p.minode = c.now.minode /\ p.mtable = c.now.mtable /\ p.host = c.now.host
      BY <1>1, BackParts
    <3>9. Kept(b, p)
      BY <2>2
    <3> HIDE DEF p, r
    <3>10. Kept(b, r)
      BY <3>1, <3>6, <3>7, <3>8, <3>9 DEF Kept
    <3> QED BY <3>4, <3>5, <3>10 DEF r
  <2>10. [now |-> q, held |-> more] \in Climbs(b)
    <3> DEFINE d == [now |-> q, held |-> more]
    <3>1. d \in [now : States, held : Seq(Slots)] /\ d.now = q /\ d.held = more
      BY <2>7, <2>8
    <3> HIDE DEF d, more
    <3>2. d \in Climbs(b)
      BY <2>7, <2>9, <3>1 DEF Climbs
    <3> QED BY <3>2 DEF d
  <2> QED BY <2>5, <2>10
<1> QED BY <1>3, <1>4

\* What pwd holds is given back one by one, and P0 stands where it stood.
LEMMA ReleaseKeeps ==
    ASSUME NEW b \in States, Ready(b), NEW held \in Seq(Slots), NEW k \in 1 .. Len(held),
           NEW s \in States, s.died = TRUE \/ (Kept(b, Back(b, s)) /\ HeldFrom(b, s, held, k)),
           NEW r, r = iput(s, held[k])
    PROVE  /\ r \in States
           /\ r.died = TRUE \/ (Kept(b, Back(b, r)) /\ HeldFrom(b, r, held, k + 1))
<1>1. held[k] \in Slots
  OBVIOUS
<1>2. r \in States /\ SameButSlots(s, r) /\ RefAdded(s, r, held[k], -1)
  <2>1. r = AddRef(s, held[k], -1) /\ -1 \in Int
    BY DEF iput
  <2> QED BY <1>1, <2>1, AddRefParts
<1>3. ASSUME Kept(b, Back(b, s)), HeldFrom(b, s, held, k)
      PROVE  Kept(b, Back(b, r)) /\ HeldFrom(b, r, held, k + 1)
  <2>1. ASSUME NEW i \in Slots
        PROVE  /\ r.minode[i].ref = b.minode[i].ref + Cardinality(Takes(held, k + 1, i))
               /\ r.minode[i].ref > 0 => s.minode[i].ref > 0
    <3>1. s.minode[i].ref = b.minode[i].ref + Cardinality(Takes(held, k, i))
      BY <1>3 DEF HeldFrom
    <3>2. r.minode[i].ref = s.minode[i].ref + (IF i = held[k] THEN -1 ELSE 0)
      BY <1>2 DEF RefAdded
    <3>3. Cardinality(Takes(held, k, i))
                = Cardinality(Takes(held, k + 1, i)) + (IF i = held[k] THEN 1 ELSE 0)
      BY TakesLess
    <3>4. Cardinality(Takes(held, k + 1, i)) \in Nat /\ b.minode[i].ref \in Nat
      <4>1. k + 1 \in Nat
        OBVIOUS
      <4>2. b.minode[i].ref \in Nat
        BY DEF Ready
      <4> QED BY <4>1, <4>2, TakesCount
    <3> DEFINE later == Cardinality(Takes(held, k + 1, i))
               now == Cardinality(Takes(held, k, i))
    <3> HIDE DEF later, now
    <3>5. s.minode[i].ref = b.minode[i].ref + now
      BY <3>1 DEF now
    <3>6. now = later + (IF i = held[k] THEN 1 ELSE 0) /\ later \in Nat
      BY <3>3, <3>4 DEF now, later
    <3>7. /\ r.minode[i].ref = b.minode[i].ref + later
          /\ r.minode[i].ref > 0 => s.minode[i].ref > 0
      <4>1. CASE i = held[k]
        BY <3>2, <3>4, <3>5, <3>6, <4>1
      <4>2. CASE i # held[k]
        BY <3>2, <3>4, <3>5, <3>6, <4>2
      <4> QED BY <4>1, <4>2
    <3> QED BY <3>7 DEF later
  <2>2. HeldFrom(b, r, held, k + 1)
    BY <2>1 DEF HeldFrom
  <2> DEFINE p == Back(b, s)
             q == Back(b, r)
  <2>3. /\ p.minode = s.minode /\ p.dev = s.dev /\ p.mtable = s.mtable /\ p.host = s.host
        /\ q.minode = r.minode /\ q.dev = r.dev /\ q.mtable = r.mtable /\ q.host = r.host
        /\ q.cwd = b.cwd
    BY <1>2, BackParts
  <2>4. Kept(b, p)
    BY <1>3
  <2> HIDE DEF p, q
  <2>5. Kept(b, q)
    BY <1>2, <2>1, <2>3, <2>4 DEF Kept, SameButSlots, RefAdded
  <2> QED BY <2>2, <2>5 DEF q
<1> QED BY <1>2, <1>3 DEF SameButSlots

LEMMA ReleasedWalk ==
    ASSUME IInv, NEW c \in Climbs(Now), NEW r, r = Released(c)
    PROVE  r \in Walk(Now, 0)
<1> DEFINE N == Len(c.held)
           g == [k \in 1 .. N |-> [x \in States |-> iput(x, c.held[k])]]
           Loop(h) == [k \in 0 .. N |-> IF k = 0 THEN c.now ELSE iput(h[k - 1], c.held[k])]
           released == CHOOSE h : h = Loop(h)
           Good(k, s) == /\ s \in States
                         /\ \/ s.died = TRUE
                            \/ Kept(Now, Back(Now, s)) /\ HeldFrom(Now, s, c.held, k + 1)
           S == {k \in 0 .. N : Good(k, released[k])}
<1>1. Now \in States /\ Ready(Now) /\ Now.cwd = cwd
  BY NowParts
<1>2. c.now \in States /\ c.held \in Seq(Slots) /\ N \in Nat
  BY DEF Climbs
<1>3. r = [released[N] EXCEPT !.cwd = cwd]
  BY Zenon DEF Released
<1>4. c.now.died = TRUE \/ (Kept(Now, Back(Now, c.now)) /\ HeldFrom(Now, c.now, c.held, 1))
  BY DEF Climbs
<1> HIDE DEF N
<1>5. \A x \in States, k \in 1 .. N : iput(x, c.held[k]) \in States
  <2> SUFFICES ASSUME NEW x \in States, NEW k \in 1 .. N PROVE iput(x, c.held[k]) \in States
    OBVIOUS
  <2> DEFINE y == iput(x, c.held[k])
  <2>1. y = AddRef(x, c.held[k], -1) /\ -1 \in Int /\ c.held[k] \in Slots
    BY <1>2 DEF iput, N
  <2> HIDE DEF y
  <2>2. y \in States
    BY <2>1, AddRefParts
  <2> QED BY <2>2 DEF y
<1>6. \E h : h = Loop(h)
  <2>1. g \in [1 .. N -> [States -> States]]
    BY <1>5
  <2> HIDE DEF g
  <2>2. HasRecursion(N, States, c.now, g)
    BY <1>2, <2>1, RecursionExists
  <2>3. PICK h \in [0 .. N -> States] :
            h[0] = c.now /\ \A k \in 1 .. N : h[k] = g[k][h[k - 1]]
    BY <2>2 DEF HasRecursion
  <2>4. \A k \in 1 .. N : h[k] = iput(h[k - 1], c.held[k])
    <3> SUFFICES ASSUME NEW k \in 1 .. N PROVE h[k] = iput(h[k - 1], c.held[k])
      OBVIOUS
    <3>1. k - 1 \in 0 .. N
      BY <1>2
    <3>2. h[k - 1] \in States
      BY <3>1
    <3>3. g[k][h[k - 1]] = iput(h[k - 1], c.held[k])
      BY <3>2 DEF g
    <3> QED BY <2>3, <3>3
  <2>5. h = Loop(h)
    BY <1>2, <2>3, <2>4
  <2> QED BY <2>5
<1>7. released = Loop(released)
  BY <1>6, Zenon
<1> HIDE DEF released
<1>8. released[0] = c.now /\ \A k \in 1 .. N : released[k] = iput(released[k - 1], c.held[k])
  BY <1>2, <1>7
<1>9. 0 \in S
  <2>1. Good(0, c.now)
    BY <1>2, <1>4
  <2> QED BY <1>2, <1>8, <2>1
<1>10. ASSUME NEW k \in 0 .. N - 1, k \in S PROVE k + 1 \in S
  <2> DEFINE s == released[k]
             q == released[k + 1]
  <2>1. Good(k, s)
    BY <1>10
  <2>2. k + 1 \in 1 .. N /\ k + 1 \in 0 .. N /\ (k + 1) - 1 = k
    BY <1>2
  <2>3. q = iput(s, c.held[k + 1])
    BY <1>8, <2>2
  <2> HIDE DEF s, q
  <2>4. Good(k + 1, q)
    BY <1>1, <1>2, <2>1, <2>2, <2>3, ReleaseKeeps DEF N
  <2> HIDE DEF Good
  <2> QED BY <2>2, <2>4 DEF q
<1>11. N \in S
  <2> HIDE DEF S
  <2>1. 0 .. N \subseteq S
    BY <1>2, <1>9, <1>10, SetInduction
  <2> QED BY <1>2, <2>1
<1> DEFINE s == released[N]
<1>12. Good(N, s)
  BY <1>11
<1>13. r = Back(Now, s)
  BY <1>1, <1>3 DEF Back
<1> HIDE DEF s
<1>14. s \in States
  BY <1>12
<1>15. /\ r \in States /\ r.minode = s.minode /\ r.died = s.died
  BY <1>1, <1>13, <1>14, BackParts
<1>16. ASSUME HeldFrom(Now, s, c.held, N + 1)
       PROVE  Held(Now, r, 0)
  <2>1. \A i \in Slots : Cardinality(Takes(c.held, N + 1, i)) = 0
    BY <1>2, TakesCount DEF N
  <2>2. \A i \in Slots : Now.minode[i].ref \in Nat
    BY <1>1 DEF Ready
  <2> QED BY <1>15, <1>16, <2>1, <2>2 DEF HeldFrom, Held
<1>17. r.died = TRUE \/ (Kept(Now, r) /\ Held(Now, r, 0))
  BY <1>12, <1>13, <1>15, <1>16
<1> QED BY <1>15, <1>17 DEF Walk

LEMMA PwdKeeps ==
    ASSUME IInv, Pwd
    PROVE  IInv'
<1> DEFINE S == Climbs(Now)
           c0 == [now |-> Now, held |-> <<>>]
           g == [k \in 1 .. NMINODE |-> [x \in S |-> Climb(x)]]
           Loop(h) == [k \in 0 .. NMINODE |->
                        IF k = 0 THEN [now |-> Now, held |-> <<>>] ELSE Climb(h[k - 1])]
           climb == CHOOSE h : h = Loop(h)
           r == Released(climb[NMINODE])
<1>1. Now \in States /\ Sound(Now) /\ Ready(Now) /\ NMINODE \in Nat
  BY NowParts, Constants
<1>2. pwd = r
  BY Zenon DEF pwd
<1>3. c0 \in S
  <2>1. Kept(Now, Back(Now, Now))
    <3> DEFINE p == Back(Now, Now)
    <3>1. /\ p.minode = Now.minode /\ p.dev = Now.dev /\ p.cwd = Now.cwd
          /\ p.mtable = Now.mtable /\ p.host = Now.host
      BY <1>1, BackParts
    <3> HIDE DEF p
    <3>2. Kept(Now, p)
      BY <1>1, <3>1 DEF Kept, Ready
    <3> QED BY <3>2 DEF p
  <2>2. HeldFrom(Now, Now, <<>>, 1)
    <3> DEFINE none == <<>>
    <3>1. none \in Seq(Slots) /\ Len(none) = 0 /\ 1 \in Nat
      OBVIOUS
    <3> HIDE DEF none
    <3>2. \A i \in Slots : Cardinality(Takes(none, 1, i)) = 0 /\ Now.minode[i].ref \in Nat
      <4>1. 1 > Len(none)
        BY <3>1
      <4>2. \A i \in Slots : Now.minode[i].ref \in Nat
        BY <1>1 DEF Ready
      <4>3. \A i \in Slots : Cardinality(Takes(none, 1, i)) = 0
        BY <3>1, <4>1, TakesCount
      <4> QED BY <4>2, <4>3
    <3>3. HeldFrom(Now, Now, none, 1)
      BY <3>2 DEF HeldFrom
    <3> QED BY <3>3 DEF none
  <2>3. c0 \in [now : States, held : Seq(Slots)] /\ c0.now = Now /\ c0.held = <<>>
    BY <1>1
  <2> HIDE DEF c0
  <2> QED BY <1>1, <2>1, <2>2, <2>3 DEF Climbs
<1>4. \A x \in S : Climb(x) \in S
  BY <1>1, ClimbKeeps
<1> HIDE DEF S, c0
<1>5. \E h : h = Loop(h)
  <2>1. g \in [1 .. NMINODE -> [S -> S]]
    BY <1>4
  <2> HIDE DEF g
  <2>2. HasRecursion(NMINODE, S, c0, g)
    BY <1>1, <1>3, <2>1, RecursionExists
  <2>3. PICK h \in [0 .. NMINODE -> S] :
            h[0] = c0 /\ \A k \in 1 .. NMINODE : h[k] = g[k][h[k - 1]]
    BY <2>2 DEF HasRecursion
  <2>4. \A k \in 1 .. NMINODE : h[k] = Climb(h[k - 1])
    <3> SUFFICES ASSUME NEW k \in 1 .. NMINODE PROVE h[k] = Climb(h[k - 1])
      OBVIOUS
    <3>1. k - 1 \in 0 .. NMINODE
      BY <1>1
    <3>2. h[k - 1] \in S
      BY <3>1
    <3>3. g[k][h[k - 1]] = Climb(h[k - 1])
      BY <3>2 DEF g
    <3> QED BY <2>3, <3>3
  <2>5. h = Loop(h)
    BY <1>1, <2>3, <2>4 DEF c0
  <2> QED BY <2>5
<1>6. climb = Loop(climb)
  BY <1>5, Zenon
<1> HIDE DEF climb
<1>7. climb[0] = c0 /\ \A k \in 1 .. NMINODE : climb[k] = Climb(climb[k - 1])
  BY <1>1, <1>6 DEF c0
<1>8. \A k \in 0 .. NMINODE : climb[k] \in S
  BY <1>1, <1>3, <1>4, <1>7, LoopStays
<1>9. climb[NMINODE] \in Climbs(Now)
  BY <1>1, <1>8 DEF S
<1>10. r \in Walk(Now, 0)
  BY <1>9, ReleasedWalk
<1>11. Command(r)
  BY <1>2 DEF Pwd
<1> HIDE DEF r
<1> QED BY <1>1, <1>10, <1>11, WalkKeeps

-------------------------------------------------------------------------------
LEMMA NextKeeps == IInv /\ [Next]_vars => IInv'
<1> SUFFICES ASSUME IInv, [Next]_vars PROVE IInv'
  OBVIOUS
<1>1. ASSUME NEW path \in Paths, Chdir(path) PROVE IInv'
  BY <1>1, ChdirKeeps
<1>2. ASSUME NEW path \in Paths, Ls(path) PROVE IInv'
  BY <1>2, LsKeeps
<1>3. ASSUME NEW name \in Images, NEW path \in Paths, Mount(name, path) PROVE IInv'
  BY <1>3, MountKeeps
<1>4. ASSUME NEW name \in Images, Umount(name) PROVE IInv'
  BY <1>4, UmountKeeps
<1>5. CASE LsHere
  BY <1>5, LsHereKeeps
<1>6. CASE Pwd
  BY <1>6, PwdKeeps
<1>7. CASE Restart
  BY <1>7, RestartKeeps
<1>8. CASE UNCHANGED vars
  <2>1. Become(Now)
    BY <1>8 DEF vars, Become, Now
  <2> QED BY <2>1, NowParts, TakesOver
<1> QED BY <1>1, <1>2, <1>3, <1>4, <1>5, <1>6, <1>7, <1>8 DEF Next

\* Between two commands the counts, the loaded MINODEs, the entries of mtable[] and the
\* marks agree with each other: what mount_root establishes and each of mount, umount, cd,
\* ls and pwd keeps, on the paths that fail as well.
THEOREM AlwaysSound == Spec => []IInv
<1>1. Init => IInv
  BY InitEstablishes
<1>2. IInv /\ [Next]_vars => IInv'
  BY NextKeeps
<1> QED BY <1>1, <1>2, PTL DEF Spec

\* Whatever is mounted where, under whatever path names and however full the tables are, an
\* entry of mtable[] in use is that of the open image it names, alone, and a mark on a
\* MINODE leads to an entry that is mounted there: umount takes back all that mount made.
THEOREM MountsRight == Spec => []MountsAgree
<1>1. IInv => MountsAgree
  <2> SUFFICES ASSUME IInv PROVE MountsAgree
    OBVIOUS
  <2>1. Entries(Now) /\ Marks(Now) /\ Now.mtable = mtable /\ Now.host = host
        /\ Now.minode = minode
    BY NowParts DEF Sound
  <2>2. ASSUME NEW t \in Tables, mtable[t].dev # NONE
        PROVE  host[mtable[t].dev] = mtable[t].name /\ TableOf(Now, mtable[t].dev) = {t}
    <3>1. host[mtable[t].dev] = mtable[t].name
          /\ \A u \in Tables : mtable[u].dev = mtable[t].dev => u = t
      BY <2>1, <2>2 DEF Entries
    <3> QED BY <2>1, <3>1 DEF TableOf
  <2>3. \A i \in Slots : minode[i].mounted # NONE =>
            /\ mtable[minode[i].mounted].dev # NONE
            /\ mtable[minode[i].mounted].at = i
    BY <2>1 DEF Marks
  <2> QED BY <2>2, <2>3 DEF MountsAgree
<1> QED BY <1>1, AlwaysSound, PTL

\* Every command gives back the MINODEs it took, whatever disks its path crosses: the
\* root pointer, the cwd of P0 and the mount points are all that is counted between two.
THEOREM RefsRight == Spec => []RefsBalanced
<1>1. IInv => RefsBalanced
  BY NowParts DEF Sound, Counted, RefsBalanced, MountedAt
<1> QED BY <1>1, AlwaysSound, PTL
===============================================================================
