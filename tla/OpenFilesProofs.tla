---------------------------- MODULE OpenFilesProofs ----------------------------
(***************************************************************************)
(* Proofs about OpenFiles for every set of files, number of processes and  *)
(* of descriptors, and every bound.                                        *)
(*                                                                         *)
(* A command is a composition of open_file, close_file, mydup and the reads*)
(* and writes, each a function from a state within a command to the next.  *)
(* Every one of them keeps the types (States) and, unless something has    *)
(* happened that the counts do not survive, the relations between          *)
(* descriptors, entries and MINODEs (Sound); so every command does.        *)
(***************************************************************************)
EXTENDS OpenFiles, InductionLemmas, FiniteSetTheorems, FunctionTheorems, TLAPS

Odds == {"second reader", "third reader", "same inode", "full", "wrong kill"}

Entries == [mode : CLOSED .. APPEND, ref : Int, file : Files \cup {NoFile}, offset : Nat]
Minodes == [there : BOOLEAN, size : Nat, mode : CLOSED .. APPEND, ref : Int]
Tables == [oft : [Ofts -> Entries], fd : [Procs -> [Fds -> Ofts \cup {NULL}]],
           file : [Files -> Minodes]]
States == [table : Tables, odd : SUBSET Odds, ret : Int]

\* Descriptors and entries in use are in bijection.
Reached(s) ==
    /\ \A p \in Procs, k \in Fds : s.table.fd[p][k] # NULL => InUse(s, s.table.fd[p][k])
    /\ \A p, q \in Procs, k, l \in Fds :
            s.table.fd[p][k] = s.table.fd[q][l] /\ s.table.fd[p][k] # NULL => p = q /\ k = l
    /\ \A o \in Ofts : InUse(s, o) => \E p \in Procs, k \in Fds : s.table.fd[p][k] = o

\* The count of an entry is the number of the entries of its file.
Counted(s) ==
    \A o \in Ofts : s.table.oft[o].ref =
        IF InUse(s, o) THEN Cardinality(OftsOf(s, s.table.oft[o].file)) ELSE 0

\* No two files with one inode number are open.
OneDevice(s) ==
    \A o, x \in Ofts : InUse(s, o) /\ InUse(s, x)
                       /\ s.table.oft[o].file.ino = s.table.oft[x].file.ino
                            => s.table.oft[o].file = s.table.oft[x].file

\* The MINODE has the mode of every entry of the file.
Modes(s) ==
    /\ \A o \in Ofts : InUse(s, o) =>
            /\ s.table.oft[o].mode = s.table.file[s.table.oft[o].file].mode
            /\ s.table.oft[o].mode # CLOSED
    /\ \A f \in Files : OftsOf(s, f) = {} => s.table.file[f].mode = CLOSED

\* The MINODE of an open file is held, once unless there was a second reader.
Held(s) ==
    \A f \in Files :
        /\ s.table.file[f].ref \in Nat
        /\ OftsOf(s, f) # {} => s.table.file[f].there = TRUE /\ s.table.file[f].ref > 0
        /\ s.odd = {} => s.table.file[f].ref = IF OftsOf(s, f) = {} THEN 0 ELSE 1

Offsets(s) ==
    \A o \in Ofts : InUse(s, o) => s.table.oft[o].offset <= s.table.file[s.table.oft[o].file].size

Related(s) ==
    Reached(s) /\ Counted(s) /\ OneDevice(s) /\ Modes(s) /\ Held(s) /\ Offsets(s)

\* Nothing has happened that the counts do not survive.
Steady(s) == s.odd \subseteq {"second reader"}

Sound(s) == Steady(s) => Related(s)

Good == {s \in States : Sound(s)}

\* The inductive invariant: process 0 is never killed.
IInv == TypeOK /\ table \in Tables /\ 0 \in DOMAIN proc /\ Sound(Now)

-------------------------------------------------------------------------------
\* Facts about the constants, and about the searches for the first one.
LEMMA Constants ==
    /\ NOFT \in Nat \ {0} /\ Ofts \subseteq Nat \ {0} /\ NULL \notin Ofts /\ NOFT \in Ofts
    /\ IsFiniteSet(Ofts)
    /\ NFD \in Nat \ {0} /\ Fds \subseteq Nat /\ NFD \notin Fds /\ -1 \notin Fds
    /\ NoFile \notin Files
<1>1. NOFT \in Nat \ {0}
  BY OpenFilesAssumption DEF NOFT
<1>2. IsFiniteSet(Ofts)
  BY <1>1, FS_Interval DEF Ofts
<1> QED BY <1>1, <1>2, OpenFilesAssumption DEF Ofts, Fds, NULL

LEMMA FirstOf ==
    ASSUME NEW S \in SUBSET Nat, NEW default
    PROVE  /\ S = {} => First(S, default) = default
           /\ S # {} => First(S, default) \in S
<1>1. S # {} => \E x \in S : \A y \in S : x <= y
  BY LeastNat
<1> QED BY <1>1 DEF First

LEMMA FreeOnes ==
    ASSUME NEW s \in States, NEW p \in Procs
    PROVE  /\ FreeEntry(s) \in Ofts
           /\ (\E o \in Ofts : s.table.oft[o].ref = 0) => s.table.oft[FreeEntry(s)].ref = 0
           /\ FreeFd(s, p) \in 0 .. NFD /\ FreeFd(s, p) \in Int
           /\ FreeFd(s, p) # NFD => FreeFd(s, p) \in Fds /\ s.table.fd[p][FreeFd(s, p)] = NULL
<1> DEFINE A == {o \in Ofts : s.table.oft[o].ref = 0}
           B == {k \in Fds : s.table.fd[p][k] = NULL}
<1>1. A \in SUBSET Nat /\ B \in SUBSET Nat
  BY Constants
<1>2. FreeEntry(s) = NOFT \/ FreeEntry(s) \in A
  BY <1>1, FirstOf DEF FreeEntry
<1>3. A # {} => FreeEntry(s) \in A
  BY <1>1, FirstOf DEF FreeEntry
<1>4. FreeFd(s, p) = NFD \/ FreeFd(s, p) \in B
  BY <1>1, FirstOf DEF FreeFd
<1> QED BY <1>2, <1>3, <1>4, Constants DEF Fds

\* The entry that open_file counts a reader at.
Previous(s, f) == First(SameIno(s, f), NOFT)

LEMMA PreviousIn ==
    ASSUME NEW s \in States, NEW f \in Files
    PROVE  /\ Previous(s, f) \in Ofts
           /\ SameIno(s, f) # {} => Previous(s, f) \in SameIno(s, f)
<1>1. SameIno(s, f) \in SUBSET Nat /\ SameIno(s, f) \subseteq Ofts
  BY Constants DEF SameIno
<1>2. Previous(s, f) = NOFT \/ Previous(s, f) \in SameIno(s, f)
  BY <1>1, FirstOf DEF Previous
<1>3. SameIno(s, f) # {} => Previous(s, f) \in SameIno(s, f)
  BY <1>1, FirstOf DEF Previous
<1> QED BY <1>1, <1>2, <1>3, Constants

\* A state from its parts.
LEMMA StateParts ==
    ASSUME NEW s
    PROVE  s \in States <=>
                /\ s = [table |-> s.table, odd |-> s.odd, ret |-> s.ret]
                /\ s.table = [oft |-> s.table.oft, fd |-> s.table.fd, file |-> s.table.file]
                /\ s.table.oft \in [Ofts -> Entries]
                /\ s.table.fd \in [Procs -> [Fds -> Ofts \cup {NULL}]]
                /\ s.table.file \in [Files -> Minodes]
                /\ s.odd \subseteq Odds /\ s.ret \in Int
BY DEF States, Tables

\* What the helpers make of the parts of a state.
LEMMA RetParts ==
    ASSUME NEW s \in States, NEW n \in Int
    PROVE  /\ Ret(s, n) \in States
           /\ Ret(s, n).table = s.table /\ Ret(s, n).odd = s.odd /\ Ret(s, n).ret = n
BY DEF Ret, States

LEMMA CountReaderParts ==
    ASSUME NEW oft \in [Ofts -> Entries], NEW o \in Ofts, NEW prev \in Ofts
    PROVE  /\ CountReader(oft, o, prev) \in [Ofts -> Entries]
           /\ CountReader(oft, o, prev) = [x \in Ofts |->
                IF x \in {o, prev} THEN [oft[x] EXCEPT !.ref = oft[prev].ref + 1] ELSE oft[x]]
<1> DEFINE ref == oft[prev].ref + 1
           oft1 == [oft EXCEPT ![prev].ref = ref]
           oft2 == [oft1 EXCEPT ![o].ref = ref]
<1>1. ref \in Int
  BY DEF Entries
<1>2. oft1 \in [Ofts -> Entries]
  BY <1>1 DEF Entries
<1>3. oft2 \in [Ofts -> Entries]
  BY <1>1, <1>2 DEF Entries
<1>4. oft2 = [x \in Ofts |-> IF x \in {o, prev} THEN [oft[x] EXCEPT !.ref = ref] ELSE oft[x]]
  BY DEF Entries
<1> QED BY <1>3, <1>4 DEF CountReader

OpenedTo(s, p, f, mode, r, o, k, prev) ==
    /\ r \in States /\ r.ret = k /\ r.odd = s.odd \cup Irregular(s, p, f)
    /\ \A q \in Procs, l \in Fds :
         r.table.fd[q][l] = IF q = p /\ l = k THEN o ELSE s.table.fd[q][l]
    /\ r.table.file[f] = [there |-> s.table.file[f].there,
                          size |-> IF mode = WRITE THEN 0 ELSE s.table.file[f].size,
                          mode |-> mode, ref |-> s.table.file[f].ref + 1]
    /\ \A g \in Files \ {f} : r.table.file[g] = s.table.file[g]
    /\ r.table.oft[o] = [mode |-> mode,
                         ref |-> IF s.table.file[f].mode # CLOSED
                                 THEN s.table.oft[prev].ref + 1 ELSE 1,
                         file |-> f,
                         offset |-> IF mode = APPEND THEN s.table.file[f].size ELSE 0]
    /\ \A x \in Ofts \ {o} :
         /\ r.table.oft[x].file = s.table.oft[x].file
         /\ r.table.oft[x].mode = s.table.oft[x].mode
         /\ r.table.oft[x].offset = s.table.oft[x].offset
         /\ r.table.oft[x].ref = IF x = prev /\ s.table.file[f].mode # CLOSED
                                THEN s.table.oft[prev].ref + 1 ELSE s.table.oft[x].ref

LEMMA OpenedParts ==
    ASSUME NEW s \in States, NEW p \in Procs, NEW f \in Files, NEW mode \in READ .. APPEND,
           NEW r, r = Opened(s, p, f, mode),
           NEW o, o = FreeEntry(s), NEW k, k = FreeFd(s, p), NEW prev, prev = Previous(s, f)
    PROVE  OpenedTo(s, p, f, mode, r, o, k, prev)
<1> DEFINE shared == s.table.file[f].mode # CLOSED
           entry == [s.table.oft EXCEPT ![o] =
                        [mode |-> mode, ref |-> IF shared THEN @.ref ELSE 1, file |-> f,
                         offset |-> IF mode = APPEND THEN s.table.file[f].size ELSE 0]]
           oft == IF shared THEN CountReader(entry, o, prev) ELSE entry
           fd == [s.table.fd EXCEPT ![p] = [x \in Fds |-> IF x = k THEN o ELSE @[x]]]
           file == [s.table.file EXCEPT ![f] =
                        [there |-> @.there, size |-> IF mode = WRITE THEN 0 ELSE @.size,
                         mode |-> mode, ref |-> @.ref + 1]]
<1>1. o \in Ofts /\ prev \in Ofts /\ k \in 0 .. NFD /\ k \in Int
  BY FreeOnes, PreviousIn
<1>2. mode \in CLOSED .. APPEND
  BY DEF READ, CLOSED, APPEND
<1>3. /\ s.table.oft \in [Ofts -> Entries] /\ s.table.file \in [Files -> Minodes]
      /\ s.table.fd \in [Procs -> [Fds -> Ofts \cup {NULL}]]
      /\ s.odd \subseteq Odds /\ s.ret \in Int
  BY DEF States, Tables
<1>4. entry \in [Ofts -> Entries]
  BY <1>1, <1>2, <1>3 DEF Entries, Minodes
<1>5. fd \in [Procs -> [Fds -> Ofts \cup {NULL}]]
  BY <1>1, <1>3
<1>6. file \in [Files -> Minodes]
  BY <1>2, <1>3 DEF Minodes
<1>7. Irregular(s, p, f) \subseteq Odds
  BY DEF Irregular, Odds
<1>8. /\ CountReader(entry, o, prev) \in [Ofts -> Entries]
      /\ CountReader(entry, o, prev) = [x \in Ofts |->
            IF x \in {o, prev} THEN [entry[x] EXCEPT !.ref = entry[prev].ref + 1] ELSE entry[x]]
  <2> HIDE DEF entry
  <2> QED BY <1>1, <1>4, CountReaderParts
<1>9. r = [table |-> [oft |-> oft, fd |-> fd, file |-> file],
           odd |-> s.odd \cup Irregular(s, p, f), ret |-> k]
  BY Zenon DEF Opened, Previous
<1>10. r \in States
  <2>1. oft \in [Ofts -> Entries]
    BY <1>4, <1>8
  <2> HIDE DEF oft, fd, file
  <2> QED BY <1>1, <1>3, <1>5, <1>6, <1>7, <1>9, <2>1 DEF States, Tables
<1>11. \A q \in Procs, l \in Fds : fd[q][l] = IF q = p /\ l = k THEN o ELSE s.table.fd[q][l]
  BY <1>3
<1>12. /\ file[f] = [there |-> s.table.file[f].there,
                     size |-> IF mode = WRITE THEN 0 ELSE s.table.file[f].size,
                     mode |-> mode, ref |-> s.table.file[f].ref + 1]
       /\ \A g \in Files \ {f} : file[g] = s.table.file[g]
  BY <1>3
<1>13. /\ entry[o] = [mode |-> mode, ref |-> IF shared THEN s.table.oft[o].ref ELSE 1, file |-> f,
                      offset |-> IF mode = APPEND THEN s.table.file[f].size ELSE 0]
       /\ \A x \in Ofts \ {o} : entry[x] = s.table.oft[x]
       /\ shared => entry[prev].ref = s.table.oft[prev].ref
  BY <1>1, <1>3
<1>14. /\ oft[o] = [mode |-> mode, ref |-> IF shared THEN s.table.oft[prev].ref + 1 ELSE 1,
                    file |-> f, offset |-> IF mode = APPEND THEN s.table.file[f].size ELSE 0]
       /\ \A x \in Ofts \ {o} :
            oft[x] = IF x = prev /\ shared
                     THEN [s.table.oft[x] EXCEPT !.ref = s.table.oft[prev].ref + 1]
                     ELSE s.table.oft[x]
  <2> HIDE DEF entry, shared
  <2> QED BY <1>1, <1>8, <1>13
<1>15. \A x \in Ofts \ {o} :
        /\ oft[x].file = s.table.oft[x].file /\ oft[x].mode = s.table.oft[x].mode
        /\ oft[x].offset = s.table.oft[x].offset
        /\ oft[x].ref = IF x = prev /\ shared THEN s.table.oft[prev].ref + 1
                        ELSE s.table.oft[x].ref
  <2> HIDE DEF oft, shared
  <2> SUFFICES ASSUME NEW x \in Ofts \ {o}
               PROVE  /\ oft[x].file = s.table.oft[x].file /\ oft[x].mode = s.table.oft[x].mode
                      /\ oft[x].offset = s.table.oft[x].offset
                      /\ oft[x].ref = IF x = prev /\ shared THEN s.table.oft[prev].ref + 1
                                      ELSE s.table.oft[x].ref
    OBVIOUS
  <2>1. s.table.oft[x] \in Entries
    BY <1>3
  <2>2. CASE x = prev /\ shared
    <3>1. oft[x] = [s.table.oft[x] EXCEPT !.ref = s.table.oft[prev].ref + 1]
      BY <1>14, <2>2
    <3> QED BY <2>1, <2>2, <3>1 DEF Entries
  <2>3. CASE ~(x = prev /\ shared)
    BY <1>14, <2>3
  <2> QED BY <2>2, <2>3
<1> HIDE DEF oft, fd, file
<1> QED BY <1>9, <1>10, <1>11, <1>12, <1>14, <1>15 DEF OpenedTo

\* The entries of a file can be counted.
LEMMA OftsOfCounted ==
    ASSUME NEW s, NEW f
    PROVE  /\ IsFiniteSet(OftsOf(s, f)) /\ Cardinality(OftsOf(s, f)) \in Nat
           /\ \A o \in OftsOf(s, f) : /\ Cardinality(OftsOf(s, f)) > 0
                                      /\ Cardinality(OftsOf(s, f)) <= 1 => OftsOf(s, f) = {o}
<1>1. OftsOf(s, f) \in SUBSET Ofts
  BY DEF OftsOf
<1>2. IsFiniteSet(OftsOf(s, f)) /\ Cardinality(OftsOf(s, f)) \in Nat
  BY <1>1, Constants, FS_Subset, FS_CardinalityType
<1>3. ASSUME NEW o \in OftsOf(s, f)
      PROVE  /\ Cardinality(OftsOf(s, f)) > 0
             /\ Cardinality(OftsOf(s, f)) <= 1 => OftsOf(s, f) = {o}
  <2>1. Cardinality(OftsOf(s, f)) # 0
    BY <1>2, <1>3, FS_EmptySet
  <2>2. Cardinality(OftsOf(s, f)) = 1 => \E x : OftsOf(s, f) = {x}
    BY <1>2, FS_Singleton
  <2> QED BY <1>2, <1>3, <2>1, <2>2
<1> QED BY <1>2, <1>3

LEMMA IrregularMembers ==
    ASSUME NEW s, NEW p, NEW f
    PROVE  /\ Irregular(s, p, f) \subseteq Odds
           /\ "second reader" \in Irregular(s, p, f) <=> OftsOf(s, f) # {}
           /\ "third reader" \in Irregular(s, p, f) <=> Cardinality(OftsOf(s, f)) > 1
           /\ "same inode" \in Irregular(s, p, f) <=> SameIno(s, f) # OftsOf(s, f)
           /\ "full" \in Irregular(s, p, f) <=>
                FreeFd(s, p) = NFD \/ \A o \in Ofts : s.table.oft[o].ref # 0
BY DEF Irregular, Odds

\* open_file keeps the relations, where it may open the file.
LEMMA OpenedRelated ==
    ASSUME NEW s \in States, NEW p \in Procs, NEW f \in Files, NEW mode \in READ .. APPEND,
           Sound(s), s.table.file[f].there = TRUE, MayShare(s.table.file[f].mode, mode),
           NEW r, r = Opened(s, p, f, mode), Steady(r),
           NEW o, o = FreeEntry(s), NEW k, k = FreeFd(s, p), NEW prev, prev = Previous(s, f)
    PROVE  Related(r)
<1>1. /\ r \in States /\ r.ret = k /\ r.odd = s.odd \cup Irregular(s, p, f)
      /\ \A q \in Procs, l \in Fds :
            r.table.fd[q][l] = IF q = p /\ l = k THEN o ELSE s.table.fd[q][l]
      /\ r.table.file[f] = [there |-> s.table.file[f].there,
                            size |-> IF mode = WRITE THEN 0 ELSE s.table.file[f].size,
                            mode |-> mode, ref |-> s.table.file[f].ref + 1]
      /\ \A g \in Files \ {f} : r.table.file[g] = s.table.file[g]
      /\ r.table.oft[o] = [mode |-> mode,
                           ref |-> IF s.table.file[f].mode # CLOSED
                                   THEN s.table.oft[prev].ref + 1 ELSE 1,
                           file |-> f,
                           offset |-> IF mode = APPEND THEN s.table.file[f].size ELSE 0]
      /\ \A x \in Ofts \ {o} :
            /\ r.table.oft[x].file = s.table.oft[x].file
            /\ r.table.oft[x].mode = s.table.oft[x].mode
            /\ r.table.oft[x].offset = s.table.oft[x].offset
            /\ r.table.oft[x].ref = IF x = prev /\ s.table.file[f].mode # CLOSED
                                   THEN s.table.oft[prev].ref + 1 ELSE s.table.oft[x].ref
  BY OpenedParts DEF OpenedTo
<1>2. Related(s)
  BY <1>1 DEF Sound, Steady
<1>3. /\ k # NFD /\ \E x \in Ofts : s.table.oft[x].ref = 0
      /\ SameIno(s, f) = OftsOf(s, f) /\ Cardinality(OftsOf(s, f)) <= 1
      /\ OftsOf(s, f) # {} => "second reader" \in r.odd
  <2>1. "full" \notin Irregular(s, p, f) /\ "third reader" \notin Irregular(s, p, f)
        /\ "same inode" \notin Irregular(s, p, f)
    <3>1. "full" \notin r.odd /\ "third reader" \notin r.odd /\ "same inode" \notin r.odd
      BY DEF Steady
    <3> QED BY <1>1, <3>1
  <2>2. k # NFD /\ \E x \in Ofts : s.table.oft[x].ref = 0
    BY <2>1, IrregularMembers
  <2>3. SameIno(s, f) = OftsOf(s, f)
    BY <2>1, IrregularMembers
  <2>4. Cardinality(OftsOf(s, f)) <= 1
    <3>1. ~(Cardinality(OftsOf(s, f)) > 1)
      BY <2>1, IrregularMembers
    <3>2. Cardinality(OftsOf(s, f)) \in Nat
      BY OftsOfCounted
    <3> QED BY <3>1, <3>2
  <2>5. OftsOf(s, f) # {} => "second reader" \in r.odd
    BY <1>1, IrregularMembers
  <2> QED BY <2>2, <2>3, <2>4, <2>5
<1>4. /\ o \in Ofts /\ s.table.oft[o].ref = 0 /\ k \in Fds /\ s.table.fd[p][k] = NULL
  BY <1>3, FreeOnes
<1>5. s.table.oft \in [Ofts -> Entries] /\ s.table.file \in [Files -> Minodes]
      /\ s.table.fd \in [Procs -> [Fds -> Ofts \cup {NULL}]]
  BY DEF States, Tables
<1>6. ~InUse(s, o)
  <2> SUFFICES ASSUME InUse(s, o) PROVE FALSE
    OBVIOUS
  <2>1. o \in OftsOf(s, s.table.oft[o].file)
    BY <1>4 DEF OftsOf
  <2>2. Cardinality(OftsOf(s, s.table.oft[o].file)) > 0
    BY <2>1, OftsOfCounted
  <2> QED BY <1>2, <1>4, <2>2 DEF Related, Counted
<1>7. ASSUME s.table.file[f].mode # CLOSED
      PROVE  /\ prev \in Ofts /\ prev # o /\ OftsOf(s, f) = {prev} /\ s.table.oft[prev].file = f
             /\ s.table.oft[prev].ref = 1 /\ mode = READ /\ s.table.file[f].mode = READ
             /\ "second reader" \in r.odd
  <2>1. OftsOf(s, f) # {}
    BY <1>2, <1>7 DEF Related, Modes
  <2>2. prev \in OftsOf(s, f)
    BY <1>3, <2>1, PreviousIn
  <2>3. OftsOf(s, f) = {prev} /\ Cardinality(OftsOf(s, f)) = 1
    <3>1. OftsOf(s, f) = {prev}
      BY <1>3, <2>2, OftsOfCounted
    <3> QED BY <3>1, FS_Singleton
  <2>4. prev \in Ofts /\ s.table.oft[prev].file = f /\ InUse(s, prev)
    BY <2>2, Constants DEF OftsOf, InUse
  <2>5. s.table.oft[prev].ref = 1
    BY <1>2, <2>3, <2>4 DEF Related, Counted
  <2>6. mode = READ /\ s.table.file[f].mode = READ
    BY <1>7 DEF MayShare
  <2> QED BY <1>3, <1>6, <2>1, <2>3, <2>4, <2>5, <2>6
<1>8. ASSUME s.table.file[f].mode = CLOSED
      PROVE  OftsOf(s, f) = {}
  <2> SUFFICES ASSUME NEW x \in OftsOf(s, f) PROVE FALSE
    OBVIOUS
  <2> QED BY <1>2, <1>8, Constants DEF Related, Modes, OftsOf, InUse
<1>9. \A x \in Ofts : /\ r.table.oft[x].file = IF x = o THEN f ELSE s.table.oft[x].file
                      /\ InUse(r, x) <=> x = o \/ InUse(s, x)
  BY <1>1, <1>5, Constants DEF InUse, Entries
<1>10. /\ OftsOf(r, f) = OftsOf(s, f) \cup {o} /\ o \notin OftsOf(s, f)
       /\ \A g \in Files : g # f => OftsOf(r, g) = OftsOf(s, g)
  BY <1>4, <1>6, <1>9, Constants DEF OftsOf, InUse
<1>11. Reached(r)
  <2>1. Reached(s)
    BY <1>2 DEF Related
  <2>2. \A q \in Procs, l \in Fds : s.table.fd[q][l] # o
    BY <1>4, <1>6, <2>1, Constants DEF Reached
  <2>3. \A q \in Procs, l \in Fds : r.table.fd[q][l] # NULL => InUse(r, r.table.fd[q][l])
    BY SMTT(60), <1>1, <1>4, <1>5, <1>9, <2>1 DEF Reached
  <2>4. \A q, q2 \in Procs, l, l2 \in Fds :
            r.table.fd[q][l] = r.table.fd[q2][l2] /\ r.table.fd[q][l] # NULL => q = q2 /\ l = l2
    BY <1>1, <1>4, <2>1, <2>2 DEF Reached
  <2>5. ASSUME NEW x \in Ofts, InUse(r, x)
        PROVE  \E q \in Procs, l \in Fds : r.table.fd[q][l] = x
    <3>1. CASE x = o
      BY <1>1, <1>4, <3>1
    <3>2. CASE x # o
      <4>1. PICK q \in Procs, l \in Fds : s.table.fd[q][l] = x
        BY <1>9, <2>1, <2>5, <3>2 DEF Reached
      <4>2. r.table.fd[q][l] = x
        BY <1>1, <1>4, <4>1, Constants
      <4> QED BY <4>2
    <3> QED BY <3>1, <3>2
  <2> QED BY <2>3, <2>4, <2>5 DEF Reached
<1>12. Counted(r)
  <2>1. Counted(s)
    BY <1>2 DEF Related
  <2>2. Cardinality(OftsOf(r, f)) = Cardinality(OftsOf(s, f)) + 1
    BY <1>10, OftsOfCounted, FS_AddElement
  <2> SUFFICES ASSUME NEW x \in Ofts
               PROVE  r.table.oft[x].ref =
                        IF InUse(r, x) THEN Cardinality(OftsOf(r, r.table.oft[x].file)) ELSE 0
    BY DEF Counted
  <2>3. CASE s.table.file[f].mode = CLOSED
    <3>1. Cardinality(OftsOf(r, f)) = 1
      BY <1>8, <2>2, <2>3, FS_EmptySet
    <3>2. CASE x = o
      BY <1>1, <1>9, <2>3, <3>1, <3>2
    <3>3. CASE x # o
      <4>1. r.table.oft[x].ref = s.table.oft[x].ref
        BY <1>1, <2>3, <3>3
      <4>2. InUse(s, x) => s.table.oft[x].file \in Files /\ s.table.oft[x].file # f
        BY <1>5, <1>8, <2>3 DEF InUse, OftsOf, Entries
      <4> QED BY <1>9, <1>10, <2>1, <3>3, <4>1, <4>2 DEF Counted
    <3> QED BY <3>2, <3>3
  <2>4. CASE s.table.file[f].mode # CLOSED
    <3>1. Cardinality(OftsOf(r, f)) = 2
      <4>1. OftsOf(s, f) = {prev}
        BY <1>7, <2>4
      <4>2. Cardinality(OftsOf(s, f)) = 1
        BY <4>1, FS_Singleton
      <4> QED BY <2>2, <4>2
    <3>2. CASE x = o
      <4>1. s.table.oft[prev].ref = 1
        BY <1>7, <2>4
      <4>2. r.table.oft[o].ref = 2 /\ r.table.oft[o].file = f
        BY <1>1, <2>4, <4>1
      <4> QED BY <1>9, <3>1, <3>2, <4>2
    <3>3. CASE x = prev
      <4>1. r.table.oft[x].ref = 2
        <5>1. prev \in Ofts \ {o} /\ s.table.oft[prev].ref = 1
          BY <1>7, <2>4
        <5>2. r.table.oft[prev].ref = s.table.oft[prev].ref + 1
          BY <1>1, <2>4, <5>1
        <5> QED BY <3>3, <5>1, <5>2
      <4>2. prev \in Ofts /\ prev # o /\ s.table.oft[prev].file = f
        BY <1>7, <2>4
      <4>3. InUse(s, prev)
        BY <4>2, Constants DEF InUse
      <4>4. InUse(r, x) /\ r.table.oft[x].file = f
        BY <1>9, <3>3, <4>2, <4>3
      <4> QED BY <3>1, <4>1, <4>4
    <3>4. CASE x # o /\ x # prev
      <4>1. r.table.oft[x].ref = s.table.oft[x].ref
        BY <1>1, <3>4
      <4>2. InUse(s, x) => s.table.oft[x].file \in Files /\ s.table.oft[x].file # f
        BY <1>5, <1>7, <2>4, <3>4 DEF InUse, OftsOf, Entries
      <4> QED BY <1>9, <1>10, <2>1, <3>4, <4>1, <4>2 DEF Counted
    <3> QED BY <3>2, <3>3, <3>4
  <2> QED BY <2>3, <2>4
<1>13. OneDevice(r)
  <2>1. \A x \in Ofts : InUse(s, x) /\ s.table.oft[x].file.ino = f.ino => s.table.oft[x].file = f
    BY <1>3 DEF SameIno, OftsOf
  <2>2. OneDevice(s)
    BY <1>2 DEF Related
  <2> SUFFICES ASSUME NEW x \in Ofts, NEW y \in Ofts, InUse(r, x), InUse(r, y),
                      r.table.oft[x].file.ino = r.table.oft[y].file.ino
               PROVE  r.table.oft[x].file = r.table.oft[y].file
    BY DEF OneDevice
  <2>3. CASE x # o /\ y # o
    BY SMTT(60), <1>9, <2>2, <2>3 DEF OneDevice
  <2>4. CASE x = o /\ y # o
    BY <1>9, <2>1, <2>4
  <2>5. CASE x # o /\ y = o
    BY <1>9, <2>1, <2>5
  <2> QED BY <2>3, <2>4, <2>5
<1>14. \A x \in Ofts : InUse(s, x) /\ x # o =>
            /\ r.table.oft[x].mode = s.table.oft[x].mode
            /\ r.table.oft[x].offset = s.table.oft[x].offset
            /\ s.table.oft[x].file \in Files
  BY <1>1, <1>5 DEF Entries, InUse
<1>15. Modes(r)
  <2>1. Modes(s)
    BY <1>2 DEF Related
  <2>2. ASSUME NEW x \in Ofts, InUse(r, x)
        PROVE  /\ r.table.oft[x].mode = r.table.file[r.table.oft[x].file].mode
               /\ r.table.oft[x].mode # CLOSED
    <3>1. CASE x = o
      BY <1>1, <3>1 DEF READ, APPEND, CLOSED
    <3>2. CASE x # o
      <4>1. CASE s.table.oft[x].file = f
        <5>1. x \in OftsOf(s, f)
          BY <4>1 DEF OftsOf
        <5>2. mode = s.table.file[f].mode
          BY <1>7, <1>8, <5>1
        <5>3. s.table.oft[x].mode = s.table.file[f].mode /\ s.table.oft[x].mode # CLOSED
          BY <1>9, <2>1, <2>2, <3>2, <4>1 DEF Modes
        <5>4. r.table.file[f].mode = mode /\ r.table.oft[x].file = f
          BY <1>1, <1>9, <3>2, <4>1
        <5>5. r.table.oft[x].mode = s.table.oft[x].mode
          BY <1>1, <3>2
        <5> QED BY <5>2, <5>3, <5>4, <5>5
      <4>2. CASE s.table.oft[x].file # f
        BY <1>1, <1>9, <1>14, <2>1, <2>2, <3>2, <4>2 DEF Modes
      <4> QED BY <4>1, <4>2
    <3> QED BY <3>1, <3>2
  <2>3. \A g \in Files : OftsOf(r, g) = {} => r.table.file[g].mode = CLOSED
    BY <1>1, <1>10, <2>1 DEF Modes
  <2> QED BY <2>2, <2>3 DEF Modes
<1>16. Held(r)
  <2>1. Held(s)
    BY <1>2 DEF Related
  <2> SUFFICES ASSUME NEW g \in Files
               PROVE  /\ r.table.file[g].ref \in Nat
                      /\ OftsOf(r, g) # {} => r.table.file[g].there = TRUE /\ r.table.file[g].ref > 0
                      /\ r.odd = {} => r.table.file[g].ref = IF OftsOf(r, g) = {} THEN 0 ELSE 1
    BY DEF Held
  <2>2. CASE g = f
    <3>1. r.odd = {} => s.odd = {} /\ OftsOf(s, f) = {}
      BY <1>1, <1>3
    <3> QED BY <1>1, <1>10, <2>1, <2>2, <3>1 DEF Held
  <2>3. CASE g # f
    <3>1. r.odd = {} => s.odd = {}
      BY <1>1
    <3> QED BY <1>1, <1>10, <2>1, <2>3, <3>1 DEF Held
  <2> QED BY <2>2, <2>3
<1>17. Offsets(r)
  <2>1. Offsets(s)
    BY <1>2 DEF Related
  <2> SUFFICES ASSUME NEW x \in Ofts, InUse(r, x)
               PROVE  r.table.oft[x].offset <= r.table.file[r.table.oft[x].file].size
    BY DEF Offsets
  <2>2. CASE x = o
    BY <1>1, <1>5, <2>2 DEF Minodes, WRITE, APPEND
  <2>3. CASE x # o /\ s.table.oft[x].file = f
    <3>1. x \in OftsOf(s, f)
      BY <2>3 DEF OftsOf
    <3>2. mode = READ
      BY <1>7, <1>8, <3>1
    <3> QED BY <1>1, <1>9, <1>14, <2>1, <2>3, <3>2 DEF Offsets, READ, WRITE
  <2>4. CASE x # o /\ s.table.oft[x].file # f
    BY <1>1, <1>9, <1>14, <2>1, <2>4 DEF Offsets
  <2> QED BY <2>2, <2>3, <2>4
<1> QED BY <1>11, <1>12, <1>13, <1>15, <1>16, <1>17 DEF Related

LEMMA OpenedSound ==
    ASSUME NEW s \in States, NEW p \in Procs, NEW f \in Files, NEW mode \in READ .. APPEND,
           Sound(s), s.table.file[f].there = TRUE, MayShare(s.table.file[f].mode, mode)
    PROVE  Opened(s, p, f, mode) \in States /\ Sound(Opened(s, p, f, mode))
<1>1. OpenedTo(s, p, f, mode, Opened(s, p, f, mode), FreeEntry(s), FreeFd(s, p), Previous(s, f))
  BY OpenedParts
<1>2. Opened(s, p, f, mode) \in States
  BY <1>1 DEF OpenedTo
<1>3. Steady(Opened(s, p, f, mode)) => Related(Opened(s, p, f, mode))
  BY OpenedRelated
<1> QED BY <1>2, <1>3 DEF Sound

\* What open_file makes of a file that is not there.
LEMMA MadeParts ==
    ASSUME NEW s \in States, NEW p \in Procs, NEW f \in Files, NEW mode \in READ .. APPEND
    PROVE  /\ Made(s, p, f, mode) \in States
           /\ Made(s, p, f, mode).table.oft = s.table.oft
           /\ Made(s, p, f, mode).table.fd = s.table.fd
           /\ Made(s, p, f, mode).odd = s.odd /\ Made(s, p, f, mode).ret = s.ret
           /\ \A g \in Files :
                /\ Made(s, p, f, mode).table.file[g].mode = s.table.file[g].mode
                /\ Made(s, p, f, mode).table.file[g].ref = s.table.file[g].ref
                /\ s.table.file[g].there = TRUE =>
                        /\ Made(s, p, f, mode).table.file[g].there = TRUE
                        /\ Made(s, p, f, mode).table.file[g].size = s.table.file[g].size
                /\ Made(s, p, f, mode).table.file[g].size <= s.table.file[g].size
<1> DEFINE made == [there |-> TRUE, size |-> 0, mode |-> s.table.file[f].mode,
                    ref |-> s.table.file[f].ref]
           file == [s.table.file EXCEPT ![f] = made]
           r == [s EXCEPT !.table.file[f] = made]
<1>1. s.table.file \in [Files -> Minodes]
  BY DEF States, Tables
<1>2. file \in [Files -> Minodes]
  BY <1>1 DEF Minodes
<1>3. r = [s EXCEPT !.table = [s.table EXCEPT !.file = file]]
  BY DEF States, Tables
<1>4. /\ r \in States /\ r.table.oft = s.table.oft /\ r.table.fd = s.table.fd
      /\ r.table.file = file /\ r.odd = s.odd /\ r.ret = s.ret
  <2> HIDE DEF file, r
  <2> QED BY <1>2, <1>3 DEF States, Tables
<1>5. \A g \in Files : s.table.file[g].size \in Nat /\ s.table.file[g].size <= s.table.file[g].size
  BY <1>1 DEF Minodes
<1>6. CASE s.table.file[f].there \/ mode = READ \/ p # 0
  <2>1. Made(s, p, f, mode) = s
    BY <1>6 DEF Made
  <2> QED BY <1>5, <2>1
<1>7. CASE ~(s.table.file[f].there \/ mode = READ \/ p # 0)
  <2>1. Made(s, p, f, mode) = r
    BY <1>7 DEF Made
  <2>2. \A g \in Files :
            /\ file[g].mode = s.table.file[g].mode /\ file[g].ref = s.table.file[g].ref
            /\ s.table.file[g].there = TRUE =>
                    file[g].there = TRUE /\ file[g].size = s.table.file[g].size
            /\ file[g].size <= s.table.file[g].size
    BY <1>1, <1>5, <1>7
  <2> HIDE DEF file, r
  <2> QED BY <1>4, <2>1, <2>2
<1> QED BY <1>6, <1>7

LEMMA MadeSound ==
    ASSUME NEW s \in States, NEW p \in Procs, NEW f \in Files, NEW mode \in READ .. APPEND,
           Sound(s)
    PROVE  Made(s, p, f, mode) \in States /\ Sound(Made(s, p, f, mode))
<1> DEFINE r == Made(s, p, f, mode)
<1>1. /\ r \in States /\ r.table.oft = s.table.oft /\ r.table.fd = s.table.fd /\ r.odd = s.odd
      /\ \A g \in Files :
            /\ r.table.file[g].mode = s.table.file[g].mode
            /\ r.table.file[g].ref = s.table.file[g].ref
            /\ s.table.file[g].there = TRUE =>
                    /\ r.table.file[g].there = TRUE
                    /\ r.table.file[g].size = s.table.file[g].size
  <2>1. /\ r \in States /\ r.table.oft = s.table.oft /\ r.table.fd = s.table.fd /\ r.odd = s.odd
    BY ZenonT(60), MadeParts
  <2>2. ASSUME NEW g \in Files
        PROVE  /\ r.table.file[g].mode = s.table.file[g].mode
               /\ r.table.file[g].ref = s.table.file[g].ref
               /\ s.table.file[g].there = TRUE =>
                    /\ r.table.file[g].there = TRUE
                    /\ r.table.file[g].size = s.table.file[g].size
    BY ZenonT(60), MadeParts
  <2> QED BY <2>1, <2>2
<1> HIDE DEF r
<1> SUFFICES ASSUME Steady(r) PROVE Related(r)
  BY <1>1 DEF Sound, r
<1>2. Related(s)
  BY <1>1 DEF Sound, Steady
<1>3. /\ \A o : InUse(r, o) <=> InUse(s, o)
      /\ \A g \in Files \cup {NoFile} : OftsOf(r, g) = OftsOf(s, g)
      /\ s.table.oft \in [Ofts -> Entries]
  BY <1>1 DEF InUse, OftsOf, States, Tables
<1>4. Reached(r)
  BY <1>1, <1>2, <1>3 DEF Related, Reached
<1>5. Counted(r)
  BY <1>1, <1>2, <1>3 DEF Related, Counted, InUse, Entries
<1>6. OneDevice(r)
  BY <1>1, <1>2, <1>3 DEF Related, OneDevice
<1>7. \A o \in Ofts : InUse(s, o) =>
        /\ s.table.oft[o].file \in Files /\ s.table.file[s.table.oft[o].file].there = TRUE
  <2> SUFFICES ASSUME NEW o \in Ofts, InUse(s, o)
               PROVE  /\ s.table.oft[o].file \in Files
                      /\ s.table.file[s.table.oft[o].file].there = TRUE
    OBVIOUS
  <2>1. s.table.oft[o].file \in Files
    BY <1>3 DEF InUse, Entries
  <2>2. o \in OftsOf(s, s.table.oft[o].file)
    BY DEF OftsOf
  <2> QED BY <1>2, <2>1, <2>2 DEF Related, Held
<1>8. Modes(r)
  BY <1>1, <1>2, <1>3, <1>7 DEF Related, Modes
<1>9. Held(r)
  BY <1>1, <1>2, <1>3 DEF Related, Held
<1>10. Offsets(r)
  BY <1>1, <1>2, <1>3, <1>7 DEF Related, Offsets
<1> QED BY <1>4, <1>5, <1>6, <1>8, <1>9, <1>10 DEF Related

LEMMA RetSound ==
    ASSUME NEW s \in States, Sound(s), NEW n \in Int
    PROVE  Ret(s, n) \in States /\ Sound(Ret(s, n))
<1> DEFINE r == Ret(s, n)
<1>1. r \in States /\ r.table = s.table /\ r.odd = s.odd
  BY RetParts
<1> HIDE DEF r
<1>2. \A f : OftsOf(r, f) = OftsOf(s, f)
  BY <1>1 DEF OftsOf
<1>3. \A o : InUse(r, o) <=> InUse(s, o)
  BY <1>1 DEF InUse
<1>4. Steady(r) <=> Steady(s)
  BY <1>1 DEF Steady
<1>5. Related(s) => Related(r)
  BY <1>1, <1>2, <1>3 DEF Related, Reached, Counted, OneDevice, Modes, Held, Offsets
<1>6. r \in States /\ Sound(r)
  BY <1>1, <1>4, <1>5 DEF Sound
<1> QED BY <1>6 DEF r

LEMMA OpenedResult ==
    ASSUME NEW s \in States, NEW p \in Procs, NEW f \in Files, NEW mode \in READ .. APPEND
    PROVE  /\ Opened(s, p, f, mode).ret \in 0 .. NFD
           /\ \A g \in Files : Opened(s, p, f, mode).table.file[g].size <= s.table.file[g].size
<1> SUFFICES ASSUME NEW r, r = Opened(s, p, f, mode), NEW o, o = FreeEntry(s),
                    NEW k, k = FreeFd(s, p), NEW prev, prev = Previous(s, f)
             PROVE  /\ r.ret \in 0 .. NFD
                    /\ \A g \in Files : r.table.file[g].size <= s.table.file[g].size
  BY Zenon
<1>1. OpenedTo(s, p, f, mode, r, o, k, prev)
  BY OpenedParts
<1>2. k \in 0 .. NFD
  BY FreeOnes
<1>3. \A g \in Files : s.table.file[g].size \in Nat
  BY DEF States, Tables, Minodes
<1>4. /\ r.ret = k
      /\ r.table.file[f].size = IF mode = WRITE THEN 0 ELSE s.table.file[f].size
      /\ \A g \in Files \ {f} : r.table.file[g] = s.table.file[g]
  BY <1>1 DEF OpenedTo
<1> QED BY <1>2, <1>3, <1>4

\* open_file keeps types and relations, never makes a file longer, and returns a
\* descriptor or what is none.
LEMMA OpenFileSound ==
    ASSUME NEW s \in States, NEW p \in Procs, NEW f \in Files, NEW mode \in READ .. APPEND,
           Sound(s)
    PROVE  /\ open_file(s, p, f, mode) \in States /\ Sound(open_file(s, p, f, mode))
           /\ open_file(s, p, f, mode).ret \in {-1, -3, -4} \cup 0 .. NFD
           /\ \A g \in Files : open_file(s, p, f, mode).table.file[g].size <= s.table.file[g].size
<1> DEFINE made == Made(s, p, f, mode)
           r == open_file(s, p, f, mode)
<1>1. /\ made \in States /\ Sound(made)
      /\ \A g \in Files : made.table.file[g].size <= s.table.file[g].size
  BY MadeParts, MadeSound
<1>2. \A n \in Int : /\ Ret(made, n) \in States /\ Sound(Ret(made, n))
                     /\ Ret(made, n).ret = n /\ Ret(made, n).table = made.table
                     /\ Ret(s, n) \in States /\ Sound(Ret(s, n))
                     /\ Ret(s, n).ret = n /\ Ret(s, n).table = s.table
  BY <1>1, RetSound, RetParts
<1>3. \A g \in Files : made.table.file[g].size \in Nat /\ s.table.file[g].size \in Nat
  BY <1>1 DEF States, Tables, Minodes
<1>4. ASSUME made.table.file[f].there = TRUE, MayShare(made.table.file[f].mode, mode)
      PROVE  /\ Opened(made, p, f, mode) \in States /\ Sound(Opened(made, p, f, mode))
             /\ Opened(made, p, f, mode).ret \in 0 .. NFD
             /\ \A g \in Files :
                    Opened(made, p, f, mode).table.file[g].size <= s.table.file[g].size
  <2> HIDE DEF made
  <2>1. Opened(made, p, f, mode) \in States /\ Sound(Opened(made, p, f, mode))
    BY <1>1, <1>4, OpenedSound
  <2>2. /\ Opened(made, p, f, mode).ret \in 0 .. NFD
        /\ \A g \in Files :
                Opened(made, p, f, mode).table.file[g].size <= made.table.file[g].size
    BY <1>1, OpenedResult
  <2>3. Opened(made, p, f, mode) \in States
    BY <2>1
  <2>4. \A g \in Files : Opened(made, p, f, mode).table.file[g].size \in Nat
    BY <2>3 DEF States, Tables, Minodes
  <2> QED BY <1>1, <1>3, <2>1, <2>2, <2>4
<1> HIDE DEF made
<1>5. CASE ~made.table.file[f].there
  <2>1. r = Ret(s, -1)
    BY <1>5 DEF open_file, made
  <2> QED BY <1>1, <1>2, <1>3, <2>1
<1>6. CASE made.table.file[f].there /\ mode # READ /\ p # 0
  <2>1. r = Ret(s, -3)
    BY <1>6 DEF open_file, made
  <2> QED BY <1>1, <1>2, <1>3, <2>1
<1>7. CASE /\ made.table.file[f].there /\ (mode # READ => p = 0)
           /\ MayShare(made.table.file[f].mode, mode)
  <2>1. r = Opened(made, p, f, mode)
    BY <1>7 DEF open_file, made
  <2>2. made.table.file[f].there = TRUE
    BY <1>7
  <2> QED BY <1>4, <1>7, <2>1, <2>2
<1>8. CASE /\ made.table.file[f].there /\ (mode # READ => p = 0)
           /\ ~MayShare(made.table.file[f].mode, mode)
  <2>1. r = Ret(made, -4)
    BY <1>8 DEF open_file, made
  <2> QED BY <1>1, <1>2, <1>3, <2>1
<1> QED BY <1>5, <1>6, <1>7, <1>8

LEMMA FreeOftParts ==
    /\ FreeOft \in Entries
    /\ FreeOft.mode = CLOSED /\ FreeOft.ref = 0 /\ FreeOft.file = NoFile /\ FreeOft.offset = 0
<1>1. CLOSED \in CLOSED .. APPEND /\ 0 \in Int /\ 0 \in Nat /\ NoFile \in Files \cup {NoFile}
  BY DEF CLOSED, APPEND
<1>2. FreeOft = [mode |-> CLOSED, ref |-> 0, file |-> NoFile, offset |-> 0]
  BY DEF FreeOft
<1> QED BY <1>1, <1>2 DEF Entries

\* The count that close_file finds at the entry after it has counted down.
CountLeft(s, o) ==
    IF o \in SameIno(s, s.table.oft[o].file) THEN s.table.oft[o].ref - 1 ELSE s.table.oft[o].ref

\* What close_file makes of a state in which descriptor k of p is open.
ClosedTo(s, p, k, r, o, f) ==
    /\ r \in States /\ r.ret = 1 /\ r.odd = s.odd
    /\ \A q \in Procs, l \in Fds :
            r.table.fd[q][l] = IF q = p /\ l = k THEN NULL ELSE s.table.fd[q][l]
    /\ r.table.oft[o] = FreeOft
    /\ \A x \in Ofts \ {o} :
            /\ r.table.oft[x].file = s.table.oft[x].file
            /\ r.table.oft[x].mode = s.table.oft[x].mode
            /\ r.table.oft[x].offset = s.table.oft[x].offset
            /\ r.table.oft[x].ref = IF x \in SameIno(s, f) THEN s.table.oft[x].ref - 1
                                    ELSE s.table.oft[x].ref
    /\ \A g \in Files :
            /\ r.table.file[g].there = s.table.file[g].there
            /\ r.table.file[g].size = s.table.file[g].size
            /\ r.table.file[g].mode = IF CountLeft(s, o) = 0 /\ g = f THEN CLOSED
                                      ELSE s.table.file[g].mode
            /\ r.table.file[g].ref = IF CountLeft(s, o) = 0 /\ g = f THEN s.table.file[g].ref - 1
                                     ELSE s.table.file[g].ref

LEMMA ClosedParts ==
    ASSUME NEW s \in States, NEW p \in Procs, NEW k \in Fds, s.table.fd[p][k] # NULL,
           NEW o, o = s.table.fd[p][k], NEW f, f = s.table.oft[o].file,
           NEW r, r = close_file(s, p, k)
    PROVE  ClosedTo(s, p, k, r, o, f)
<1> DEFINE counted == CountDown(s, o)
           last == counted[o].ref = 0
           oft == [counted EXCEPT ![o] = FreeOft]
           fd == [s.table.fd EXCEPT ![p][k] = NULL]
           file == IF ~last THEN s.table.file
                   ELSE [s.table.file EXCEPT ![f] =
                            [there |-> @.there, size |-> @.size, mode |-> CLOSED, ref |-> @.ref - 1]]
<1>1. /\ s.table.oft \in [Ofts -> Entries] /\ s.table.file \in [Files -> Minodes]
      /\ s.table.fd \in [Procs -> [Fds -> Ofts \cup {NULL}]]
      /\ s.odd \subseteq Odds /\ s.ret \in Int
  BY DEF States, Tables
<1>2. o \in Ofts
  BY <1>1
<1>3. \A x \in Ofts :
        /\ [s.table.oft[x] EXCEPT !.ref = @ - 1] \in Entries
        /\ [s.table.oft[x] EXCEPT !.ref = @ - 1].file = s.table.oft[x].file
        /\ [s.table.oft[x] EXCEPT !.ref = @ - 1].mode = s.table.oft[x].mode
        /\ [s.table.oft[x] EXCEPT !.ref = @ - 1].offset = s.table.oft[x].offset
        /\ [s.table.oft[x] EXCEPT !.ref = @ - 1].ref = s.table.oft[x].ref - 1
  <2> SUFFICES ASSUME NEW x \in Ofts
               PROVE  /\ [s.table.oft[x] EXCEPT !.ref = @ - 1] \in Entries
                      /\ [s.table.oft[x] EXCEPT !.ref = @ - 1].file = s.table.oft[x].file
                      /\ [s.table.oft[x] EXCEPT !.ref = @ - 1].mode = s.table.oft[x].mode
                      /\ [s.table.oft[x] EXCEPT !.ref = @ - 1].offset = s.table.oft[x].offset
                      /\ [s.table.oft[x] EXCEPT !.ref = @ - 1].ref = s.table.oft[x].ref - 1
    OBVIOUS
  <2>1. s.table.oft[x] \in Entries
    BY <1>1
  <2> QED BY <2>1 DEF Entries
<1>4. /\ counted \in [Ofts -> Entries]
      /\ \A x \in Ofts :
            /\ counted[x].file = s.table.oft[x].file /\ counted[x].mode = s.table.oft[x].mode
            /\ counted[x].offset = s.table.oft[x].offset
            /\ counted[x].ref = IF x \in SameIno(s, f) THEN s.table.oft[x].ref - 1
                                ELSE s.table.oft[x].ref
  <2>1. counted = [x \in Ofts |-> IF x \in SameIno(s, f) THEN [s.table.oft[x] EXCEPT !.ref = @ - 1]
                                  ELSE s.table.oft[x]]
    BY DEF CountDown
  <2> HIDE DEF counted
  <2> QED BY <1>1, <1>3, <2>1
<1> HIDE DEF counted
<1>5. FreeOft \in Entries
  BY FreeOftParts
<1>6. oft \in [Ofts -> Entries] /\ oft[o] = FreeOft /\ \A x \in Ofts \ {o} : oft[x] = counted[x]
  BY <1>2, <1>4, <1>5
<1>7. /\ fd \in [Procs -> [Fds -> Ofts \cup {NULL}]]
      /\ \A q \in Procs, l \in Fds : fd[q][l] = IF q = p /\ l = k THEN NULL ELSE s.table.fd[q][l]
  BY <1>1
<1>8. /\ file \in [Files -> Minodes]
      /\ \A g \in Files :
            /\ file[g].there = s.table.file[g].there /\ file[g].size = s.table.file[g].size
            /\ file[g].mode = IF last /\ g = f THEN CLOSED ELSE s.table.file[g].mode
            /\ file[g].ref = IF last /\ g = f THEN s.table.file[g].ref - 1 ELSE s.table.file[g].ref
  <2> HIDE DEF last
  <2> DEFINE fewer == [s.table.file EXCEPT ![f] =
                    [there |-> @.there, size |-> @.size, mode |-> CLOSED, ref |-> @.ref - 1]]
  <2>1. CASE last
    <3>1. file = fewer
      BY <2>1
    <3>2. CLOSED \in CLOSED .. APPEND
      BY DEF CLOSED, APPEND
    <3>3. \A g \in Files : /\ s.table.file[g] \in Minodes
                           /\ [there |-> s.table.file[g].there, size |-> s.table.file[g].size,
                               mode |-> CLOSED, ref |-> s.table.file[g].ref - 1] \in Minodes
      BY <1>1, <3>2 DEF Minodes
    <3>4. \A g \in Files : fewer[g] = IF g = f
            THEN [there |-> s.table.file[g].there, size |-> s.table.file[g].size,
                               mode |-> CLOSED, ref |-> s.table.file[g].ref - 1]
            ELSE s.table.file[g]
      BY <1>1
    <3>5. fewer \in [Files -> Minodes]
      BY <1>1, <3>3, <3>4
    <3> HIDE DEF fewer, file
    <3> QED BY <2>1, <3>1, <3>4, <3>5
  <2>2. CASE ~last
    <3>1. file = s.table.file
      BY <2>2
    <3> HIDE DEF file
    <3> QED BY <1>1, <2>2, <3>1
  <2> QED BY <2>1, <2>2
<1>9. r = [table |-> [oft |-> oft, fd |-> fd, file |-> file], odd |-> s.odd, ret |-> 1]
  BY Zenon DEF close_file, IsOpen, counted
<1>11. last <=> CountLeft(s, o) = 0
  BY <1>2, <1>4 DEF CountLeft
<1> HIDE DEF oft, fd, file, last
<1>10. r \in States
  BY <1>1, <1>6, <1>7, <1>8, <1>9 DEF States, Tables
<1> QED BY SMTT(60), <1>2, <1>4, <1>6, <1>7, <1>8, <1>9, <1>10, <1>11 DEF ClosedTo

\* close_file keeps the relations: the entry that goes was one of those counted.
LEMMA ClosedRelated ==
    ASSUME NEW s \in States, NEW p \in Procs, NEW k \in Fds, s.table.fd[p][k] # NULL,
           NEW o, o = s.table.fd[p][k], NEW f, f = s.table.oft[o].file,
           NEW r, ClosedTo(s, p, k, r, o, f), Related(s)
    PROVE  Related(r)
<1>1. /\ r \in States /\ r.odd = s.odd
      /\ \A q \in Procs, l \in Fds :
            r.table.fd[q][l] = IF q = p /\ l = k THEN NULL ELSE s.table.fd[q][l]
      /\ r.table.oft[o] = FreeOft
      /\ \A x \in Ofts \ {o} :
            /\ r.table.oft[x].file = s.table.oft[x].file
            /\ r.table.oft[x].mode = s.table.oft[x].mode
            /\ r.table.oft[x].offset = s.table.oft[x].offset
            /\ r.table.oft[x].ref = IF x \in SameIno(s, f) THEN s.table.oft[x].ref - 1
                                    ELSE s.table.oft[x].ref
      /\ \A g \in Files :
            /\ r.table.file[g].there = s.table.file[g].there
            /\ r.table.file[g].size = s.table.file[g].size
            /\ r.table.file[g].mode = IF CountLeft(s, o) = 0 /\ g = f THEN CLOSED
                                      ELSE s.table.file[g].mode
            /\ r.table.file[g].ref = IF CountLeft(s, o) = 0 /\ g = f THEN s.table.file[g].ref - 1
                                     ELSE s.table.file[g].ref
  BY DEF ClosedTo
<1>2. Reached(s) /\ Counted(s) /\ OneDevice(s) /\ Modes(s) /\ Held(s) /\ Offsets(s)
  BY DEF Related
<1>3. s.table.oft \in [Ofts -> Entries] /\ s.table.fd \in [Procs -> [Fds -> Ofts \cup {NULL}]]
      /\ s.table.file \in [Files -> Minodes]
  BY DEF States, Tables
<1>4. o \in Ofts /\ InUse(s, o) /\ f \in Files
  <2>1. o \in Ofts /\ InUse(s, o)
    BY <1>2, <1>3 DEF Reached
  <2> QED BY <1>3, <2>1 DEF InUse, Entries
<1>5. SameIno(s, f) = OftsOf(s, f)
  <2>1. \A x \in Ofts : InUse(s, x) /\ s.table.oft[x].file.ino = f.ino <=> s.table.oft[x].file = f
    BY <1>2, <1>4, Constants DEF OneDevice, InUse
  <2> QED BY <2>1 DEF SameIno, OftsOf
<1>6. o \in OftsOf(s, f) /\ Cardinality(OftsOf(s, f)) \in Nat /\ Cardinality(OftsOf(s, f)) > 0
      /\ s.table.oft[o].ref = Cardinality(OftsOf(s, f))
  <2>1. o \in OftsOf(s, f)
    BY <1>4 DEF OftsOf
  <2>2. s.table.oft[o].ref = Cardinality(OftsOf(s, f))
    BY <1>2, <1>4 DEF Counted
  <2> QED BY <2>1, <2>2, OftsOfCounted
<1>7. \A x \in Ofts : /\ InUse(r, x) <=> InUse(s, x) /\ x # o
                      /\ x # o => r.table.oft[x].file = s.table.oft[x].file
  <2>1. r.table.oft[o].file = NoFile
    BY <1>1, FreeOftParts
  <2> QED BY <1>1, <2>1 DEF InUse
<1>8. /\ OftsOf(r, f) = OftsOf(s, f) \ {o}
      /\ \A g \in Files : g # f => OftsOf(r, g) = OftsOf(s, g)
  <2>1. r.table.oft[o].file = NoFile
    BY <1>1, FreeOftParts
  <2> QED BY <1>4, <1>7, <2>1, Constants DEF OftsOf
<1>9. Cardinality(OftsOf(r, f)) = Cardinality(OftsOf(s, f)) - 1
  <2>1. IsFiniteSet(OftsOf(s, f))
    BY OftsOfCounted
  <2>2. Cardinality(OftsOf(s, f) \ {o}) = Cardinality(OftsOf(s, f)) - 1
    BY <1>6, <2>1, FS_RemoveElement
  <2> QED BY <1>8, <2>2
<1>10. CountLeft(s, o) = Cardinality(OftsOf(r, f)) /\ (CountLeft(s, o) = 0 <=> OftsOf(r, f) = {})
  <2>1. CountLeft(s, o) = Cardinality(OftsOf(r, f))
    BY <1>5, <1>6, <1>9 DEF CountLeft
  <2> QED BY <2>1, OftsOfCounted, FS_EmptySet
<1>11. Reached(r)
  <2>1. \A q \in Procs, l \in Fds : r.table.fd[q][l] # NULL =>
            /\ r.table.fd[q][l] = s.table.fd[q][l] /\ r.table.fd[q][l] # o
            /\ s.table.fd[q][l] \in Ofts
    <3> SUFFICES ASSUME NEW q \in Procs, NEW l \in Fds, r.table.fd[q][l] # NULL
                 PROVE  /\ r.table.fd[q][l] = s.table.fd[q][l] /\ r.table.fd[q][l] # o
                        /\ s.table.fd[q][l] \in Ofts
      OBVIOUS
    <3>1. ~(q = p /\ l = k) /\ r.table.fd[q][l] = s.table.fd[q][l]
      BY <1>1
    <3>2. s.table.fd[q][l] # s.table.fd[p][k]
      BY <1>2, <3>1 DEF Reached
    <3>3. s.table.fd[q][l] \in Ofts
      BY <1>3, <3>1
    <3> QED BY <3>1, <3>2, <3>3
  <2>2. \A q \in Procs, l \in Fds : r.table.fd[q][l] # NULL => InUse(r, r.table.fd[q][l])
    BY <1>2, <1>7, <2>1 DEF Reached
  <2>3. \A q, q2 \in Procs, l, l2 \in Fds :
            r.table.fd[q][l] = r.table.fd[q2][l2] /\ r.table.fd[q][l] # NULL => q = q2 /\ l = l2
    BY SMTT(60), <1>2, <2>1 DEF Reached
  <2>4. ASSUME NEW x \in Ofts, InUse(r, x)
        PROVE  \E q \in Procs, l \in Fds : r.table.fd[q][l] = x
    <3>1. InUse(s, x) /\ x # o
      BY <1>7, <2>4
    <3>2. PICK q \in Procs, l \in Fds : s.table.fd[q][l] = x
      BY <1>2, <3>1 DEF Reached
    <3>3. r.table.fd[q][l] = x
      BY <1>1, <3>1, <3>2
    <3> QED BY <3>3
  <2> QED BY <2>2, <2>3, <2>4 DEF Reached
<1>12. Counted(r)
  <2> SUFFICES ASSUME NEW x \in Ofts
               PROVE  r.table.oft[x].ref =
                        IF InUse(r, x) THEN Cardinality(OftsOf(r, r.table.oft[x].file)) ELSE 0
    BY DEF Counted
  <2>1. CASE x = o
    BY <1>1, <1>7, <2>1, FreeOftParts
  <2>2. CASE x \in OftsOf(s, f) \ {o}
    <3>1. s.table.oft[x].file = f /\ r.table.oft[x].file = f /\ InUse(r, x) /\ InUse(s, x)
      BY <1>4, <1>7, <2>2, Constants DEF OftsOf, InUse
    <3>2. s.table.oft[x].ref = Cardinality(OftsOf(s, f))
      BY <1>2, <3>1 DEF Counted
    <3>3. r.table.oft[x].ref = s.table.oft[x].ref - 1
      BY <1>1, <1>5, <2>2
    <3> QED BY <1>9, <3>1, <3>2, <3>3
  <2>3. CASE x # o /\ x \notin OftsOf(s, f)
    <3>1. s.table.oft[x].file # f /\ r.table.oft[x].ref = s.table.oft[x].ref
      BY <1>1, <1>5, <2>3 DEF OftsOf
    <3>2. CASE InUse(s, x)
      <4>1. s.table.oft[x].file \in Files
        BY <1>3, <3>2 DEF InUse, Entries
      <4>2. s.table.oft[x].ref = Cardinality(OftsOf(s, s.table.oft[x].file))
        BY <1>2, <3>2 DEF Counted
      <4> QED BY <1>7, <1>8, <2>3, <3>1, <3>2, <4>1, <4>2
    <3>3. CASE ~InUse(s, x)
      <4>1. s.table.oft[x].ref = 0
        BY <1>2, <3>3 DEF Counted
      <4> QED BY <1>7, <3>1, <3>3, <4>1
    <3> QED BY <3>2, <3>3
  <2> QED BY <2>1, <2>2, <2>3
<1>13. OneDevice(r)
  BY SMTT(60), <1>2, <1>7 DEF OneDevice
<1>14. \A x \in Ofts : InUse(s, x) => s.table.oft[x].file \in Files
  BY <1>3 DEF InUse, Entries
<1>15. Modes(r)
  <2>1. ASSUME NEW x \in Ofts, InUse(r, x)
        PROVE  /\ r.table.oft[x].mode = r.table.file[r.table.oft[x].file].mode
               /\ r.table.oft[x].mode # CLOSED
    <3>1. x # o /\ InUse(s, x) /\ r.table.oft[x].file = s.table.oft[x].file
          /\ s.table.oft[x].file \in Files
      BY <1>7, <1>14, <2>1
    <3>2. CountLeft(s, o) # 0 \/ s.table.oft[x].file # f
      BY <1>10, <3>1 DEF OftsOf
    <3>3. r.table.file[s.table.oft[x].file].mode = s.table.file[s.table.oft[x].file].mode
      BY <1>1, <3>1, <3>2
    <3>4. r.table.oft[x].mode = s.table.oft[x].mode
      BY <1>1, <3>1
    <3> QED BY <1>2, <3>1, <3>3, <3>4 DEF Modes
  <2>2. ASSUME NEW g \in Files, OftsOf(r, g) = {} PROVE r.table.file[g].mode = CLOSED
    BY <1>1, <1>2, <1>8, <1>10, <2>2 DEF Modes
  <2> QED BY <2>1, <2>2 DEF Modes
<1>16. Held(r)
  <2> SUFFICES ASSUME NEW g \in Files
               PROVE  /\ r.table.file[g].ref \in Nat
                      /\ OftsOf(r, g) # {} => r.table.file[g].there = TRUE /\ r.table.file[g].ref > 0
                      /\ r.odd = {} => r.table.file[g].ref = IF OftsOf(r, g) = {} THEN 0 ELSE 1
    BY DEF Held
  <2>1. /\ s.table.file[g].ref \in Nat
        /\ OftsOf(s, g) # {} => s.table.file[g].there = TRUE /\ s.table.file[g].ref > 0
        /\ s.odd = {} => s.table.file[g].ref = IF OftsOf(s, g) = {} THEN 0 ELSE 1
    BY <1>2 DEF Held
  <2>2. CASE g = f
    <3>1. /\ r.table.file[f].there = s.table.file[f].there
          /\ r.table.file[f].ref = IF CountLeft(s, o) = 0 THEN s.table.file[f].ref - 1
                                   ELSE s.table.file[f].ref
      BY <1>1, <1>4
    <3>2. OftsOf(s, f) # {} /\ (CountLeft(s, o) = 0 <=> OftsOf(r, f) = {}) /\ r.odd = s.odd
      BY <1>1, <1>6, <1>10
    <3>3. CASE CountLeft(s, o) = 0
      <4>1. OftsOf(r, g) = {} /\ r.table.file[g].ref = s.table.file[g].ref - 1
        BY <2>2, <3>1, <3>2, <3>3
      <4>2. OftsOf(s, g) # {}
        BY <2>2, <3>2
      <4> QED BY SMTT(60), <2>1, <3>2, <4>1, <4>2
    <3>4. CASE CountLeft(s, o) # 0
      <4>1. OftsOf(r, g) # {} /\ r.table.file[g].ref = s.table.file[g].ref
            /\ r.table.file[g].there = s.table.file[g].there
        BY <2>2, <3>1, <3>2, <3>4
      <4>2. OftsOf(s, g) # {}
        BY <2>2, <3>2
      <4> QED BY <2>1, <3>2, <4>1, <4>2
    <3> QED BY <3>3, <3>4
  <2>3. CASE g # f
    BY <1>1, <1>8, <2>1, <2>3
  <2> QED BY <2>2, <2>3
<1>17. Offsets(r)
  <2> SUFFICES ASSUME NEW x \in Ofts, InUse(r, x)
               PROVE  r.table.oft[x].offset <= r.table.file[r.table.oft[x].file].size
    BY DEF Offsets
  <2>1. x # o /\ InUse(s, x) /\ r.table.oft[x].file = s.table.oft[x].file
        /\ s.table.oft[x].file \in Files
    BY <1>7, <1>14
  <2>2. /\ r.table.file[s.table.oft[x].file].size = s.table.file[s.table.oft[x].file].size
        /\ r.table.oft[x].offset = s.table.oft[x].offset
    BY <1>1, <2>1
  <2> QED BY <1>2, <2>1, <2>2 DEF Offsets
<1> QED BY <1>11, <1>12, <1>13, <1>15, <1>16, <1>17 DEF Related

LEMMA CloseFileSound ==
    ASSUME NEW s \in States, NEW p \in Procs, NEW k, Sound(s)
    PROVE  /\ close_file(s, p, k) \in States /\ Sound(close_file(s, p, k))
           /\ close_file(s, p, k).ret \in {-1, 1}
           /\ \A g \in Files : close_file(s, p, k).table.file[g].size = s.table.file[g].size
<1>1. CASE ~IsOpen(s, p, k)
  <2>1. close_file(s, p, k) = Ret(s, -1)
    BY <1>1 DEF close_file
  <2> QED BY <2>1, RetSound, RetParts
<1>2. CASE IsOpen(s, p, k)
  <2> DEFINE o == s.table.fd[p][k]
             f == s.table.oft[o].file
             r == close_file(s, p, k)
  <2>1. k \in Fds /\ s.table.fd[p][k] # NULL
    BY <1>2 DEF IsOpen
  <2>2. ClosedTo(s, p, k, r, o, f)
    BY <2>1, ClosedParts
  <2>3. Related(s) => Related(r)
    BY <2>1, <2>2, ClosedRelated
  <2> HIDE DEF r
  <2>4. /\ r \in States /\ r.ret = 1 /\ r.odd = s.odd
        /\ \A g \in Files : r.table.file[g].size = s.table.file[g].size
    BY <2>2 DEF ClosedTo
  <2>5. Sound(r)
    BY <2>3, <2>4 DEF Sound, Steady
  <2> QED BY <2>4, <2>5 DEF r
<1> QED BY <1>1, <1>2

\* What moves an offset, and lets the file grow with it, leaves alone.
MovedTo(s, r, o) ==
    /\ r.odd = s.odd /\ r.table.fd = s.table.fd
    /\ \A x \in Ofts :
            /\ r.table.oft[x].file = s.table.oft[x].file
            /\ r.table.oft[x].mode = s.table.oft[x].mode
            /\ r.table.oft[x].ref = s.table.oft[x].ref
            /\ x # o => r.table.oft[x].offset = s.table.oft[x].offset
    /\ \A g \in Files :
            /\ r.table.file[g].there = s.table.file[g].there
            /\ r.table.file[g].mode = s.table.file[g].mode
            /\ r.table.file[g].ref = s.table.file[g].ref
            /\ r.table.file[g].size >= s.table.file[g].size

LEMMA MovedRelated ==
    ASSUME NEW s \in States, NEW r \in States, NEW o \in Ofts, MovedTo(s, r, o), Related(s),
           InUse(s, o) => r.table.oft[o].offset <= r.table.file[s.table.oft[o].file].size
    PROVE  Related(r)
<1>1. /\ r.odd = s.odd /\ r.table.fd = s.table.fd
      /\ \A x \in Ofts :
            /\ r.table.oft[x].file = s.table.oft[x].file
            /\ r.table.oft[x].mode = s.table.oft[x].mode
            /\ r.table.oft[x].ref = s.table.oft[x].ref
            /\ x # o => r.table.oft[x].offset = s.table.oft[x].offset
      /\ \A g \in Files :
            /\ r.table.file[g].there = s.table.file[g].there
            /\ r.table.file[g].mode = s.table.file[g].mode
            /\ r.table.file[g].ref = s.table.file[g].ref
            /\ r.table.file[g].size >= s.table.file[g].size
  BY DEF MovedTo
<1>2. Reached(s) /\ Counted(s) /\ OneDevice(s) /\ Modes(s) /\ Held(s) /\ Offsets(s)
  BY DEF Related
<1>3. s.table.oft \in [Ofts -> Entries] /\ s.table.fd \in [Procs -> [Fds -> Ofts \cup {NULL}]]
  BY DEF States, Tables
<1>4. \A x \in Ofts : /\ InUse(r, x) <=> InUse(s, x)
                      /\ InUse(s, x) => s.table.oft[x].file \in Files
  BY <1>1, <1>3 DEF InUse, Entries
<1>5. \A g : OftsOf(r, g) = OftsOf(s, g)
  BY <1>1 DEF OftsOf
<1>6. Reached(r)
  <2>1. \A q \in Procs, l \in Fds : s.table.fd[q][l] # NULL => s.table.fd[q][l] \in Ofts
    BY <1>3
  <2> QED BY <1>1, <1>2, <1>4, <2>1 DEF Reached
<1>7. Counted(r)
  BY <1>1, <1>2, <1>4, <1>5 DEF Counted
<1>8. OneDevice(r)
  BY SMTT(60), <1>1, <1>2, <1>4 DEF OneDevice
<1>9. Modes(r)
  BY <1>1, <1>2, <1>4, <1>5 DEF Modes
<1>10. Held(r)
  BY <1>1, <1>2, <1>5 DEF Held
<1>11. Offsets(r)
  <2> SUFFICES ASSUME NEW x \in Ofts, InUse(r, x)
               PROVE  r.table.oft[x].offset <= r.table.file[r.table.oft[x].file].size
    BY DEF Offsets
  <2>1. InUse(s, x) /\ r.table.oft[x].file = s.table.oft[x].file /\ s.table.oft[x].file \in Files
    BY <1>1, <1>4
  <2>2. CASE x = o
    BY <2>1, <2>2
  <2>3. CASE x # o
    <3>1. r.table.oft[x].offset = s.table.oft[x].offset
          /\ s.table.oft[x].offset <= s.table.file[s.table.oft[x].file].size
          /\ r.table.file[s.table.oft[x].file].size >= s.table.file[s.table.oft[x].file].size
      BY <1>1, <1>2, <2>1, <2>3 DEF Offsets
    <3>2. s.table.oft[x].offset \in Nat /\ s.table.file[s.table.oft[x].file].size \in Nat
          /\ r.table.file[s.table.oft[x].file].size \in Nat
      BY <2>1 DEF States, Tables, Entries, Minodes
    <3> QED BY <2>1, <3>1, <3>2
  <2> QED BY <2>2, <2>3
<1> QED BY <1>6, <1>7, <1>8, <1>9, <1>10, <1>11 DEF Related

\* What a descriptor that is open leads to.
LEMMA OpenDescriptor ==
    ASSUME NEW s \in States, NEW p \in Procs, NEW k, IsOpen(s, p, k)
    PROVE  /\ k \in Fds /\ s.table.fd[p][k] # NULL /\ s.table.fd[p][k] \in Ofts
           /\ OftOf(s, p, k) = s.table.oft[s.table.fd[p][k]]
           /\ s.table.oft[s.table.fd[p][k]] \in Entries
           /\ s.table.oft[s.table.fd[p][k]].offset \in Nat
           /\ Related(s) => /\ InUse(s, s.table.fd[p][k])
                            /\ s.table.oft[s.table.fd[p][k]].file \in Files
                            /\ s.table.oft[s.table.fd[p][k]].offset
                                 <= s.table.file[s.table.oft[s.table.fd[p][k]].file].size
<1>1. k \in Fds /\ s.table.fd[p][k] # NULL
  BY DEF IsOpen
<1>2. s.table.fd[p][k] \in Ofts
  BY <1>1 DEF States, Tables
<1>3. s.table.oft[s.table.fd[p][k]] \in Entries
  BY <1>2 DEF States, Tables
<1>4. ASSUME Related(s)
      PROVE  /\ InUse(s, s.table.fd[p][k])
             /\ s.table.oft[s.table.fd[p][k]].file \in Files
             /\ s.table.oft[s.table.fd[p][k]].offset
                  <= s.table.file[s.table.oft[s.table.fd[p][k]].file].size
  <2>1. InUse(s, s.table.fd[p][k])
    BY <1>1, <1>4 DEF Related, Reached
  <2>2. s.table.oft[s.table.fd[p][k]].file \in Files
    BY <1>3, <2>1 DEF InUse, Entries
  <2> QED BY <1>2, <1>4, <2>1, <2>2 DEF Related, Offsets
<1> QED BY <1>1, <1>2, <1>3, <1>4 DEF OftOf, Entries

\* A state in which one offset is another.
LEMMA OffsetMoved ==
    ASSUME NEW s \in States, NEW o \in Ofts, NEW n \in Nat, NEW ret \in Int,
           NEW r, r = Ret([s EXCEPT !.table.oft[o].offset = n], ret)
    PROVE  /\ r \in States /\ MovedTo(s, r, o) /\ r.ret = ret /\ r.table.oft[o].offset = n
           /\ r.table.file = s.table.file
<1> DEFINE oft == [s.table.oft EXCEPT ![o].offset = n]
           t == [s.table EXCEPT !.oft = oft]
<1>1. /\ s.table.oft \in [Ofts -> Entries] /\ s.table.file \in [Files -> Minodes]
      /\ s.table.fd \in [Procs -> [Fds -> Ofts \cup {NULL}]]
      /\ s.odd \subseteq Odds /\ s.ret \in Int /\ s.table \in Tables
  BY DEF States, Tables
<1>2. oft \in [Ofts -> Entries]
  BY <1>1 DEF Entries
<1>3. \A x \in Ofts : /\ oft[x].file = s.table.oft[x].file /\ oft[x].mode = s.table.oft[x].mode
                      /\ oft[x].ref = s.table.oft[x].ref
                      /\ oft[x].offset = IF x = o THEN n ELSE s.table.oft[x].offset
  <2>1. \A x \in Ofts : s.table.oft[x] \in Entries
    BY <1>1
  <2> QED BY <1>1, <2>1 DEF Entries
<1>4. [s EXCEPT !.table.oft[o].offset = n] = [s EXCEPT !.table = t]
  OBVIOUS
<1> HIDE DEF oft
<1>5. t \in Tables /\ t.oft = oft /\ t.fd = s.table.fd /\ t.file = s.table.file
  BY <1>1, <1>2 DEF Tables
<1> HIDE DEF t
<1>6. /\ [s EXCEPT !.table = t] \in States /\ [s EXCEPT !.table = t].table = t
      /\ [s EXCEPT !.table = t].odd = s.odd
  BY <1>5 DEF States
<1>7. r \in States /\ r.table = t /\ r.odd = s.odd /\ r.ret = ret
  BY ZenonT(60), <1>4, <1>6, RetParts
<1>8. \A g \in Files : s.table.file[g].size \in Nat
  BY <1>1 DEF Minodes
<1> QED BY SMTT(60), <1>3, <1>5, <1>7, <1>8 DEF MovedTo

LEMMA LseekSound ==
    ASSUME NEW s \in States, NEW p \in Procs, NEW k, NEW position \in Int, Sound(s)
    PROVE  /\ lseek_file(s, p, k, position) \in States /\ Sound(lseek_file(s, p, k, position))
           /\ lseek_file(s, p, k, position).ret \in {-1, 1}
<1> DEFINE r == lseek_file(s, p, k, position)
           o == s.table.fd[p][k]
           go == IsOpen(s, p, k) /\ position >= 0
                 /\ position < s.table.file[OftOf(s, p, k).file].size
<1>1. CASE ~go
  <2>1. r = Ret(s, -1)
    BY <1>1 DEF lseek_file
  <2> QED BY <2>1, RetSound, RetParts
<1>2. CASE go
  <2>1. o \in Ofts /\ position \in Nat /\ OftOf(s, p, k) = s.table.oft[o]
    BY SMTT(60), <1>2, OpenDescriptor
  <2>2. r = Ret([s EXCEPT !.table.oft[o].offset = position], 1)
    BY <1>2, Zenon DEF lseek_file
  <2> HIDE DEF r, o
  <2>3. /\ r \in States /\ MovedTo(s, r, o) /\ r.ret = 1 /\ r.table.oft[o].offset = position
        /\ r.table.file = s.table.file
    BY <2>1, <2>2, OffsetMoved
  <2>4. ASSUME Related(s) PROVE Related(r)
    <3>1. s.table.oft[o].file \in Files
      BY <1>2, <2>4, OpenDescriptor DEF o
    <3>2. s.table.file[s.table.oft[o].file].size \in Nat
      BY <3>1 DEF States, Tables, Minodes
    <3>3. r.table.oft[o].offset <= r.table.file[s.table.oft[o].file].size
      BY <1>2, <2>1, <2>3, <3>2
    <3> QED BY <2>1, <2>3, <2>4, <3>3, MovedRelated
  <2>5. Sound(r)
    BY <2>3, <2>4 DEF Sound, Steady, MovedTo
  <2> QED BY <2>3, <2>5 DEF r
<1> QED BY <1>1, <1>2

LEMMA TryReadSound ==
    ASSUME NEW s \in States, NEW p \in Procs, NEW k, Sound(s)
    PROVE  /\ tryRead(s, p, k) \in States /\ Sound(tryRead(s, p, k))
           /\ tryRead(s, p, k).ret \in {0, 1}
<1> DEFINE r == tryRead(s, p, k)
           o == s.table.fd[p][k]
           go == IsOpen(s, p, k) /\ OftOf(s, p, k).mode \in {READ, READ_WRITE}
                 /\ OftOf(s, p, k).offset # s.table.file[OftOf(s, p, k).file].size
<1>1. CASE ~go
  <2>1. r = Ret(s, 0)
    BY <1>1, Zenon DEF tryRead
  <2> QED BY <2>1, RetSound, RetParts
<1>2. CASE go
  <2>1. o \in Ofts /\ s.table.oft[o].offset \in Nat /\ OftOf(s, p, k) = s.table.oft[o]
    BY <1>2, OpenDescriptor
  <2>2. r = Ret([s EXCEPT !.table.oft[o].offset = s.table.oft[o].offset + 1], 1)
    <3>1. r = Ret([s EXCEPT !.table.oft[o].offset = @ + 1], 1)
      BY <1>2, Zenon DEF tryRead
    <3> QED BY <3>1
  <2> HIDE DEF r, o
  <2>3. /\ r \in States /\ MovedTo(s, r, o) /\ r.ret = 1
        /\ r.table.oft[o].offset = s.table.oft[o].offset + 1
        /\ r.table.file = s.table.file
    <3>1. s.table.oft[o].offset + 1 \in Nat
      BY <2>1
    <3> QED BY <2>1, <2>2, <3>1, OffsetMoved
  <2>4. ASSUME Related(s) PROVE Related(r)
    <3>1. s.table.oft[o].file \in Files
          /\ s.table.oft[o].offset <= s.table.file[s.table.oft[o].file].size
      BY <1>2, <2>4, OpenDescriptor DEF o
    <3>2. s.table.file[s.table.oft[o].file].size \in Nat
      BY <3>1 DEF States, Tables, Minodes
    <3>3. r.table.oft[o].offset <= r.table.file[s.table.oft[o].file].size
      BY <1>2, <2>1, <2>3, <3>1, <3>2
    <3> QED BY <2>1, <2>3, <2>4, <3>3, MovedRelated
  <2>5. Sound(r)
    BY <2>3, <2>4 DEF Sound, Steady, MovedTo
  <2> QED BY <2>3, <2>5 DEF r
<1> QED BY <1>1, <1>2

LEMMA TryWriteSound ==
    ASSUME NEW s \in States, NEW p \in Procs, NEW k, NEW room \in BOOLEAN, Sound(s)
    PROVE  /\ tryWrite(s, p, k, room) \in States /\ Sound(tryWrite(s, p, k, room))
           /\ tryWrite(s, p, k, room).ret \in {-1, 1}
<1> DEFINE r == tryWrite(s, p, k, room)
           o == s.table.fd[p][k]
           f == s.table.oft[o].file
           offset == s.table.oft[o].offset + 1
           oft == [s.table.oft EXCEPT ![o].offset = offset]
           file == [s.table.file EXCEPT ![f].size = IF offset > @ THEN offset ELSE @]
           go == IsOpen(s, p, k) /\ OftOf(s, p, k).mode # READ /\ room
<1>1. CASE ~go
  <2>1. r = Ret(s, -1)
    BY <1>1, Zenon DEF tryWrite
  <2> QED BY <2>1, RetSound, RetParts
<1>2. CASE go
  <2>1. o \in Ofts /\ offset \in Nat
    BY SMTT(60), <1>2, OpenDescriptor
  <2>2. r = [table |-> [oft |-> oft, fd |-> s.table.fd, file |-> file], odd |-> s.odd, ret |-> 1]
    BY <1>2, Zenon DEF tryWrite
  <2>3. /\ s.table.oft \in [Ofts -> Entries] /\ s.table.file \in [Files -> Minodes]
        /\ s.table.fd \in [Procs -> [Fds -> Ofts \cup {NULL}]]
        /\ s.odd \subseteq Odds
    BY DEF States, Tables
  <2> HIDE DEF offset, r, o
  <2>4. oft \in [Ofts -> Entries]
    BY <2>1, <2>3 DEF Entries
  <2>5. \A x \in Ofts : /\ oft[x].file = s.table.oft[x].file /\ oft[x].mode = s.table.oft[x].mode
                        /\ oft[x].ref = s.table.oft[x].ref
                        /\ oft[x].offset = IF x = o THEN offset ELSE s.table.oft[x].offset
    <3>1. \A x \in Ofts : s.table.oft[x] \in Entries
      BY <2>3
    <3> QED BY <2>3, <3>1 DEF Entries
  <2> HIDE DEF oft, f
  <2>6. \A g \in Files : s.table.file[g] \in Minodes /\ s.table.file[g].size \in Nat
    BY <2>3 DEF Minodes
  <2>7. \A g \in Files :
            /\ file[g].there = s.table.file[g].there /\ file[g].mode = s.table.file[g].mode
            /\ file[g].ref = s.table.file[g].ref /\ file[g].size \in Nat
            /\ file[g].size >= s.table.file[g].size /\ (g = f => offset <= file[g].size)
            /\ file[g] \in Minodes
    <3> SUFFICES ASSUME NEW g \in Files
                 PROVE  /\ file[g].there = s.table.file[g].there
                        /\ file[g].mode = s.table.file[g].mode
                        /\ file[g].ref = s.table.file[g].ref /\ file[g].size \in Nat
                        /\ file[g].size >= s.table.file[g].size /\ (g = f => offset <= file[g].size)
                        /\ file[g] \in Minodes
      OBVIOUS
    <3>1. s.table.file[g] \in Minodes /\ s.table.file[g].size \in Nat
      BY <2>6
    <3>2. CASE g = f
      <4> DEFINE size == IF offset > s.table.file[g].size THEN offset ELSE s.table.file[g].size
      <4>1. file[g] = [s.table.file[g] EXCEPT !.size = size]
        BY <2>3, <3>2
      <4>2. size \in Nat /\ size >= s.table.file[g].size /\ offset <= size
        BY <2>1, <3>1
      <4> HIDE DEF size, file
      <4> QED BY <3>1, <4>1, <4>2 DEF Minodes
    <3>3. CASE g # f
      <4>1. file[g] = s.table.file[g]
        BY <2>3, <3>3
      <4> HIDE DEF file
      <4> QED BY <3>1, <3>3, <4>1
    <3> QED BY <3>2, <3>3
  <2>8. file \in [Files -> Minodes]
    <3>1. DOMAIN file = Files /\ file = [g \in Files |-> file[g]]
      BY <2>3
    <3> HIDE DEF file
    <3> QED BY <2>7, <3>1
  <2> HIDE DEF file
  <2>9. r \in States /\ r.ret = 1
    BY <2>2, <2>3, <2>4, <2>8 DEF States, Tables
  <2>13. r.odd = s.odd /\ r.table.oft = oft /\ r.table.fd = s.table.fd /\ r.table.file = file
    BY <2>2
  <2>10. MovedTo(s, r, o)
    <3>1. \A x \in Ofts :
            /\ r.table.oft[x].file = s.table.oft[x].file
            /\ r.table.oft[x].mode = s.table.oft[x].mode
            /\ r.table.oft[x].ref = s.table.oft[x].ref
            /\ x # o => r.table.oft[x].offset = s.table.oft[x].offset
      BY <2>5, <2>13
    <3>2. \A g \in Files :
            /\ r.table.file[g].there = s.table.file[g].there
            /\ r.table.file[g].mode = s.table.file[g].mode
            /\ r.table.file[g].ref = s.table.file[g].ref
            /\ r.table.file[g].size >= s.table.file[g].size
      BY <2>7, <2>13, Zenon
    <3> QED BY <2>13, <3>1, <3>2, Zenon DEF MovedTo
  <2>11. ASSUME Related(s) PROVE Related(r)
    <3>1. f \in Files
      BY <1>2, <2>11, OpenDescriptor DEF o, f
    <3>2. r.table.oft[o].offset <= r.table.file[s.table.oft[o].file].size
      <4>1. r.table.oft[o].offset = offset
        BY <2>1, <2>5, <2>13
      <4>2. offset <= r.table.file[f].size
        BY <2>7, <2>13, <3>1
      <4> QED BY <4>1, <4>2 DEF f
    <3> QED BY <2>1, <2>9, <2>10, <2>11, <3>2, MovedRelated
  <2>12. Sound(r)
    BY <2>10, <2>11 DEF Sound, Steady, MovedTo
  <2> QED BY <2>9, <2>12 DEF r
<1> QED BY <1>1, <1>2

\* What mydup makes of a state in which entry d is open: entry o becomes a copy of it.
DupTo(s, p, r, d, o, new) ==
    /\ r \in States /\ r.ret = 1
    /\ r.odd = s.odd \cup (Irregular(s, p, s.table.oft[d].file) \cap {"full"})
    /\ r.table.file = s.table.file
    /\ \A q \in Procs, l \in Fds :
            r.table.fd[q][l] = IF q = p /\ l = new THEN o ELSE s.table.fd[q][l]
    /\ \A x \in Ofts :
            LET from == IF x = o THEN d ELSE x
            IN  /\ r.table.oft[x].file = s.table.oft[from].file
                /\ r.table.oft[x].mode = s.table.oft[from].mode
                /\ r.table.oft[x].offset = s.table.oft[from].offset
                /\ r.table.oft[x].ref =
                        IF x \in {o} \cup SameIno(s, s.table.oft[d].file)
                        THEN s.table.oft[from].ref + 1 ELSE s.table.oft[from].ref

LEMMA DupParts ==
    ASSUME NEW s \in States, NEW p \in Procs, NEW k, IsOpen(s, p, k)
    PROVE  DupTo(s, p, mydup(s, p, k), s.table.fd[p][k], FreeEntry(s), FreeFd(s, p))
<1> DEFINE d == s.table.fd[p][k]
           o == FreeEntry(s)
           new == FreeFd(s, p)
           copied == [s.table.oft EXCEPT ![o] = OftOf(s, p, k)]
           same == {o} \cup SameIno(s, OftOf(s, p, k).file)
           oft == [x \in Ofts |-> IF x \in same THEN [copied[x] EXCEPT !.ref = @ + 1] ELSE copied[x]]
           fd == [s.table.fd EXCEPT ![p] = [x \in Fds |-> IF x = new THEN o ELSE @[x]]]
           more == Irregular(s, p, OftOf(s, p, k).file) \cap {"full"}
           r == mydup(s, p, k)
<1>1. /\ s.table.oft \in [Ofts -> Entries] /\ s.table.file \in [Files -> Minodes]
      /\ s.table.fd \in [Procs -> [Fds -> Ofts \cup {NULL}]]
      /\ s.odd \subseteq Odds
  BY DEF States, Tables
<1>2. d \in Ofts /\ o \in Ofts /\ OftOf(s, p, k) = s.table.oft[d] /\ s.table.oft[d] \in Entries
  BY OpenDescriptor, FreeOnes
<1>3. r = [table |-> [oft |-> oft, fd |-> fd, file |-> s.table.file],
           odd |-> s.odd \cup more, ret |-> 1]
  BY Zenon DEF mydup
<1> HIDE DEF d, o, new, r
<1>4. \A x \in Ofts : /\ copied[x] = s.table.oft[IF x = o THEN d ELSE x]
                      /\ copied[x] \in Entries
  BY <1>1, <1>2
<1> HIDE DEF copied
<1>5. \A x \in Ofts : /\ oft[x] \in Entries
                      /\ oft[x].file = copied[x].file /\ oft[x].mode = copied[x].mode
                      /\ oft[x].offset = copied[x].offset
                      /\ oft[x].ref = IF x \in same THEN copied[x].ref + 1 ELSE copied[x].ref
  <2> SUFFICES ASSUME NEW x \in Ofts
               PROVE  /\ oft[x] \in Entries
                      /\ oft[x].file = copied[x].file /\ oft[x].mode = copied[x].mode
                      /\ oft[x].offset = copied[x].offset
                      /\ oft[x].ref = IF x \in same THEN copied[x].ref + 1 ELSE copied[x].ref
    OBVIOUS
  <2>1. oft[x] = IF x \in same THEN [copied[x] EXCEPT !.ref = @ + 1] ELSE copied[x]
    OBVIOUS
  <2> HIDE DEF oft, same
  <2> QED BY <1>4, <2>1 DEF Entries
<1>6. oft \in [Ofts -> Entries]
  BY <1>5
<1>7. fd \in [Procs -> [Fds -> Ofts \cup {NULL}]]
      /\ \A q \in Procs, l \in Fds : fd[q][l] = IF q = p /\ l = new THEN o ELSE s.table.fd[q][l]
  BY <1>1, <1>2
<1>8. same = {o} \cup SameIno(s, s.table.oft[d].file)
      /\ more = Irregular(s, p, s.table.oft[d].file) \cap {"full"}
  BY <1>2
<1>9. more \subseteq Odds
  BY DEF Odds
<1> HIDE DEF oft, fd, same, more
<1>10. r \in States /\ r.ret = 1
  BY <1>1, <1>3, <1>6, <1>7, <1>9 DEF States, Tables
<1>11. DupTo(s, p, r, d, o, new)
  BY <1>3, <1>4, <1>5, <1>7, <1>8, <1>10 DEF DupTo
<1> QED BY <1>11 DEF r, d, o, new

\* mydup keeps the relations: the copy is one entry more of the file.
LEMMA DupRelated ==
    ASSUME NEW s \in States, NEW p \in Procs, NEW k \in Fds, s.table.fd[p][k] # NULL,
           NEW d, d = s.table.fd[p][k], NEW o, o = FreeEntry(s), NEW new, new = FreeFd(s, p),
           NEW r, DupTo(s, p, r, d, o, new), Related(s), Steady(r)
    PROVE  Related(r)
<1> DEFINE f == s.table.oft[d].file
<1>1. /\ r \in States /\ r.odd = s.odd \cup (Irregular(s, p, f) \cap {"full"})
      /\ r.table.file = s.table.file
      /\ \A q \in Procs, l \in Fds :
            r.table.fd[q][l] = IF q = p /\ l = new THEN o ELSE s.table.fd[q][l]
      /\ \A x \in Ofts :
            LET from == IF x = o THEN d ELSE x
            IN  /\ r.table.oft[x].file = s.table.oft[from].file
                /\ r.table.oft[x].mode = s.table.oft[from].mode
                /\ r.table.oft[x].offset = s.table.oft[from].offset
                /\ r.table.oft[x].ref = IF x \in {o} \cup SameIno(s, f)
                                        THEN s.table.oft[from].ref + 1 ELSE s.table.oft[from].ref
  BY DEF DupTo
<1>2. Reached(s) /\ Counted(s) /\ OneDevice(s) /\ Modes(s) /\ Held(s) /\ Offsets(s)
  BY DEF Related
<1>3. s.table.oft \in [Ofts -> Entries] /\ s.table.fd \in [Procs -> [Fds -> Ofts \cup {NULL}]]
      /\ s.table.file \in [Files -> Minodes]
  BY DEF States, Tables
<1>4. d \in Ofts /\ InUse(s, d) /\ f \in Files
  <2>1. d \in Ofts /\ InUse(s, d)
    BY <1>2, <1>3 DEF Reached
  <2> QED BY <1>3, <2>1 DEF InUse, Entries
<1>5. SameIno(s, f) = OftsOf(s, f)
  <2>1. \A x \in Ofts : InUse(s, x) /\ s.table.oft[x].file.ino = f.ino <=> s.table.oft[x].file = f
    BY <1>2, <1>4, Constants DEF OneDevice, InUse
  <2> QED BY <2>1 DEF SameIno, OftsOf
<1>6. new # NFD /\ \E x \in Ofts : s.table.oft[x].ref = 0
  <2>1. "full" \notin r.odd
    BY DEF Steady
  <2> QED BY <1>1, <2>1, IrregularMembers
<1>7. o \in Ofts /\ s.table.oft[o].ref = 0 /\ new \in Fds /\ s.table.fd[p][new] = NULL
  BY <1>6, FreeOnes
<1>8. ~InUse(s, o) /\ o # d
  <2>1. ASSUME InUse(s, o) PROVE FALSE
    <3>1. s.table.oft[o].ref = Cardinality(OftsOf(s, s.table.oft[o].file))
      BY <1>2, <1>7, <2>1 DEF Counted
    <3>2. o \in OftsOf(s, s.table.oft[o].file)
      BY <1>7 DEF OftsOf
    <3>3. Cardinality(OftsOf(s, s.table.oft[o].file)) > 0
      BY <3>2, OftsOfCounted
    <3> QED BY <1>7, <3>1, <3>3
  <2> QED BY <1>4, <2>1
<1> HIDE DEF f
<1>9. /\ \A x \in Ofts : x # o => /\ r.table.oft[x].file = s.table.oft[x].file
                                  /\ r.table.oft[x].mode = s.table.oft[x].mode
                                  /\ r.table.oft[x].offset = s.table.oft[x].offset
                                  /\ r.table.oft[x].ref = IF x \in OftsOf(s, f)
                                        THEN s.table.oft[x].ref + 1 ELSE s.table.oft[x].ref
                                  /\ InUse(r, x) <=> InUse(s, x)
      /\ r.table.oft[o].file = f /\ r.table.oft[o].mode = s.table.oft[d].mode
      /\ r.table.oft[o].offset = s.table.oft[d].offset
      /\ r.table.oft[o].ref = s.table.oft[d].ref + 1 /\ InUse(r, o)
  <2>1. \A x \in Ofts : x # o => /\ r.table.oft[x].file = s.table.oft[x].file
                                 /\ r.table.oft[x].mode = s.table.oft[x].mode
                                 /\ r.table.oft[x].offset = s.table.oft[x].offset
                                 /\ r.table.oft[x].ref = IF x \in OftsOf(s, f)
                                        THEN s.table.oft[x].ref + 1 ELSE s.table.oft[x].ref
    BY <1>1, <1>5
  <2>2. r.table.oft[o].file = f /\ r.table.oft[o].mode = s.table.oft[d].mode
        /\ r.table.oft[o].offset = s.table.oft[d].offset
        /\ r.table.oft[o].ref = s.table.oft[d].ref + 1
    BY <1>1, <1>7 DEF f
  <2> QED BY <1>4, <2>1, <2>2, Constants DEF InUse
<1>10. s.table.oft[d].file = f
  BY DEF f
<1>11. /\ OftsOf(r, f) = OftsOf(s, f) \cup {o} /\ o \notin OftsOf(s, f) /\ d \in OftsOf(s, f)
       /\ \A g \in Files : g # f => OftsOf(r, g) = OftsOf(s, g)
  <2>1. o \notin OftsOf(s, f) /\ d \in OftsOf(s, f)
    BY <1>4, <1>8, <1>10, Constants DEF OftsOf, InUse
  <2>2. \A x \in Ofts : x \in OftsOf(r, f) <=> x \in OftsOf(s, f) \cup {o}
    BY <1>9 DEF OftsOf
  <2>3. ASSUME NEW g \in Files, g # f PROVE OftsOf(r, g) = OftsOf(s, g)
    <3>1. s.table.oft[o].file # g /\ r.table.oft[o].file # g
      BY <1>8, <1>9, <2>3, Constants DEF InUse
    <3>2. \A x \in Ofts : r.table.oft[x].file = g <=> s.table.oft[x].file = g
      BY <1>9, <3>1
    <3> QED BY <3>2 DEF OftsOf
  <2>4. OftsOf(r, f) \subseteq Ofts /\ OftsOf(s, f) \cup {o} \subseteq Ofts
    BY <1>7 DEF OftsOf
  <2>5. OftsOf(r, f) = OftsOf(s, f) \cup {o}
    BY <2>2, <2>4
  <2> QED BY <2>1, <2>3, <2>5
<1>12. /\ Cardinality(OftsOf(r, f)) = Cardinality(OftsOf(s, f)) + 1
       /\ Cardinality(OftsOf(s, f)) \in Nat
  <2>1. IsFiniteSet(OftsOf(s, f)) /\ Cardinality(OftsOf(s, f)) \in Nat
    BY OftsOfCounted
  <2>2. Cardinality(OftsOf(s, f) \cup {o}) = Cardinality(OftsOf(s, f)) + 1
    BY <1>11, <2>1, FS_AddElement
  <2> QED BY <1>11, <2>1, <2>2
<1>13. \A x \in Ofts : InUse(s, x) => s.table.oft[x].file \in Files
  BY <1>3 DEF InUse, Entries
<1>14. Reached(r)
  <2>1. \A q \in Procs, l \in Fds :
            s.table.fd[q][l] # NULL => s.table.fd[q][l] \in Ofts /\ s.table.fd[q][l] # o
    BY <1>2, <1>3, <1>8 DEF Reached
  <2>2. \A q \in Procs, l \in Fds : r.table.fd[q][l] # NULL => InUse(r, r.table.fd[q][l])
    <3> SUFFICES ASSUME NEW q \in Procs, NEW l \in Fds, r.table.fd[q][l] # NULL
                 PROVE  InUse(r, r.table.fd[q][l])
      OBVIOUS
    <3>1. CASE q = p /\ l = new
      BY <1>1, <1>9, <3>1
    <3>2. CASE ~(q = p /\ l = new)
      <4>1. r.table.fd[q][l] = s.table.fd[q][l]
        BY <1>1, <3>2
      <4>2. InUse(s, s.table.fd[q][l])
        BY <1>2, <4>1 DEF Reached
      <4> QED BY <1>9, <2>1, <4>1, <4>2
    <3> QED BY <3>1, <3>2
  <2>3. \A q, q2 \in Procs, l, l2 \in Fds :
            r.table.fd[q][l] = r.table.fd[q2][l2] /\ r.table.fd[q][l] # NULL => q = q2 /\ l = l2
    <3> SUFFICES ASSUME NEW q \in Procs, NEW q2 \in Procs, NEW l \in Fds, NEW l2 \in Fds,
                        r.table.fd[q][l] = r.table.fd[q2][l2], r.table.fd[q][l] # NULL
                 PROVE  q = q2 /\ l = l2
      OBVIOUS
    <3>1. r.table.fd[q][l] = IF q = p /\ l = new THEN o ELSE s.table.fd[q][l]
      BY <1>1
    <3>2. r.table.fd[q2][l2] = IF q2 = p /\ l2 = new THEN o ELSE s.table.fd[q2][l2]
      BY <1>1
    <3>3. CASE (q = p /\ l = new) \/ (q2 = p /\ l2 = new)
      <4>1. r.table.fd[q][l] = o /\ r.table.fd[q2][l2] = o
        BY <3>1, <3>2, <3>3
      <4>2. o # NULL
        BY <1>7, Constants
      <4>3. q = p /\ l = new
        BY <2>1, <3>1, <4>1, <4>2
      <4>4. q2 = p /\ l2 = new
        BY <2>1, <3>2, <4>1, <4>2
      <4> QED BY <4>3, <4>4
    <3>4. CASE ~(q = p /\ l = new) /\ ~(q2 = p /\ l2 = new)
      <4>1. s.table.fd[q][l] = s.table.fd[q2][l2] /\ s.table.fd[q][l] # NULL
        BY <3>1, <3>2, <3>4
      <4> QED BY <1>2, <4>1 DEF Reached
    <3> QED BY <3>3, <3>4
  <2>4. ASSUME NEW x \in Ofts, InUse(r, x)
        PROVE  \E q \in Procs, l \in Fds : r.table.fd[q][l] = x
    <3>1. CASE x = o
      <4>1. r.table.fd[p][new] = o
        BY <1>1, <1>7
      <4> QED BY <1>7, <3>1, <4>1
    <3>2. CASE x # o
      <4>1. InUse(s, x)
        BY <1>9, <2>4, <3>2
      <4>2. PICK q \in Procs, l \in Fds : s.table.fd[q][l] = x
        BY <1>2, <4>1 DEF Reached
      <4>3. ~(q = p /\ l = new)
        BY <1>7, <4>2, Constants
      <4>4. r.table.fd[q][l] = x
        BY <1>1, <4>2, <4>3
      <4> QED BY <4>4
    <3> QED BY <3>1, <3>2
  <2> QED BY <2>2, <2>3, <2>4 DEF Reached
<1>15. Counted(r)
  <2> SUFFICES ASSUME NEW x \in Ofts
               PROVE  r.table.oft[x].ref =
                        IF InUse(r, x) THEN Cardinality(OftsOf(r, r.table.oft[x].file)) ELSE 0
    BY DEF Counted
  <2>1. CASE x = o
    <3>1. s.table.oft[d].ref = Cardinality(OftsOf(s, f))
      BY <1>2, <1>4, <1>10 DEF Counted
    <3> QED BY <1>9, <1>12, <2>1, <3>1
  <2>2. CASE x # o /\ InUse(s, x)
    <3>1. s.table.oft[x].file \in Files
          /\ s.table.oft[x].ref = Cardinality(OftsOf(s, s.table.oft[x].file))
      BY <1>2, <1>13, <2>2 DEF Counted
    <3>2. CASE s.table.oft[x].file = f
      <4>1. x \in OftsOf(s, f)
        BY <3>2 DEF OftsOf
      <4> QED BY <1>9, <1>12, <2>2, <3>1, <3>2, <4>1
    <3>3. CASE s.table.oft[x].file # f
      <4>1. x \notin OftsOf(s, f)
        BY <3>3 DEF OftsOf
      <4> QED BY <1>9, <1>11, <2>2, <3>1, <3>3, <4>1
    <3> QED BY <3>2, <3>3
  <2>3. CASE x # o /\ ~InUse(s, x)
    <3>1. s.table.oft[x].ref = 0
      BY <1>2, <2>3 DEF Counted
    <3>2. x \notin OftsOf(s, f)
      BY <1>4, <2>3, Constants DEF OftsOf, InUse
    <3> QED BY <1>9, <2>3, <3>1, <3>2
  <2> QED BY <2>1, <2>2, <2>3
<1>16. \A x \in Ofts : InUse(r, x) =>
            LET y == IF x = o THEN d ELSE x
            IN  /\ y \in Ofts /\ InUse(s, y) /\ s.table.oft[y].file \in Files
                /\ r.table.oft[x].file = s.table.oft[y].file
                /\ r.table.oft[x].mode = s.table.oft[y].mode
                /\ r.table.oft[x].offset = s.table.oft[y].offset
  BY <1>4, <1>9, <1>10, <1>13
<1>17. OneDevice(r)
  <2> SUFFICES ASSUME NEW x \in Ofts, NEW y \in Ofts, InUse(r, x), InUse(r, y),
                      r.table.oft[x].file.ino = r.table.oft[y].file.ino
               PROVE  r.table.oft[x].file = r.table.oft[y].file
    BY DEF OneDevice
  <2>1. PICK x1 \in Ofts : InUse(s, x1) /\ r.table.oft[x].file = s.table.oft[x1].file
    BY <1>16
  <2>2. PICK y1 \in Ofts : InUse(s, y1) /\ r.table.oft[y].file = s.table.oft[y1].file
    BY <1>16
  <2> QED BY <1>2, <2>1, <2>2 DEF OneDevice
<1>18. Modes(r)
  <2>1. ASSUME NEW x \in Ofts, InUse(r, x)
        PROVE  /\ r.table.oft[x].mode = r.table.file[r.table.oft[x].file].mode
               /\ r.table.oft[x].mode # CLOSED
    BY SMTT(60), <1>1, <1>2, <1>16, <2>1 DEF Modes
  <2>2. ASSUME NEW g \in Files, OftsOf(r, g) = {} PROVE r.table.file[g].mode = CLOSED
    BY <1>1, <1>2, <1>11, <2>2 DEF Modes
  <2> QED BY <2>1, <2>2 DEF Modes
<1>19. Held(r)
  <2>1. \A g \in Files : OftsOf(r, g) = {} <=> OftsOf(s, g) = {}
    BY <1>11
  <2>2. r.odd = s.odd
    <3>1. "full" \notin r.odd
      BY DEF Steady
    <3> QED BY <1>1, <3>1
  <2> QED BY <1>1, <1>2, <2>1, <2>2 DEF Held
<1>20. Offsets(r)
  BY <1>1, <1>2, <1>16 DEF Offsets
<1> QED BY <1>14, <1>15, <1>17, <1>18, <1>19, <1>20 DEF Related

LEMMA DupSound ==
    ASSUME NEW s \in States, NEW p \in Procs, NEW k, Sound(s)
    PROVE  /\ mydup(s, p, k) \in States /\ Sound(mydup(s, p, k))
           /\ mydup(s, p, k).ret \in {-1, 1}
<1>1. CASE ~IsOpen(s, p, k)
  <2>1. mydup(s, p, k) = Ret(s, -1)
    BY <1>1 DEF mydup
  <2> QED BY <2>1, RetSound, RetParts
<1>2. CASE IsOpen(s, p, k)
  <2> DEFINE r == mydup(s, p, k)
             d == s.table.fd[p][k]
             o == FreeEntry(s)
             new == FreeFd(s, p)
  <2>1. k \in Fds /\ d # NULL
    BY <1>2 DEF IsOpen
  <2>2. DupTo(s, p, r, d, o, new)
    BY <1>2, DupParts
  <2>3. Related(s) /\ Steady(r) => Related(r)
    BY <2>1, <2>2, DupRelated
  <2> HIDE DEF r, d, o, new
  <2>4. r \in States /\ r.ret = 1 /\ s.odd \subseteq r.odd
    BY <2>2 DEF DupTo
  <2>5. Sound(r)
    BY <2>3, <2>4 DEF Sound, Steady
  <2> QED BY <2>4, <2>5 DEF r
<1> QED BY <1>1, <1>2

-------------------------------------------------------------------------------
\* The commands.
LEMMA GoodParts ==
    ASSUME NEW s
    PROVE  s \in Good <=> s \in States /\ Sound(s)
BY DEF Good

\* The value of open_file is an error, a descriptor, or one beyond the last.
LEMMA OpenFileResult ==
    ASSUME NEW s \in Good, NEW p \in Procs, NEW f \in Files, NEW mode \in READ .. APPEND
    PROVE  /\ open_file(s, p, f, mode) \in Good
           /\ \/ open_file(s, p, f, mode).ret \in {-1, -3, -4}
              \/ open_file(s, p, f, mode).ret = NFD
              \/ open_file(s, p, f, mode).ret \in Fds
           /\ open_file(s, p, f, mode).ret # DIES
           /\ \A g \in Files : open_file(s, p, f, mode).table.file[g].size <= s.table.file[g].size
<1>1. s \in States /\ Sound(s)
  BY GoodParts
<1> DEFINE r == open_file(s, p, f, mode)
<1>2. /\ r \in States /\ Sound(r) /\ r.ret \in {-1, -3, -4} \cup 0 .. NFD
      /\ \A g \in Files : r.table.file[g].size <= s.table.file[g].size
  BY <1>1, OpenFileSound
<1> HIDE DEF r
<1>3. r.ret \in 0 .. NFD => r.ret = NFD \/ r.ret \in Fds
  BY Constants DEF Fds
<1>4. r.ret # DIES
  BY <1>2, Constants DEF DIES
<1>5. r \in Good
  BY <1>2, GoodParts
<1> QED BY <1>2, <1>3, <1>4, <1>5 DEF r

LEMMA Modes4 ==
    READ \in READ .. APPEND /\ WRITE \in READ .. APPEND /\ APPEND \in READ .. APPEND
BY DEF READ, WRITE, APPEND

LEMMA CatGood ==
    ASSUME NEW s \in Good, NEW p \in Procs, NEW f \in Files
    PROVE  /\ cat(s, p, f) \in Good
           /\ cat(s, p, f).ret = DIES =>
                \A g \in Files : cat(s, p, f).table.file[g].size <= s.table.file[g].size
<1> DEFINE opened == open_file(s, p, f, READ)
           r == cat(s, p, f)
<1>1. /\ opened \in Good
      /\ opened.ret \in {-1, -3, -4} \/ opened.ret = NFD \/ opened.ret \in Fds
      /\ opened.ret # DIES
      /\ \A g \in Files : opened.table.file[g].size <= s.table.file[g].size
  BY OpenFileResult, Modes4
<1>2. opened \in States /\ Sound(opened)
  BY <1>1, GoodParts
<1> HIDE DEF opened
<1>3. NFD >= 0 /\ NFD \notin Fds /\ \A k \in Fds : k >= 0
  BY Constants DEF Fds
<1>4. CASE opened.ret \in {-1, -3, -4}
  <2>1. r = opened
    BY <1>3, <1>4 DEF cat, opened
  <2> QED BY <1>1, <2>1
<1>5. CASE opened.ret = NFD
  <2>1. r = Ret(opened, DIES)
    BY <1>3, <1>5 DEF cat, opened
  <2>2. Ret(opened, DIES) \in Good /\ Ret(opened, DIES).table = opened.table
    BY <1>2, RetSound, RetParts, GoodParts DEF DIES
  <2> QED BY <1>1, <2>1, <2>2
<1>6. CASE opened.ret \in Fds
  <2>1. r = close_file(opened, p, opened.ret)
    BY <1>3, <1>6 DEF cat, opened
  <2>2. r \in Good /\ r.ret # DIES
    BY <1>2, <2>1, CloseFileSound, GoodParts DEF DIES
  <2> QED BY <2>2
<1> QED BY <1>1, <1>4, <1>5, <1>6

LEMMA WriteGood ==
    ASSUME NEW s \in Good, NEW p \in Procs, NEW f \in Files, NEW mode \in READ .. APPEND,
           NEW room \in BOOLEAN
    PROVE  write(s, p, f, mode, room) \in Good /\ write(s, p, f, mode, room).ret # DIES
<1> DEFINE opened == open_file(s, p, f, mode)
           written == tryWrite(opened, p, opened.ret, room)
           r == close_file(written, p, opened.ret)
<1>1. opened \in States /\ Sound(opened)
  BY OpenFileResult, GoodParts
<1> HIDE DEF opened
<1>2. written \in States /\ Sound(written)
  BY <1>1, TryWriteSound
<1> HIDE DEF written
<1>3. r \in Good /\ r.ret # DIES
  BY <1>2, CloseFileSound, GoodParts DEF DIES
<1>4. write(s, p, f, mode, room) = r
  BY DEF write, opened, written
<1> QED BY <1>3, <1>4

\* The loop of copyFile.
LEMMA CopyFileGood ==
    ASSUME NEW s \in Good, NEW p \in Procs, NEW source, NEW dest, NEW room
    PROVE  copyFile(s, p, source, dest, room) \in Good
<1> DEFINE Turn(n, x) == LET r == tryRead(x, p, source)
                      IN  IF r.ret = 1 THEN tryWrite(r, p, dest, n <= room) ELSE r
           g == [n \in 1 .. MaxSize |-> [x \in Good |-> Turn(n, x)]]
           Loop(h) == [n \in 0 .. MaxSize |-> IF n = 0 THEN s ELSE Turn(n, h[n - 1])]
           copied == CHOOSE h : h = Loop(h)
<1>1. MaxSize \in Nat
  BY OpenFilesAssumption
<1>2. \A n \in 1 .. MaxSize : \A x \in Good : Turn(n, x) \in Good
  <2> SUFFICES ASSUME NEW n \in 1 .. MaxSize, NEW x \in Good PROVE Turn(n, x) \in Good
    OBVIOUS
  <2> DEFINE r == tryRead(x, p, source)
  <2>1. r \in States /\ Sound(r)
    BY TryReadSound, GoodParts
  <2> HIDE DEF r
  <2>2. tryWrite(r, p, dest, n <= room) \in Good /\ r \in Good
    BY <2>1, TryWriteSound, GoodParts, (n <= room) \in BOOLEAN
  <2>3. Turn(n, x) = IF r.ret = 1 THEN tryWrite(r, p, dest, n <= room) ELSE r
    BY DEF r
  <2> QED BY <2>2, <2>3
<1>3. copyFile(s, p, source, dest, room) = copied[MaxSize]
  BY Zenon DEF copyFile
<1> HIDE DEF Turn
<1>4. \E h : h = Loop(h)
  <2>1. g \in [1 .. MaxSize -> [Good -> Good]]
    BY <1>2
  <2> HIDE DEF g
  <2>5. HasRecursion(MaxSize, Good, s, g)
    BY <1>1, <2>1, RecursionExists
  <2>2. PICK h \in [0 .. MaxSize -> Good] :
            h[0] = s /\ \A n \in 1 .. MaxSize : h[n] = g[n][h[n - 1]]
    BY <2>5 DEF HasRecursion
  <2>3. \A n \in 1 .. MaxSize : h[n] = Turn(n, h[n - 1])
    <3> SUFFICES ASSUME NEW n \in 1 .. MaxSize PROVE h[n] = Turn(n, h[n - 1])
      OBVIOUS
    <3>1. n - 1 \in 0 .. MaxSize
      BY <1>1
    <3>2. h[n - 1] \in Good
      BY <3>1
    <3>3. g[n][h[n - 1]] = Turn(n, h[n - 1])
      BY <3>2 DEF g
    <3> QED BY <2>2, <3>3
  <2>4. h = Loop(h)
    BY <1>1, <2>2, <2>3
  <2> QED BY <2>4
<1>5. copied = Loop(copied)
  BY <1>4, Zenon
<1> HIDE DEF copied
<1>6. copied[0] = s /\ \A n \in 1 .. MaxSize : copied[n] = Turn(n, copied[n - 1])
  BY <1>1, <1>5
<1>7. \A n \in 0 .. MaxSize : copied[n] \in Good
  BY <1>1, <1>2, <1>6, LoopStays
<1> QED BY <1>1, <1>3, <1>7

LEMMA TryCopyGood ==
    ASSUME NEW s \in Good, NEW p \in Procs, NEW f \in Files, NEW g \in Files, NEW room
    PROVE  /\ tryCopy(s, p, f, g, room) \in Good
           /\ tryCopy(s, p, f, g, room).ret = DIES =>
                \A h \in Files : tryCopy(s, p, f, g, room).table.file[h].size <= s.table.file[h].size
<1> DEFINE source == open_file(s, p, f, READ)
           dest == open_file(source, p, g, WRITE)
           copied == copyFile(dest, p, source.ret, dest.ret, room)
           r == tryCopy(s, p, f, g, room)
<1> SUFFICES /\ r \in Good
             /\ r.ret = DIES => \A h \in Files : r.table.file[h].size <= s.table.file[h].size
  OBVIOUS
<1>1. /\ source \in Good
      /\ source.ret \in {-1, -3, -4} \/ source.ret = NFD \/ source.ret \in Fds
      /\ source.ret # DIES
      /\ \A h \in Files : source.table.file[h].size <= s.table.file[h].size
  BY OpenFileResult, Modes4
<1> HIDE DEF source
<1>2. /\ dest \in Good
      /\ dest.ret \in {-1, -3, -4} \/ dest.ret = NFD \/ dest.ret \in Fds
      /\ dest.ret # DIES
      /\ \A h \in Files : dest.table.file[h].size <= source.table.file[h].size
  BY <1>1, OpenFileResult, Modes4
<1> HIDE DEF dest
<1>3. copied \in Good
  BY <1>2, CopyFileGood
<1> HIDE DEF copied
<1>4. NFD >= 0 /\ NFD \notin Fds /\ \A k \in Fds : k >= 0
  BY Constants DEF Fds
<1>5. source.ret < 0 \/ source.ret >= 0
  BY <1>1, <1>4
<1>12. source.ret \in Int
  BY <1>1, GoodParts DEF States
<1>11. r = CASE ~s.table.file[f].there -> Ret(s, -3)
             [] s.table.file[f].there /\ source.ret < 0 -> source
             [] s.table.file[f].there /\ source.ret >= 0 /\ dest.ret < 0 ->
                    close_file(dest, p, source.ret)
             [] s.table.file[f].there /\ source.ret >= 0 /\ dest.ret = NFD -> Ret(dest, DIES)
             [] s.table.file[f].there /\ source.ret >= 0 /\ dest.ret \in Fds ->
                    close_file(close_file(copied, p, dest.ret), p, source.ret)
  BY Zenon DEF tryCopy, source, dest, copied
<1> HIDE DEF r
<1>6. CASE ~s.table.file[f].there
  <2>1. r = Ret(s, -3)
    BY <1>6, <1>11
  <2>2. Ret(s, -3) \in Good /\ Ret(s, -3).ret = -3
    BY RetSound, RetParts, GoodParts
  <2> QED BY <2>1, <2>2 DEF DIES
<1>7. CASE s.table.file[f].there /\ source.ret < 0
  <2>1. r = source
    <3>1. ~(source.ret >= 0)
      <4>1. source.ret < 0
        BY <1>7, Zenon
      <4> QED BY <1>12, <4>1
    <3> QED BY <1>7, <1>11, <3>1, Zenon
  <2> QED BY <1>1, <2>1
<1>8. CASE s.table.file[f].there /\ source.ret >= 0 /\ dest.ret \in {-1, -3, -4}
  <2>1. r = close_file(dest, p, source.ret)
    BY <1>1, <1>4, <1>8, <1>11
  <2>2. r \in Good /\ r.ret # DIES
    BY <1>2, <2>1, CloseFileSound, GoodParts DEF DIES
  <2> QED BY <2>2
<1>9. CASE s.table.file[f].there /\ source.ret >= 0 /\ dest.ret = NFD
  <2>1. r = Ret(dest, DIES)
    BY <1>1, <1>4, <1>9, <1>11
  <2>2. Ret(dest, DIES) \in Good /\ Ret(dest, DIES).table = dest.table
    BY <1>2, RetSound, RetParts, GoodParts DEF DIES
  <2>3. source \in States /\ dest \in States
    BY <1>1, <1>2, GoodParts
  <2>4. s \in States
    BY GoodParts
  <2>5. \A h \in Files : /\ s.table.file[h].size \in Nat /\ source.table.file[h].size \in Nat
                         /\ dest.table.file[h].size \in Nat
    BY <2>3, <2>4 DEF States, Tables, Minodes
  <2> QED BY <1>1, <1>2, <2>1, <2>2, <2>5
<1>10. CASE s.table.file[f].there /\ source.ret >= 0 /\ dest.ret \in Fds
  <2> DEFINE closed == close_file(copied, p, dest.ret)
  <2>1. r = close_file(closed, p, source.ret)
    BY <1>1, <1>4, <1>10, <1>11
  <2>2. closed \in States /\ Sound(closed)
    BY <1>3, CloseFileSound, GoodParts
  <2> HIDE DEF closed
  <2>3. r \in Good /\ r.ret # DIES
    BY <2>1, <2>2, CloseFileSound, GoodParts DEF DIES
  <2> QED BY <2>3
<1> QED BY <1>2, <1>5, <1>6, <1>7, <1>8, <1>9, <1>10

\* kill_process, where it closes the descriptors that the killed process has open: the
\* process is the running one, or it has none.
LEMMA CloseAllGood ==
    ASSUME NEW s \in Good, NEW p \in Procs, NEW q \in Procs,
           q = p \/ \A k \in Fds : ~IsOpen(s, q, k)
    PROVE  closeAll(s, p, q) \in Good /\ closeAll(s, p, q).odd = s.odd
<1> DEFINE S == {x \in Good : /\ x.odd = s.odd
                              /\ q = p \/ \A k \in Fds : ~IsOpen(x, q, k)}
           After(x, k) == IF IsOpen(x, q, k) THEN close_file(x, p, k) ELSE x
           Turn(x, k) == [After(x, k) EXCEPT !.table.fd[q][k] = NULL]
           g == [n \in 1 .. NFD |-> [x \in S |-> Turn(x, n - 1)]]
           Loop(h) == [n \in 0 .. NFD |-> IF n = 0 THEN s ELSE Turn(h[n - 1], n - 1)]
           closed == CHOOSE h : h = Loop(h)
<1>1. NFD \in Nat
  BY Constants
<1>2. \A x \in S, k \in Fds : Turn(x, k) \in S
  <2> SUFFICES ASSUME NEW x \in S, NEW k \in Fds PROVE Turn(x, k) \in S
    OBVIOUS
  <2>1. x \in States /\ Sound(x)
    BY GoodParts
  <2>2. /\ After(x, k) \in S /\ After(x, k) \in States
        /\ After(x, k).table.fd[q][k] = NULL
    <3>1. CASE ~IsOpen(x, q, k)
      <4>1. x.table.fd[q][k] = NULL
        BY <3>1 DEF IsOpen
      <4> QED BY <2>1, <3>1, <4>1
    <3>2. CASE IsOpen(x, q, k)
      <4>1. q = p
        BY <3>2
      <4>2. After(x, k) = close_file(x, p, k)
        BY <3>2
      <4>3. close_file(x, p, k) \in Good
        BY <2>1, CloseFileSound, GoodParts
      <4>4. /\ close_file(x, p, k).table.fd[q][k] = NULL
            /\ close_file(x, p, k).odd = x.odd
        <5>1. x.table.fd[p][k] # NULL
          BY <3>2, <4>1 DEF IsOpen
        <5> DEFINE r == close_file(x, p, k)
                   o == x.table.fd[p][k]
                   f == x.table.oft[o].file
        <5>2. ClosedTo(x, p, k, r, o, f)
          BY <2>1, <5>1, ClosedParts
        <5> HIDE DEF r, o, f
        <5>3. r.table.fd[q][k] = NULL /\ r.odd = x.odd
          BY <4>1, <5>2 DEF ClosedTo
        <5> QED BY <5>3 DEF r
      <4>5. close_file(x, p, k) \in States
        BY <4>3, GoodParts
      <4> QED BY <4>1, <4>2, <4>3, <4>4, <4>5
    <3> QED BY <3>1, <3>2
  <2> HIDE DEF After, S
  <2>3. Turn(x, k) = After(x, k)
    <3> DEFINE y == After(x, k)
               fd == [y.table.fd EXCEPT ![q][k] = NULL]
               t == [y.table EXCEPT !.fd = fd]
    <3>1. y \in States /\ y.table.fd[q][k] = NULL
      BY <2>2
    <3> HIDE DEF y
    <3>2. y.table \in Tables /\ y.table.fd \in [Procs -> [Fds -> Ofts \cup {NULL}]]
      BY <3>1 DEF States, Tables
    <3>3. fd = y.table.fd
      BY <3>1, <3>2
    <3>4. t = y.table
      <4> HIDE DEF fd
      <4> QED BY <3>2, <3>3 DEF Tables
    <3>5. [y EXCEPT !.table.fd[q][k] = NULL] = [y EXCEPT !.table = t]
      OBVIOUS
    <3>6. [y EXCEPT !.table = t] = y
      <4> HIDE DEF t
      <4> QED BY <3>1, <3>4 DEF States
    <3> QED BY <3>5, <3>6 DEF y
  <2> QED BY <2>2, <2>3
<1>3. closeAll(s, p, q) = closed[NFD]
  BY Zenon DEF closeAll
<1>4. s \in S
  OBVIOUS
<1> HIDE DEF Turn, S
<1>5. \A n \in 1 .. NFD : n - 1 \in Fds
  BY <1>1 DEF Fds
<1>6. \E h : h = Loop(h)
  <2>1. g \in [1 .. NFD -> [S -> S]]
    BY <1>2, <1>5
  <2> HIDE DEF g
  <2>5. HasRecursion(NFD, S, s, g)
    BY <1>1, <1>4, <2>1, RecursionExists
  <2>2. PICK h \in [0 .. NFD -> S] : h[0] = s /\ \A n \in 1 .. NFD : h[n] = g[n][h[n - 1]]
    BY <2>5 DEF HasRecursion
  <2>3. \A n \in 1 .. NFD : h[n] = Turn(h[n - 1], n - 1)
    <3> SUFFICES ASSUME NEW n \in 1 .. NFD PROVE h[n] = Turn(h[n - 1], n - 1)
      OBVIOUS
    <3>1. n - 1 \in 0 .. NFD
      BY <1>1
    <3>2. h[n - 1] \in S
      BY <3>1
    <3>3. g[n][h[n - 1]] = Turn(h[n - 1], n - 1)
      BY <3>2 DEF g
    <3> QED BY <2>2, <3>3
  <2>4. h = Loop(h)
    BY <1>1, <2>2, <2>3
  <2> QED BY <2>4
<1>7. closed = Loop(closed)
  BY <1>6, Zenon
<1> HIDE DEF closed
<1>8. closed[0] = s /\ \A n \in 1 .. NFD : closed[n] = Turn(closed[n - 1], n - 1)
  BY <1>1, <1>7
<1>9. \A n \in 0 .. NFD : closed[n] \in S
  BY <1>1, <1>2, <1>4, <1>5, <1>8, LoopStays
<1> QED BY <1>1, <1>3, <1>9 DEF S

-------------------------------------------------------------------------------
\* The actions.
LEMMA NowGood ==
    ASSUME IInv
    PROVE  /\ Now \in Good /\ Now \in States /\ Sound(Now) /\ running \in Procs
           /\ \A f \in Files : Now.table.file[f].size \in 0 .. MaxSize
           /\ Now.table = table /\ Now.odd = odd
<1>1. table \in Tables /\ odd \subseteq Odds /\ running \in Procs /\ Sound(Now)
  BY DEF IInv, TypeOK, Odds
<1>2. Now \in States /\ Now.table = table /\ Now.odd = odd
  BY <1>1 DEF Now, States
<1>3. \A f \in Files : table.file[f].size \in 0 .. MaxSize
  BY DEF IInv, TypeOK
<1> QED BY <1>1, <1>2, <1>3, GoodParts

\* A table in which nothing is open.
Empty(t) ==
    /\ t \in Tables
    /\ \A o \in Ofts : t.oft[o] = FreeOft
    /\ \A p \in Procs, k \in Fds : t.fd[p][k] = NULL
    /\ \A f \in Files : t.file[f].mode = CLOSED /\ t.file[f].ref = 0
                        /\ t.file[f].size \in 0 .. MaxSize

LEMMA EmptyRelated ==
    ASSUME NEW s \in States, Empty(s.table)
    PROVE  Related(s)
<1>1. \A o \in Ofts : ~InUse(s, o) /\ s.table.oft[o].ref = 0
  BY FreeOftParts DEF Empty, InUse
<1>2. \A f \in Files : OftsOf(s, f) = {}
  BY <1>1, Constants DEF OftsOf, InUse
<1>3. Reached(s)
  BY <1>1 DEF Reached, Empty
<1>4. Counted(s) /\ OneDevice(s) /\ Offsets(s)
  BY <1>1 DEF Counted, OneDevice, Offsets
<1>5. Modes(s)
  BY <1>1 DEF Modes, Empty
<1>6. Held(s)
  BY <1>2 DEF Held, Empty
<1> QED BY <1>3, <1>4, <1>5, <1>6 DEF Related

\* The types, the bounds among them, of a table whose parts are within the bounds.
LEMMA Typed ==
    ASSUME NEW t \in Tables,
           \A o \in Ofts : t.oft[o].ref \in -MaxRef .. MaxRef /\ t.oft[o].offset \in 0 .. MaxSize,
           \A f \in Files : t.file[f].ref \in -MaxRef .. MaxRef /\ t.file[f].size \in 0 .. MaxSize
    PROVE  /\ t.oft \in [Ofts -> [mode : CLOSED .. APPEND, ref : -MaxRef .. MaxRef,
                                  file : Files \cup {NoFile}, offset : 0 .. MaxSize]]
           /\ t.fd \in [Procs -> [Fds -> Ofts \cup {NULL}]]
           /\ t.file \in [Files -> [there : BOOLEAN, size : 0 .. MaxSize,
                                    mode : CLOSED .. APPEND, ref : -MaxRef .. MaxRef]]
<1>1. /\ t.oft \in [Ofts -> Entries] /\ t.file \in [Files -> Minodes]
      /\ t.fd \in [Procs -> [Fds -> Ofts \cup {NULL}]]
  BY DEF Tables
<1>2. \A o \in Ofts : t.oft[o] \in [mode : CLOSED .. APPEND, ref : -MaxRef .. MaxRef,
                                    file : Files \cup {NoFile}, offset : 0 .. MaxSize]
  BY <1>1 DEF Entries
<1>3. \A f \in Files : t.file[f] \in [there : BOOLEAN, size : 0 .. MaxSize,
                                      mode : CLOSED .. APPEND, ref : -MaxRef .. MaxRef]
  BY <1>1 DEF Minodes
<1> QED BY <1>1, <1>2, <1>3

LEMMA EmptyTyped ==
    ASSUME NEW t, Empty(t)
    PROVE  /\ t.oft \in [Ofts -> [mode : CLOSED .. APPEND, ref : -MaxRef .. MaxRef,
                                  file : Files \cup {NoFile}, offset : 0 .. MaxSize]]
           /\ t.fd \in [Procs -> [Fds -> Ofts \cup {NULL}]]
           /\ t.file \in [Files -> [there : BOOLEAN, size : 0 .. MaxSize,
                                    mode : CLOSED .. APPEND, ref : -MaxRef .. MaxRef]]
<1>1. 0 \in -MaxRef .. MaxRef /\ 0 \in 0 .. MaxSize
  BY OpenFilesAssumption
<1>2. t \in Tables
  BY DEF Empty
<1>3. \A o \in Ofts : t.oft[o].ref \in -MaxRef .. MaxRef /\ t.oft[o].offset \in 0 .. MaxSize
  BY <1>1, FreeOftParts DEF Empty
<1>4. \A f \in Files : t.file[f].ref \in -MaxRef .. MaxRef /\ t.file[f].size \in 0 .. MaxSize
  BY <1>1 DEF Empty
<1> QED BY <1>2, <1>3, <1>4, Typed

LEMMA FirstProcs ==
    {0, 1} \subseteq Procs /\ 0 \in {0, 1} /\ DOMAIN [p \in {0, 1} |-> p] = {0, 1}
BY OpenFilesAssumption DEF Procs

LEMMA InitSound == Init => IInv
<1> SUFFICES ASSUME Init PROVE IInv
  OBVIOUS
<1>1. /\ table.oft = [o \in Ofts |-> FreeOft]
      /\ table.fd = [p \in Procs |-> [k \in Fds |-> NULL]]
      /\ table.file = [f \in Files |-> [there |-> f \notin Absent, size |-> 1, mode |-> CLOSED,
                                        ref |-> 0]]
      /\ table = [oft |-> table.oft, fd |-> table.fd, file |-> table.file]
  BY DEF Init
<1>2. proc = [p \in {0, 1} |-> p] /\ running = 0 /\ odd = {}
  BY DEF Init
<1>3. 1 \in 0 .. MaxSize /\ 1 \in Nat /\ CLOSED \in CLOSED .. APPEND
  BY OpenFilesAssumption DEF CLOSED, APPEND
<1>4. Empty(table)
  <2>1. table.oft \in [Ofts -> Entries]
    BY <1>1, FreeOftParts
  <2>2. table.fd \in [Procs -> [Fds -> Ofts \cup {NULL}]]
    BY <1>1
  <2>3. table.file \in [Files -> Minodes]
    BY <1>1, <1>3 DEF Minodes
  <2>4. table \in Tables
    BY <1>1, <2>1, <2>2, <2>3 DEF Tables
  <2> QED BY <1>1, <1>3, <2>4 DEF Empty
<1>5. TypeOK
  <2>1. running \in DOMAIN proc /\ DOMAIN proc \subseteq Procs
    BY <1>2, FirstProcs
  <2> QED BY <1>2, <1>4, <2>1, EmptyTyped DEF TypeOK
<1>6. Now \in States /\ Now.table = table
  BY <1>2, <1>4 DEF Now, States, Empty
<1>7. Sound(Now)
  BY <1>4, <1>6, EmptyRelated DEF Sound
<1> QED BY <1>2, <1>4, <1>5, <1>7, FirstProcs DEF IInv, Empty

LEMMA RestartKeeps ==
    ASSUME NEW t, Empty(t), NEW why \in SUBSET Odds, Restart(t, why)
    PROVE  IInv'
<1>1. table' = t /\ proc' = [p \in {0, 1} |-> p] /\ running' = 0 /\ odd' = why
  BY DEF Restart
<1>2. TypeOK'
  <2>1. running' \in DOMAIN proc' /\ DOMAIN proc' \subseteq Procs
    BY <1>1, FirstProcs
  <2>2. why \subseteq {"second reader", "third reader", "same inode", "full", "wrong kill"}
    BY DEF Odds
  <2> QED BY <1>1, <2>1, <2>2, EmptyTyped DEF TypeOK
<1> DEFINE n == [table |-> t, odd |-> why, ret |-> 0]
<1>3. n \in States /\ n.table = t
  BY DEF States, Empty
<1>4. Sound(n)
  <2> HIDE DEF n
  <2> QED BY <1>3, EmptyRelated DEF Sound
<1>5. Now' = n
  BY <1>1 DEF Now
<1>6. Sound(Now)'
  BY <1>4, <1>5
<1>7. table' \in Tables /\ 0 \in DOMAIN proc'
  BY <1>1, FirstProcs DEF Empty
<1> QED BY <1>2, <1>6, <1>7 DEF IInv

LEMMA FreshEmpty ==
    ASSUME NEW s \in States, \A f \in Files : s.table.file[f].size <= MaxSize
    PROVE  Empty(Fresh(s))
<1> DEFINE oft == [o \in Ofts |-> FreeOft]
           fd == [p \in Procs |-> [k \in Fds |-> NULL]]
           file == [f \in Files |-> [there |-> s.table.file[f].there, size |-> s.table.file[f].size,
                                     mode |-> CLOSED, ref |-> 0]]
           t == Fresh(s)
<1>1. t = [oft |-> oft, fd |-> fd, file |-> file]
  BY Zenon DEF Fresh
<1>2. \A f \in Files : s.table.file[f] \in Minodes
  BY DEF States, Tables
<1>3. \A f \in Files : s.table.file[f].size \in 0 .. MaxSize
  BY <1>2, OpenFilesAssumption DEF Minodes
<1>4. CLOSED \in CLOSED .. APPEND
  BY DEF CLOSED, APPEND
<1>5. file \in [Files -> Minodes]
  BY <1>2, <1>4 DEF Minodes
<1>6. oft \in [Ofts -> Entries] /\ fd \in [Procs -> [Fds -> Ofts \cup {NULL}]]
  BY FreeOftParts
<1>7. /\ \A o \in Ofts : oft[o] = FreeOft
      /\ \A p \in Procs, k \in Fds : fd[p][k] = NULL
      /\ \A f \in Files : file[f].mode = CLOSED /\ file[f].ref = 0
                          /\ file[f].size = s.table.file[f].size
  OBVIOUS
<1> HIDE DEF oft, fd, file, t
<1>8. t \in Tables /\ t.oft = oft /\ t.fd = fd /\ t.file = file
  BY <1>1, <1>5, <1>6 DEF Tables
<1>9. Empty(t)
  BY <1>3, <1>7, <1>8 DEF Empty
<1> QED BY <1>9 DEF t

LEMMA QuitKeeps ==
    ASSUME IInv, Quit
    PROVE  IInv'
<1>1. Empty(Fresh(Now))
  BY NowGood, FreshEmpty, OpenFilesAssumption
<1>2. Restart(Fresh(Now), {})
  BY DEF Quit
<1> QED BY <1>1, <1>2, RestartKeeps

LEMMA DieKeeps ==
    ASSUME NEW s \in States, \A f \in Files : s.table.file[f].size <= MaxSize, Die(s)
    PROVE  IInv'
<1> DEFINE unsaved == {f \in Files : s.table.file[f].ref > 0}
           e == Fresh(s)
<1>1. Empty(e)
  BY FreshEmpty
<1>2. PICK size \in [unsaved -> 0 .. MaxSize] :
        Restart([e EXCEPT !.file = [f \in Files |->
                    [e.file[f] EXCEPT !.size = IF f \in unsaved THEN size[f]
                                               ELSE s.table.file[f].size]]], {})
  BY Zenon DEF Die
<1>3. \A f \in Files : s.table.file[f].size \in 0 .. MaxSize
  BY OpenFilesAssumption DEF States, Tables, Minodes
<1> DEFINE new == [f \in Files |-> IF f \in unsaved THEN size[f] ELSE s.table.file[f].size]
           file == [f \in Files |-> [e.file[f] EXCEPT !.size = new[f]]]
           t == [e EXCEPT !.file = file]
<1>4. Restart(t, {})
  BY <1>2
<1>5. \A f \in Files : new[f] \in 0 .. MaxSize
  BY <1>3
<1> HIDE DEF e, new
<1>6. e \in Tables /\ \A f \in Files : e.file[f] \in Minodes
  BY <1>1 DEF Empty, Tables
<1>7. \A f \in Files : /\ file[f] \in Minodes
                       /\ file[f].mode = CLOSED /\ file[f].ref = 0
                       /\ file[f].size \in 0 .. MaxSize
  <2> SUFFICES ASSUME NEW f \in Files
               PROVE  /\ file[f] \in Minodes
                      /\ file[f].mode = CLOSED /\ file[f].ref = 0
                      /\ file[f].size \in 0 .. MaxSize
    OBVIOUS
  <2>1. e.file[f] \in Minodes /\ e.file[f].mode = CLOSED /\ e.file[f].ref = 0
    BY <1>1, <1>6 DEF Empty
  <2>2. file[f] = [e.file[f] EXCEPT !.size = new[f]]
    OBVIOUS
  <2>3. new[f] \in 0 .. MaxSize /\ new[f] \in Nat
    BY <1>5
  <2> HIDE DEF file
  <2> QED BY <2>1, <2>2, <2>3 DEF Minodes
<1>8. file \in [Files -> Minodes]
  BY <1>7
<1> HIDE DEF file
<1>9. t \in Tables /\ t.oft = e.oft /\ t.fd = e.fd /\ t.file = file
  BY <1>6, <1>8 DEF Tables
<1> HIDE DEF t
<1>10. Empty(t)
  BY <1>1, <1>7, <1>9 DEF Empty
<1> QED BY <1>4, <1>10, RestartKeeps

\* A step that takes the state s of the end of a command.
LEMMA TakesOver ==
    ASSUME NEW s \in Good, Steady(s), Within(s), table' = s.table, odd' = s.odd,
           0 \in DOMAIN proc', running' \in DOMAIN proc', DOMAIN proc' \subseteq Procs
    PROVE  IInv'
<1>1. s \in States /\ Sound(s) /\ Related(s)
  BY GoodParts DEF Sound
<1>2. s.table \in Tables /\ s.odd \in SUBSET Odds
  BY <1>1 DEF States
<1>3. \A o \in Ofts : /\ s.table.oft[o].ref \in -MaxRef .. MaxRef
                      /\ s.table.oft[o].offset \in 0 .. MaxSize
  <2>1. \A o \in Ofts : s.table.oft[o].offset \in Nat
    BY <1>2 DEF Tables, Entries
  <2> QED BY <2>1, OpenFilesAssumption DEF Within
<1>4. \A f \in Files : /\ s.table.file[f].ref \in -MaxRef .. MaxRef
                       /\ s.table.file[f].size \in 0 .. MaxSize
  <2>1. \A f \in Files : s.table.file[f].size \in Nat
    BY <1>2 DEF Tables, Minodes
  <2>2. \A f \in Files : s.table.file[f].ref \in Nat
    BY <1>1 DEF Related, Held
  <2> QED BY <2>1, <2>2, OpenFilesAssumption DEF Within
<1>5. TypeOK'
  <2>1. s.odd \subseteq {"second reader", "third reader", "same inode", "full", "wrong kill"}
    BY <1>2 DEF Odds
  <2> QED BY <1>2, <1>3, <1>4, <2>1, Typed DEF TypeOK
<1>6. Now' = Ret(s, 0)
  <2>1. s = [table |-> s.table, odd |-> s.odd, ret |-> s.ret]
    BY <1>1 DEF States
  <2>2. Ret(s, 0) = [table |-> s.table, odd |-> s.odd, ret |-> 0]
    BY <2>1 DEF Ret
  <2> QED BY <2>2 DEF Now
<1>7. Sound(Now)'
  BY <1>1, <1>6, RetSound
<1> QED BY <1>2, <1>5, <1>7 DEF IInv

LEMMA StepKeeps ==
    ASSUME IInv, NEW s \in Good, Step(s),
           s.ret = DIES => \A f \in Files : s.table.file[f].size <= MaxSize
    PROVE  IInv'
<1>1. s \in States
  BY GoodParts
<1>2. CASE s.ret = DIES
  <2>1. Die(s)
    BY <1>2 DEF Step
  <2> QED BY <1>1, <1>2, <2>1, DieKeeps
<1>3. CASE s.ret # DIES /\ ~Steady(s)
  <2>1. Restart(Fresh(Now), s.odd)
    BY <1>3 DEF Step, Steady
  <2>2. Empty(Fresh(Now))
    BY NowGood, FreshEmpty, OpenFilesAssumption
  <2>3. s.odd \in SUBSET Odds
    BY <1>1 DEF States
  <2> QED BY <2>1, <2>2, <2>3, RestartKeeps
<1>4. CASE s.ret # DIES /\ Steady(s)
  <2>1. Within(s) /\ table' = s.table /\ odd' = s.odd /\ UNCHANGED <<proc, running>>
    BY <1>4 DEF Step, Steady
  <2>2. 0 \in DOMAIN proc' /\ running' \in DOMAIN proc' /\ DOMAIN proc' \subseteq Procs
    BY <2>1 DEF IInv, TypeOK
  <2> QED BY <1>4, <2>1, <2>2, TakesOver
<1> QED BY <1>2, <1>3, <1>4

LEMMA OpenKeeps ==
    ASSUME IInv, NEW f \in Files, NEW mode \in READ .. APPEND, Open(f, mode)
    PROVE  IInv'
<1> DEFINE s == open_file(Now, running, f, mode)
<1>1. s \in Good /\ s.ret # DIES
  BY NowGood, OpenFileResult
<1>2. Step(s)
  BY DEF Open
<1> HIDE DEF s
<1> QED BY <1>1, <1>2, StepKeeps

LEMMA CloseKeeps ==
    ASSUME IInv, NEW k \in Fds, Close(k)
    PROVE  IInv'
<1> DEFINE s == close_file(Now, running, k)
<1>1. s \in Good /\ s.ret # DIES
  BY NowGood, CloseFileSound, GoodParts DEF DIES
<1>2. Step(s)
  BY DEF Close
<1> HIDE DEF s
<1> QED BY <1>1, <1>2, StepKeeps

LEMMA DupKeeps ==
    ASSUME IInv, NEW k \in Fds, Dup(k)
    PROVE  IInv'
<1> DEFINE s == mydup(Now, running, k)
<1>1. s \in Good /\ s.ret # DIES
  BY NowGood, DupSound, GoodParts DEF DIES
<1>2. Step(s)
  BY DEF Dup
<1> HIDE DEF s
<1> QED BY <1>1, <1>2, StepKeeps

LEMMA ReadKeeps ==
    ASSUME IInv, NEW k \in Fds, Read(k)
    PROVE  IInv'
<1> DEFINE s == tryRead(Now, running, k)
<1>1. s \in Good /\ s.ret # DIES
  BY NowGood, TryReadSound, GoodParts DEF DIES
<1>2. Step(s)
  BY DEF Read
<1> HIDE DEF s
<1> QED BY <1>1, <1>2, StepKeeps

LEMMA WriteToKeeps ==
    ASSUME IInv, NEW k \in Fds, WriteTo(k)
    PROVE  IInv'
<1>1. PICK room \in BOOLEAN : Step(tryWrite(Now, running, k, room))
  BY DEF WriteTo
<1> DEFINE s == tryWrite(Now, running, k, room)
<1>2. s \in Good /\ s.ret # DIES
  BY NowGood, TryWriteSound, GoodParts DEF DIES
<1>3. Step(s)
  BY <1>1
<1> HIDE DEF s
<1> QED BY <1>2, <1>3, StepKeeps

LEMMA LseekKeeps ==
    ASSUME IInv, NEW k \in Fds, NEW position \in -1 .. MaxSize, Lseek(k, position)
    PROVE  IInv'
<1> DEFINE s == lseek_file(Now, running, k, position)
<1>1. position \in Int
  OBVIOUS
<1>2. s \in Good /\ s.ret # DIES
  BY <1>1, NowGood, LseekSound, GoodParts DEF DIES
<1>3. Step(s)
  BY DEF Lseek
<1> HIDE DEF s
<1> QED BY <1>2, <1>3, StepKeeps

LEMMA CatKeeps ==
    ASSUME IInv, NEW f \in Files, Cat(f)
    PROVE  IInv'
<1> DEFINE s == cat(Now, running, f)
<1>1. s \in Good /\ (s.ret = DIES =>
            \A g \in Files : s.table.file[g].size <= Now.table.file[g].size)
  BY NowGood, CatGood
<1>2. Step(s)
  BY DEF Cat
<1> HIDE DEF s
<1>3. s.ret = DIES => \A g \in Files : s.table.file[g].size <= MaxSize
  <2>1. \A g \in Files : Now.table.file[g].size \in 0 .. MaxSize
    BY NowGood
  <2>2. \A g \in Files : s.table.file[g].size \in Nat
    BY <1>1, GoodParts DEF States, Tables, Minodes
  <2> QED BY <1>1, <2>1, <2>2, OpenFilesAssumption
<1> QED BY <1>1, <1>2, <1>3, StepKeeps

LEMMA CopyKeeps ==
    ASSUME IInv, NEW f \in Files, NEW g \in Files, Copy(f, g)
    PROVE  IInv'
<1>0. PICK room \in 0 .. MaxSize : Step(tryCopy(Now, running, f, g, room))
  BY DEF Copy
<1> DEFINE s == tryCopy(Now, running, f, g, room)
<1>1. s \in Good /\ (s.ret = DIES =>
            \A h \in Files : s.table.file[h].size <= Now.table.file[h].size)
  BY NowGood, TryCopyGood
<1>2. Step(s)
  BY <1>0
<1> HIDE DEF s
<1>3. s.ret = DIES => \A h \in Files : s.table.file[h].size <= MaxSize
  <2>1. \A h \in Files : Now.table.file[h].size \in 0 .. MaxSize
    BY NowGood
  <2>2. \A h \in Files : s.table.file[h].size \in Nat
    BY <1>1, GoodParts DEF States, Tables, Minodes
  <2> QED BY <1>1, <2>1, <2>2, OpenFilesAssumption
<1> QED BY <1>1, <1>2, <1>3, StepKeeps

LEMMA WriteKeeps ==
    ASSUME IInv, NEW f \in Files, NEW mode \in READ .. APPEND, Write(f, mode)
    PROVE  IInv'
<1>1. ASSUME NEW room \in BOOLEAN, Step(write(Now, running, f, mode, room))
      PROVE  IInv'
  <2> DEFINE s == write(Now, running, f, mode, room)
  <2>1. s \in Good /\ s.ret # DIES
    BY NowGood, WriteGood
  <2> HIDE DEF s
  <2> QED BY <1>1, <2>1, StepKeeps DEF s
<1>2. CASE Step(Ret(Now, DIES))
  <2> DEFINE s == Ret(Now, DIES)
  <2>1. s \in Good /\ s.table = Now.table
    BY NowGood, RetSound, RetParts, GoodParts DEF DIES
  <2>2. \A g \in Files : s.table.file[g].size <= MaxSize
    BY <2>1, NowGood, OpenFilesAssumption
  <2> HIDE DEF s
  <2> QED BY <1>2, <2>1, <2>2, StepKeeps DEF s
<1> QED BY <1>1, <1>2 DEF Write

LEMMA CreateKeeps ==
    ASSUME IInv, NEW usertype \in Groups, CreateProcess(usertype)
    PROVE  IInv'
<1> DEFINE p == First(Procs \ DOMAIN proc, 0)
<1>1. /\ DOMAIN proc # Procs /\ UNCHANGED <<table, running, odd>>
      /\ proc' = [q \in DOMAIN proc \cup {p} |-> IF q = p THEN usertype ELSE proc[q]]
  BY Zenon DEF CreateProcess
<1>2. p \in Procs
  <2>1. Procs \ DOMAIN proc \in SUBSET Nat /\ 0 \in Procs
    BY OpenFilesAssumption DEF Procs
  <2>2. p = 0 \/ p \in Procs \ DOMAIN proc
    BY <2>1, FirstOf
  <2> QED BY <2>1, <2>2
<1> HIDE DEF p
<1>3. DOMAIN proc' = DOMAIN proc \cup {p}
  BY <1>1
<1>4. TypeOK'
  BY <1>1, <1>2, <1>3 DEF IInv, TypeOK
<1>5. Now' = Now
  BY <1>1 DEF Now
<1> QED BY <1>1, <1>3, <1>4, <1>5 DEF IInv

LEMMA SwitchKeeps ==
    ASSUME IInv, NEW p \in Procs, SwitchProcess(p)
    PROVE  IInv'
<1>1. p \in DOMAIN proc /\ running' = p /\ UNCHANGED <<table, proc, odd>>
  BY DEF SwitchProcess
<1>2. TypeOK'
  BY <1>1 DEF IInv, TypeOK
<1>3. Now' = Now
  BY <1>1 DEF Now
<1> QED BY <1>1, <1>2, <1>3 DEF IInv

LEMMA KillKeeps ==
    ASSUME IInv, NEW q \in Procs, KillProcess(q)
    PROVE  IInv'
<1>1. Regular /\ q \in DOMAIN proc \ {0}
  BY DEF KillProcess
<1>2. CASE q # running /\ \E k \in Fds : IsOpen(Now, q, k)
  <2>1. Restart(Fresh(Now), {"wrong kill"})
    BY <1>2 DEF KillProcess
  <2>2. Empty(Fresh(Now))
    BY NowGood, FreshEmpty, OpenFilesAssumption
  <2>3. {"wrong kill"} \in SUBSET Odds
    BY DEF Odds
  <2> QED BY <2>1, <2>2, <2>3, RestartKeeps
<1>3. CASE ~(q # running /\ \E k \in Fds : IsOpen(Now, q, k))
  <2> DEFINE s == closeAll(Now, running, q)
  <2>1. /\ Within(s) /\ table' = s.table /\ odd' = s.odd
        /\ proc' = [p \in DOMAIN proc \ {q} |-> proc[p]]
        /\ running' = IF q = running THEN 0 ELSE running
    BY <1>3 DEF KillProcess
  <2>2. s \in Good /\ s.odd = odd
    BY <1>3, NowGood, CloseAllGood
  <2> HIDE DEF s
  <2>3. Steady(s)
    BY <1>1, <2>2 DEF Regular, Steady
  <2>4. 0 \in DOMAIN proc' /\ running' \in DOMAIN proc' /\ DOMAIN proc' \subseteq Procs
    BY <1>1, <2>1 DEF IInv, TypeOK
  <2> QED BY <2>1, <2>2, <2>3, <2>4, TakesOver
<1> QED BY <1>2, <1>3

\* Every step keeps the inductive invariant.
LEMMA NextKeeps == IInv /\ [Next]_vars => IInv'
<1> SUFFICES ASSUME IInv, [Next]_vars PROVE IInv'
  OBVIOUS
<1>1. ASSUME NEW f \in Files, NEW mode \in READ .. APPEND, Open(f, mode) PROVE IInv'
  BY <1>1, OpenKeeps
<1>2. ASSUME NEW k \in Fds, Close(k) \/ Dup(k) \/ Read(k) \/ WriteTo(k) PROVE IInv'
  BY <1>2, CloseKeeps, DupKeeps, ReadKeeps, WriteToKeeps
<1>3. ASSUME NEW k \in Fds, NEW position \in -1 .. MaxSize, Lseek(k, position) PROVE IInv'
  BY <1>3, LseekKeeps
<1>4. ASSUME NEW f \in Files, Cat(f) \/ Write(f, WRITE) \/ Write(f, APPEND) PROVE IInv'
  BY <1>4, CatKeeps, WriteKeeps, Modes4
<1>5. ASSUME NEW f \in Files, NEW g \in Files, Copy(f, g) PROVE IInv'
  BY <1>5, CopyKeeps
<1>6. ASSUME NEW p \in Procs, SwitchProcess(p) \/ KillProcess(p) PROVE IInv'
  BY <1>6, SwitchKeeps, KillKeeps
<1>7. ASSUME NEW usertype \in Groups, CreateProcess(usertype) PROVE IInv'
  BY <1>7, CreateKeeps
<1>8. CASE Quit
  BY <1>8, QuitKeeps
<1>9. CASE Die(Now)
  BY <1>9, NowGood, DieKeeps, OpenFilesAssumption
<1>10. CASE UNCHANGED vars
  <2>1. TypeOK'
    BY <1>10 DEF IInv, TypeOK, vars
  <2>2. Now' = Now
    BY <1>10 DEF Now, vars
  <2> QED BY <1>10, <2>1, <2>2 DEF IInv, vars
<1> QED BY <1>1, <1>2, <1>3, <1>4, <1>5, <1>6, <1>7, <1>8, <1>9, <1>10 DEF Next

-------------------------------------------------------------------------------
\* The theorems.

\* The types, and the bounds that the guards keep.
THEOREM TypeCorrect == Spec => []TypeOK
<1>1. IInv => TypeOK
  BY DEF IInv
<1> QED BY InitSound, NextKeeps, <1>1, PTL DEF Spec

\* Nothing happens that the descriptors, the entries and the MINODEs do not agree after.
THEOREM AlwaysSound == Spec => []IInv
BY InitSound, NextKeeps, PTL DEF Spec

\* As many descriptors, of whatever process, lead to a file as it has entries.
LEMMA HoldersCounted ==
    ASSUME IInv, Regular, NEW f \in Files
    PROVE  Cardinality(Holders(f)) = Cardinality(OftsOf(Now, f))
<1> DEFINE H == Holders(f)
           O == OftsOf(Now, f)
           entry == [d \in H |-> table.fd[d[1]][d[2]]]
<1>1. Reached(Now) /\ Now \in States /\ Now.table = table
  <2>1. Related(Now)
    BY NowGood DEF Sound, Steady, Regular
  <2> QED BY <2>1, NowGood DEF Related
<1>2. \A d \in H : /\ d[1] \in Procs /\ d[2] \in Fds /\ d = <<d[1], d[2]>>
                   /\ table.fd[d[1]][d[2]] # NULL
                   /\ table.oft[table.fd[d[1]][d[2]]].file = f
  BY <1>1 DEF Holders, IsOpen, OftOf
<1>3. \A p \in Procs, k \in Fds : table.fd[p][k] # NULL => table.fd[p][k] \in Ofts
  BY <1>1 DEF States, Tables
<1>4. entry \in [H -> O]
  <2>1. \A d \in H : table.fd[d[1]][d[2]] \in O
    BY <1>1, <1>2, <1>3 DEF OftsOf
  <2> QED BY <2>1
<1>5. ASSUME NEW d \in H, NEW e \in H, entry[d] = entry[e] PROVE d = e
  <2>1. table.fd[d[1]][d[2]] = table.fd[e[1]][e[2]]
    BY <1>5
  <2>2. d[1] = e[1] /\ d[2] = e[2]
    BY <1>1, <1>2, <2>1 DEF Reached
  <2> QED BY <1>2, <2>2
<1>6. ASSUME NEW o \in O PROVE \E d \in H : entry[d] = o
  <2>1. o \in Ofts /\ table.oft[o].file = f
    BY <1>1 DEF OftsOf
  <2>2. InUse(Now, o)
    BY <1>1, <2>1, Constants DEF InUse
  <2>3. PICK p \in Procs, k \in Fds : table.fd[p][k] = o
    BY <1>1, <2>1, <2>2 DEF Reached
  <2>4. <<p, k>> \in H
    BY <1>1, <2>1, <2>3, Constants DEF Holders, IsOpen, OftOf
  <2>5. entry[<<p, k>>] = o
    BY <2>3, <2>4
  <2> QED BY <2>4, <2>5
<1> HIDE DEF entry, H, O
<1>7. entry \in Bijection(H, O)
  BY <1>4, <1>5, <1>6 DEF Bijection, Injection, Surjection, IsInjective
<1>8. ExistsBijection(H, O)
  BY <1>7 DEF ExistsBijection
<1>9. IsFiniteSet(O)
  BY OftsOfCounted DEF O
<1>10. IsFiniteSet(H) /\ Cardinality(H) = Cardinality(O)
  BY <1>8, <1>9, FS_Bijection, Fun_ExistsBijSymmetric
<1> QED BY <1>10 DEF H, O

\* The count of an entry is the number of the descriptors that the file is open through, of
\* whatever process: the last close_file, and no other, releases the MINODE.
THEOREM CountsRight == Spec => []RefCounts
<1>1. IInv => RefCounts
  <2> SUFFICES ASSUME IInv, Regular, NEW o \in Ofts
               PROVE  table.oft[o].ref =
                        IF InUse(Now, o) THEN Cardinality(Holders(table.oft[o].file)) ELSE 0
    BY DEF RefCounts
  <2>1. Counted(Now) /\ Now.table = table /\ Now \in States
    <3>1. Related(Now)
      BY NowGood DEF Sound, Steady, Regular
    <3> QED BY <3>1, NowGood DEF Related
  <2>2. CASE InUse(Now, o)
    <3>1. table.oft[o].file \in Files
      BY <2>1, <2>2 DEF InUse, States, Tables, Entries
    <3>2. table.oft[o].ref = Cardinality(OftsOf(Now, table.oft[o].file))
      BY <2>1, <2>2 DEF Counted
    <3> QED BY <2>2, <3>1, <3>2, HoldersCounted
  <2>3. CASE ~InUse(Now, o)
    BY <2>1, <2>3 DEF Counted
  <2> QED BY <2>2, <2>3
<1> QED BY InitSound, NextKeeps, <1>1, PTL DEF Spec

\* The mode that open_file decides by is that of the entries of the file: no file is shut
\* for ever, and none is written by two.
THEOREM ModesRight == Spec => []ModesAgree
<1>1. IInv => ModesAgree
  <2> SUFFICES ASSUME IInv, Regular, NEW f \in Files
               PROVE  LET modes == {table.oft[o].mode : o \in OftsOf(Now, f)}
                      IN  \/ table.file[f].mode = CLOSED /\ modes = {}
                          \/ modes = {table.file[f].mode}
    BY DEF ModesAgree
  <2>1. Modes(Now) /\ Now.table = table
    <3>1. Related(Now)
      BY NowGood DEF Sound, Steady, Regular
    <3> QED BY <3>1, NowGood DEF Related
  <2>2. CASE OftsOf(Now, f) = {}
    BY <2>1, <2>2 DEF Modes
  <2>3. CASE OftsOf(Now, f) # {}
    <3>1. \A o \in OftsOf(Now, f) : table.oft[o].mode = table.file[f].mode
      BY <2>1, Constants DEF Modes, OftsOf, InUse
    <3> QED BY <2>3, <3>1
  <2> QED BY <2>2, <2>3
<1> QED BY InitSound, NextKeeps, <1>1, PTL DEF Spec

\* The MINODE of a file that is open is referenced, and given back with the last entry
\* unless there was a second reader.
THEOREM MinodesKept == Spec => []MinodesHeld
<1>1. IInv => MinodesHeld
  <2> SUFFICES ASSUME IInv, Regular PROVE MinodesHeld
    BY DEF MinodesHeld
  <2>1. Held(Now) /\ Now.table = table /\ Now.odd = odd
    <3>1. Related(Now)
      BY NowGood DEF Sound, Steady, Regular
    <3> QED BY <3>1, NowGood DEF Related
  <2> QED BY <2>1 DEF Held, MinodesHeld
<1> QED BY InitSound, NextKeeps, <1>1, PTL DEF Spec

\* No offset is beyond the end of its file: readFromFile never takes the difference for a
\* very large number.
THEOREM OffsetsRight == Spec => []OffsetsWithin
<1>1. IInv => OffsetsWithin
  <2> SUFFICES ASSUME IInv, Regular PROVE OffsetsWithin
    BY DEF OffsetsWithin
  <2>1. Offsets(Now) /\ Now.table = table
    <3>1. Related(Now)
      BY NowGood DEF Sound, Steady, Regular
    <3> QED BY <3>1, NowGood DEF Related
  <2> QED BY <2>1 DEF Offsets, OffsetsWithin
<1> QED BY InitSound, NextKeeps, <1>1, PTL DEF Spec
===============================================================================
