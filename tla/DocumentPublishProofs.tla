------------------------ MODULE DocumentPublishProofs ------------------------
(***************************************************************************)
(* The files of a session, for every number of files, requests, faults,    *)
(* lost answers and readers, until a request runs beside another.  First:  *)
(* what cutting documents out of a publication and adding new ones does to *)
(* it.  Then the invariant: how far the bucket and the originals are ahead *)
(* of each other at every stage of the one thread that works, what a       *)
(* publication that was cut short has in common with the one before it,    *)
(* and what a worker may still read.  It is kept by each step of the       *)
(* thread, and the promises follow from it.                                *)
(***************************************************************************)
EXTENDS DocumentPublish, SequenceTheorems, FunctionTheorems, FiniteSetTheorems,
        NaturalsInduction, WellFoundedInduction, TLAPS

-----------------------------------------------------------------------------
(* The parts of a publication, and their types when directories have       *)
(* numbers up to n * Count.                                                *)
Archive(o) == o["documents.zip"]
Manifest(o) == o["manifest.json"]
Index(o) == o["index.json"]
Vectors(o) == o["vectors.npy"]

Count == Cardinality(File)
RootsUpTo(n) == (1 .. n * Count) \X File
ChunkUpTo(n) == [root : RootsUpTo(n), version : Version]

IsArchive(a, n) == DOMAIN a \subseteq RootsUpTo(n) /\ a \in [DOMAIN a -> Version]
IsManifest(m, n) ==
  /\ DOMAIN m \subseteq File /\ m \in [DOMAIN m -> RootsUpTo(n)]
  /\ \A f \in DOMAIN m : FileOf(m[f]) = f
IsIndex(x, n) == x \in Seq(ChunkUpTo(n))
IsVectors(v) == v \in Seq(Vector)

Archives == UNION {[roots -> Version] : roots \in SUBSET Roots}
Manifests == UNION {[files -> Roots] : files \in SUBSET File}
Content == {Absent} \cup Archives \cup Manifests \cup Seq(Chunk) \cup Seq(Vector)

Objects(o, n) ==
  /\ o \in [Key -> Content]
  /\ Archive(o) # Absent => IsArchive(Archive(o), n)
  /\ Manifest(o) # Absent => IsManifest(Manifest(o), n)
  /\ Index(o) # Absent => IsIndex(Index(o), n)
  /\ Vectors(o) # Absent => IsVectors(Vectors(o))

Present(o) == \A k \in Key : o[k] # Absent

(* What publications promise: an index has no text but what the archive    *)
(* has in that directory ...                                               *)
CitesIn(x, a) ==
  x # Absent /\ a # Absent =>
     \A i \in DOMAIN x : x[i].root \in DOMAIN a => a[x[i].root] = x[i].version

(* ... and, whole, archive, manifest, index and vectors are of exactly the *)
(* originals w.                                                            *)
IsPublication(o, w) ==
  /\ Valid(o) /\ Aligned(o)
  /\ DOMAIN Manifest(o) = DOMAIN w
  /\ Range(Manifest(o)) = DOMAIN Archive(o)
  /\ {Index(o)[i].root : i \in DOMAIN Index(o)} = DOMAIN Archive(o)
  /\ \A f \in DOMAIN w : Archive(o)[Manifest(o)[f]] = w[f]

NoFiles == [f \in {} |-> 0]
Whole(o, w) == (w = NoFiles /\ o = NoObjects) \/ IsPublication(o, w)

(* The versions that an archive shows of a file.                           *)
Shown(a, f) == IF a = Absent THEN {} ELSE {a[d] : d \in {e \in DOMAIN a : FileOf(e) = f}}

LEMMA CountType == Count \in Nat
  BY PublishAssumption, FS_CardinalityType DEF Count

LEMMA RootsGrow ==
  ASSUME NEW n \in 0 .. MaxRequests
  PROVE  /\ RootsUpTo(n) \subseteq Roots
         /\ RootsUpTo(n) \subseteq RootsUpTo(n + 1)
         /\ ChunkUpTo(n) \subseteq Chunk
         /\ ChunkUpTo(n) \subseteq ChunkUpTo(n + 1)
<1>1. n \in Nat /\ MaxRequests \in Nat /\ Count \in Nat /\ n <= MaxRequests
  BY CountType, PublishAssumption
<1>2. n * Count \in Nat /\ n * Count <= MaxRequests * Count /\ MaxRequests * Count \in Nat
  BY ONLY <1>1
<1>3. (n + 1) * Count = n * Count + Count
  BY ONLY <1>1
<1>4. RootsUpTo(n) \subseteq Roots
  BY <1>2 DEF RootsUpTo, Roots, Count
<1>5. RootsUpTo(n) \subseteq RootsUpTo(n + 1)
  <2> DEFINE c == n * Count
  <2>1. RootsUpTo(n) = (1 .. c) \X File /\ RootsUpTo(n + 1) = (1 .. c + Count) \X File
    BY <1>3 DEF RootsUpTo
  <2> HIDE DEF c
  <2>2. c \in Nat
    BY <1>2 DEF c
  <2> QED BY <2>1, <2>2, <1>1
<1> QED
  BY <1>4, <1>5 DEF ChunkUpTo, Chunk

(* What a thread builds is content that a get may return, and is there.    *)
LEMMA ContentTypes ==
  ASSUME NEW n \in 0 .. MaxRequests, NEW c
  PROVE  IsArchive(c, n) \/ IsManifest(c, n) \/ IsIndex(c, n) \/ IsVectors(c)
           => c \in Content /\ c # Absent
<1>1. ASSUME IsArchive(c, n) PROVE c \in Content /\ c # Absent
  <2>1. DOMAIN c \in SUBSET Roots /\ c \in [DOMAIN c -> Version]
    BY <1>1, RootsGrow DEF IsArchive
  <2>2. c # Absent
    BY <2>1, AbsentAssumption
  <2>3. c \in Archives
    BY <2>1 DEF Archives
  <2> QED BY <2>2, <2>3 DEF Content
<1>2. ASSUME IsManifest(c, n) PROVE c \in Content /\ c # Absent
  <2>1. DOMAIN c \in SUBSET File /\ c \in [DOMAIN c -> Roots]
    BY <1>2, RootsGrow DEF IsManifest
  <2>2. c # Absent
    BY <2>1, AbsentAssumption
  <2>3. c \in Manifests
    BY <2>1 DEF Manifests
  <2> QED BY <2>2, <2>3 DEF Content
<1>3. ASSUME IsIndex(c, n) PROVE c \in Content /\ c # Absent
  <2>1. c \in Seq(Chunk)
    BY <1>3, RootsGrow, SeqMonotonic DEF IsIndex
  <2>2. c # Absent
    BY <2>1, AbsentAssumption
  <2> QED BY <2>1, <2>2 DEF Content
<1>4. ASSUME IsVectors(c) PROVE c \in Content /\ c # Absent
  <2>1. c \in Seq(Vector)
    BY <1>4 DEF IsVectors
  <2>2. c # Absent
    BY <2>1, AbsentAssumption
  <2> QED BY <2>1, <2>2 DEF Content
<1> QED
  BY <1>1, <1>2, <1>3, <1>4

(* Directories are numbered upwards, so that the types only grow.          *)
LEMMA ObjectsGrow ==
  ASSUME NEW n \in 0 .. MaxRequests, NEW o, Objects(o, n)
  PROVE  Objects(o, n + 1)
<1>1. IsArchive(Archive(o), n) => IsArchive(Archive(o), n + 1)
  BY RootsGrow DEF IsArchive
<1>2. IsManifest(Manifest(o), n) => IsManifest(Manifest(o), n + 1)
  BY RootsGrow DEF IsManifest
<1>3. IsIndex(Index(o), n) => IsIndex(Index(o), n + 1)
  BY RootsGrow, SeqMonotonic DEF IsIndex
<1> QED
  BY <1>1, <1>2, <1>3 DEF Objects

LEMMA NoObjectsTypes ==
  /\ \A n : Objects(NoObjects, n)
  /\ \A k \in Key : NoObjects[k] = Absent
<1>1. \A k \in Key : NoObjects[k] = Absent
  BY DEF NoObjects
<1>2. NoObjects \in [Key -> Content]
  BY DEF NoObjects, Content
<1> QED
  BY <1>1, <1>2 DEF Objects, Key, Archive, Manifest, Index, Vectors

-----------------------------------------------------------------------------
(* Numbers.  A least element stands where an induction would.              *)
LEMMA Least ==
  ASSUME NEW T \in SUBSET Nat, T # {}
  PROVE  \E x \in T : \A y \in T : x <= y
<1>1. PICK x \in T : \A y \in T : ~ (<<y, x>> \in OpToRel(<,Nat))
  BY NatLessThanWellFounded, WFMin
<1>2. \A y \in T : ~(y < x)
  BY <1>1 DEF OpToRel
<1> QED
  BY <1>2

LEMMA Greatest ==
  ASSUME NEW T \in SUBSET Nat, T # {}, NEW n \in Nat, \A y \in T : y <= n
  PROVE  Max(T) \in T /\ \A y \in T : y <= Max(T)
<1> DEFINE U == {u \in Nat : \E y \in T : u + y = n}
<1>1. PICK y0 \in T : TRUE
  OBVIOUS
<1>2. n - y0 \in Nat /\ (n - y0) + y0 = n
  BY <1>1
<1>3. U \in SUBSET Nat /\ U # {}
  BY <1>2
<1>4. PICK u \in U : \A v \in U : u <= v
  <2> HIDE DEF U
  <2> QED BY <1>3, Least
<1>5. PICK x \in T : u + x = n
  BY <1>4
<1>6. \A y \in T : x >= y
  <2> SUFFICES ASSUME NEW y \in T PROVE x >= y
    OBVIOUS
  <2>1. n - y \in U
    OBVIOUS
  <2>2. u <= n - y
    BY <2>1, <1>4
  <2> QED BY <2>2, <1>4, <1>5
<1> QED
  BY <1>6 DEF Max

(* Every set of positions can be listed in increasing order.               *)
Enumerates(s, S) ==
  /\ s \in [1 .. Cardinality(S) -> S]
  /\ \A i, j \in DOMAIN s : i < j => s[i] < s[j]

LEMMA Enumerable ==
  ASSUME NEW n \in Nat
  PROVE  \A S \in SUBSET (1 .. n) : \E s : Enumerates(s, S)
<1> DEFINE Bad == {k \in Nat : \E S \in SUBSET (1 .. k) : \A s : ~Enumerates(s, S)}
<1> SUFFICES ASSUME Bad # {} PROVE FALSE
  OBVIOUS
<1>1. PICK k \in Bad : \A m \in Bad : k <= m
  <2>1. Bad \in SUBSET Nat
    OBVIOUS
  <2> HIDE DEF Bad
  <2> QED BY <2>1, Least
<1>2. PICK S \in SUBSET (1 .. k) : \A s : ~Enumerates(s, S)
  BY <1>1
<1>3. k # 0
  <2>1. k = 0 => S = {}
    BY <1>2
  <2>2. Cardinality({}) = 0
    BY FS_EmptySet
  <2>3. 1 .. 0 = {}
    OBVIOUS
  <2>4. [i \in {} |-> 0] \in [{} -> {}]
    OBVIOUS
  <2>5. Enumerates([i \in {} |-> 0], {})
    BY <2>2, <2>3, <2>4 DEF Enumerates
  <2> QED BY <1>2, <2>1, <2>5
<1>4. k - 1 \in Nat /\ k - 1 \notin Bad
  BY <1>1, <1>3
<1>5. PICK s : Enumerates(s, S \ {k})
  <2>1. S \ {k} \in SUBSET (1 .. (k - 1))
    BY <1>2, <1>1
  <2> QED BY <1>4, <2>1
<1>6. S \ {k} = S \/ k \in S
  OBVIOUS
<1>7. CASE S \ {k} = S
  BY <1>2, <1>5, <1>7
<1>8. CASE k \in S
  <2> DEFINE c == Cardinality(S \ {k})
             t == [i \in 1 .. (c + 1) |-> IF i <= c THEN s[i] ELSE k]
  <2>1. IsFiniteSet(S) /\ c \in Nat /\ Cardinality(S) = c + 1
    <3>1. IsFiniteSet(1 .. k)
      BY FS_Interval, <1>1
    <3>2. IsFiniteSet(S)
      BY <3>1, <1>2, FS_Subset
    <3>3. IsFiniteSet(S \ {k}) /\ k \notin S \ {k}
      BY <3>2, FS_RemoveElement
    <3>4. (S \ {k}) \cup {k} = S
      BY <1>8
    <3> QED BY <3>2, <3>3, <3>4, FS_AddElement, FS_CardinalityType
  <2>2. s \in [1 .. c -> S \ {k}] /\ (\A i, j \in 1 .. c : i < j => s[i] < s[j])
    BY <1>5 DEF Enumerates
  <2> HIDE DEF c
  <2>3. t \in [1 .. (c + 1) -> S]
    BY <2>1, <2>2, <1>8
  <2>4. \A i, j \in 1 .. (c + 1) : i < j => t[i] < t[j]
    <3> SUFFICES ASSUME NEW i \in 1 .. (c + 1), NEW j \in 1 .. (c + 1), i < j PROVE t[i] < t[j]
      OBVIOUS
    <3>1. i \in 1 .. c /\ t[i] = s[i]
      BY <2>1
    <3>2. CASE j <= c
      BY <2>1, <2>2, <3>1, <3>2
    <3>3. CASE ~(j <= c)
      <4>1. t[j] = k
        BY <3>3
      <4>2. s[i] \in 1 .. k /\ s[i] # k
        BY <2>2, <3>1, <1>2
      <4> QED BY <3>1, <4>1, <4>2, <1>1
    <3> QED BY <3>2, <3>3
  <2>5. Enumerates(t, S)
    <3> HIDE DEF t
    <3> QED BY <2>1, <2>3, <2>4 DEF Enumerates
  <2> QED BY <1>2, <2>5
<1> QED BY <1>6, <1>7, <1>8

(* The rows that are kept are all those not of the roots, each once.       *)
LEMMA KeptRowsList ==
  ASSUME NEW o, NEW roots, NEW S, Index(o) \in Seq(S)
  PROVE  LET kept == KeptRows(o, roots)
         IN /\ kept \in Seq(DOMAIN Index(o)) /\ DOMAIN kept = 1 .. Len(kept)
            /\ \A j \in DOMAIN kept : kept[j] \in DOMAIN Index(o) /\ Index(o)[kept[j]].root \notin roots
            /\ \A i \in DOMAIN Index(o) :
                 Index(o)[i].root \notin roots => \E j \in DOMAIN kept : kept[j] = i
<1> DEFINE x == o["index.json"]
           I == {i \in DOMAIN x : x[i].root \notin roots}
           c == Cardinality(I)
           kept == KeptRows(o, roots)
<1>1. Len(x) \in Nat /\ DOMAIN x = 1 .. Len(x)
  BY LenProperties DEF Index
<1>2. I \in SUBSET (1 .. Len(x))
  BY <1>1
<1>3. IsFiniteSet(I) /\ c \in Nat
  <2> HIDE DEF I
  <2>1. IsFiniteSet(1 .. Len(x))
    BY <1>1, FS_Interval
  <2>2. IsFiniteSet(I)
    BY <2>1, <1>2, FS_Subset
  <2> QED BY <2>2, FS_CardinalityType
<1>4. PICK s : Enumerates(s, I)
  <2> HIDE DEF I
  <2> QED BY <1>1, <1>2, Enumerable
<1>5. s \in SetToSeqs(I) /\ \A i, j \in DOMAIN s : i < j => s[i] < s[j]
  <2> HIDE DEF I
  <2>1. s \in [1 .. c -> I] /\ \A i, j \in DOMAIN s : i < j => s[i] < s[j]
    BY <1>4 DEF Enumerates
  <2>2. \A i, j \in 1 .. c : i # j => s[i] # s[j]
    <3> SUFFICES ASSUME NEW i \in 1 .. c, NEW j \in 1 .. c, i # j PROVE s[i] # s[j]
      OBVIOUS
    <3>1. s[i] \in Nat /\ s[j] \in Nat
      <4> HIDE DEF c
      <4>1. s[i] \in I /\ s[j] \in I
        BY <2>1
      <4>2. \A e \in 1 .. Len(x) : e \in Nat
        OBVIOUS
      <4> QED BY <4>1, <4>2, <1>2
    <3>2. i < j \/ j < i
      BY <1>3
    <3>3. s[i] < s[j] \/ s[j] < s[i]
      BY <2>1, <3>2
    <3> QED BY <3>1, <3>3
  <2> QED BY <2>1, <2>2 DEF SetToSeqs
<1>6. kept \in SetToSeqs(I)
  BY <1>5 DEF KeptRows
<1> HIDE DEF kept
<1>7. kept \in [1 .. c -> I] /\ \A i, j \in 1 .. c : i # j => kept[i] # kept[j]
  BY <1>6 DEF SetToSeqs
<1>8. kept \in Injection(1 .. c, I)
  <2> HIDE DEF I, c
  <2>1. \A a, b \in DOMAIN kept : kept[a] = kept[b] => a = b
    BY <1>7
  <2> QED BY <1>7, <2>1 DEF Injection, IsInjective
<1>9. Cardinality(1 .. c) = c
  <2> HIDE DEF c
  <2> QED BY <1>3, FS_Interval
<1>10. kept \in Surjection(1 .. c, I)
  <2> HIDE DEF I, c
  <2>1. Cardinality(I) = c
    BY DEF c
  <2> QED BY <2>1, <1>8, <1>9, <1>3, FS_Injection
<1>11. \A i \in I : \E j \in 1 .. c : kept[j] = i
  BY <1>10 DEF Surjection
<1>12. kept \in Seq(I) /\ DOMAIN kept = 1 .. c /\ Len(kept) = c
  <2> HIDE DEF I, c
  <2> QED BY <1>7, <1>3
<1>13. kept \in Seq(DOMAIN x)
  BY <1>12, SeqMonotonic
<1> QED
  BY <1>7, <1>11, <1>12, <1>13 DEF Index, kept

-----------------------------------------------------------------------------
(* Cutting documents out.  Roots is the set of the directories that go.    *)
LEMMA PrunedParts ==
  ASSUME NEW o, NEW files, DOMAIN o = Key
  PROVE  LET p == Pruned(o, files)
             roots == RootsOf(Manifest(o), files)
             kept == KeptRows(o, roots)
         IN /\ DOMAIN p = Key
            /\ Archive(p) = Without(Archive(o), roots)
            /\ Manifest(p) = Without(Manifest(o), files)
            /\ Index(p) = RowsOf(Index(o), kept)
            /\ Vectors(p) = RowsOf(Vectors(o), kept)
  BY DEF Pruned, Archive, Manifest, Index, Vectors, Key

LEMMA RowsOfSeq ==
  ASSUME NEW S, NEW seq \in Seq(S), NEW kept \in Seq(DOMAIN seq)
  PROVE  /\ RowsOf(seq, kept) \in Seq(S)
         /\ Len(RowsOf(seq, kept)) = Len(kept)
         /\ DOMAIN RowsOf(seq, kept) = 1 .. Len(kept)
         /\ \A j \in 1 .. Len(kept) : RowsOf(seq, kept)[j] = seq[kept[j]]
<1>1. Len(kept) \in Nat /\ DOMAIN kept = 1 .. Len(kept) /\ kept \in [1 .. Len(kept) -> DOMAIN seq]
  BY LenProperties
<1>2. \A i \in DOMAIN seq : seq[i] \in S
  BY LenProperties
<1>3. RowsOf(seq, kept) \in [1 .. Len(kept) -> S]
  BY <1>1, <1>2 DEF RowsOf
<1>4. DOMAIN RowsOf(seq, kept) = 1 .. Len(kept)
  BY <1>1 DEF RowsOf
<1>5. RowsOf(seq, kept) \in Seq(S) /\ Len(RowsOf(seq, kept)) = Len(kept)
  <2> DEFINE rr == RowsOf(seq, kept)
  <2> HIDE DEF rr
  <2>1. rr \in [1 .. Len(kept) -> S]
    BY <1>3 DEF rr
  <2>2. rr \in Seq(S) /\ Len(rr) = Len(kept)
    BY <2>1, <1>1
  <2> QED BY <2>2 DEF rr
<1> QED
  BY <1>1, <1>4, <1>5 DEF RowsOf

(* A publication that may be loaded: all its objects are there, and it has *)
(* as many vectors as chunks, each of a block of the archive.              *)
LEMMA ValidParts ==
  ASSUME NEW n \in 0 .. MaxRequests, NEW o, Objects(o, n), Valid(o)
  PROVE  /\ IsArchive(Archive(o), n) /\ IsManifest(Manifest(o), n)
         /\ IsIndex(Index(o), n) /\ IsVectors(Vectors(o)) /\ Present(o)
         /\ Len(Index(o)) \in Nat
         /\ DOMAIN Index(o) = 1 .. Len(Index(o)) /\ DOMAIN Vectors(o) = DOMAIN Index(o)
         /\ \A i \in DOMAIN Index(o) :
              Index(o)[i] \in ChunkUpTo(n) /\ Index(o)[i].root \in DOMAIN Archive(o)
<1>1. Present(o) /\ IsArchive(Archive(o), n) /\ IsManifest(Manifest(o), n)
      /\ IsIndex(Index(o), n) /\ IsVectors(Vectors(o))
  BY DEF Objects, Valid, Present, Key, Archive, Manifest, Index, Vectors
<1>2. Len(Index(o)) = Len(Vectors(o))
      /\ \A i \in DOMAIN Index(o) : Index(o)[i].root \in DOMAIN Archive(o)
  BY DEF Valid, Archive, Index, Vectors
<1>3. Len(Index(o)) \in Nat /\ DOMAIN Index(o) = 1 .. Len(Index(o))
      /\ Index(o) \in [1 .. Len(Index(o)) -> ChunkUpTo(n)]
  BY <1>1, LenProperties DEF IsIndex
<1>4. DOMAIN Vectors(o) = 1 .. Len(Vectors(o))
  BY <1>1, LenProperties DEF IsVectors
<1> QED
  BY <1>1, <1>2, <1>3, <1>4

(* What Pruned does to the rows: each is one that was there, of a          *)
(* directory that stays, and all of those stay.                            *)
LEMMA PrunedRows ==
  ASSUME NEW n \in 0 .. MaxRequests, NEW o, NEW files, Objects(o, n), Valid(o)
  PROVE  LET p == Pruned(o, files)
             roots == RootsOf(Manifest(o), files)
         IN /\ IsIndex(Index(p), n) /\ IsVectors(Vectors(p))
            /\ Len(Vectors(p)) = Len(Index(p)) /\ Len(Index(p)) \in Nat
            /\ DOMAIN Index(p) = 1 .. Len(Index(p))
            /\ \A j \in DOMAIN Index(p) : \E i \in DOMAIN Index(o) :
                 /\ Index(p)[j] = Index(o)[i] /\ Vectors(p)[j] = Vectors(o)[i]
                 /\ Index(o)[i].root \notin roots
            /\ \A i \in DOMAIN Index(o) :
                 Index(o)[i].root \notin roots => \E j \in DOMAIN Index(p) : Index(p)[j] = Index(o)[i]
<1> DEFINE p == Pruned(o, files)
           roots == RootsOf(Manifest(o), files)
           kept == KeptRows(o, roots)
<1>1. Index(o) \in Seq(ChunkUpTo(n)) /\ Vectors(o) \in Seq(Vector) /\ DOMAIN Vectors(o) = DOMAIN Index(o)
  BY ValidParts DEF IsIndex, IsVectors
<1>2. /\ kept \in Seq(DOMAIN Index(o)) /\ DOMAIN kept = 1 .. Len(kept)
      /\ \A j \in DOMAIN kept : kept[j] \in DOMAIN Index(o) /\ Index(o)[kept[j]].root \notin roots
      /\ \A i \in DOMAIN Index(o) :
           Index(o)[i].root \notin roots => \E j \in DOMAIN kept : kept[j] = i
  <2> HIDE DEF roots
  <2> QED BY <1>1, KeptRowsList
<1>3. Index(p) = RowsOf(Index(o), kept) /\ Vectors(p) = RowsOf(Vectors(o), kept)
  BY PrunedParts DEF Objects
<1> HIDE DEF p, kept, roots
<1>4. /\ Index(p) \in Seq(ChunkUpTo(n)) /\ Len(Index(p)) = Len(kept)
      /\ DOMAIN Index(p) = 1 .. Len(kept)
      /\ \A j \in 1 .. Len(kept) : Index(p)[j] = Index(o)[kept[j]]
  BY <1>1, <1>2, <1>3, RowsOfSeq
<1>5. /\ Vectors(p) \in Seq(Vector) /\ Len(Vectors(p)) = Len(kept)
      /\ \A j \in 1 .. Len(kept) : Vectors(p)[j] = Vectors(o)[kept[j]]
  BY <1>1, <1>2, <1>3, RowsOfSeq
<1>6. Len(kept) \in Nat
  BY <1>2, LenProperties
<1>7. \A j \in DOMAIN Index(p) : \E i \in DOMAIN Index(o) :
        /\ Index(p)[j] = Index(o)[i] /\ Vectors(p)[j] = Vectors(o)[i]
        /\ Index(o)[i].root \notin roots
  BY <1>2, <1>4, <1>5
<1>8. \A i \in DOMAIN Index(o) :
        Index(o)[i].root \notin roots => \E j \in DOMAIN Index(p) : Index(p)[j] = Index(o)[i]
  BY <1>2, <1>4
<1> QED
  BY <1>4, <1>5, <1>6, <1>7, <1>8 DEF IsIndex, IsVectors, p, roots

(* What is left is a publication that may be loaded, it cites what was     *)
(* cited before, and shows the other files as before.                      *)
LEMMA PrunedKeeps ==
  ASSUME NEW n \in 0 .. MaxRequests, NEW o, NEW files, Objects(o, n), Valid(o),
         NEW p, p = Pruned(o, files), NEW roots, roots = RootsOf(Manifest(o), files)
  PROVE  /\ Objects(p, n) /\ Valid(p)
         /\ \A d : d \in DOMAIN Archive(p) <=> d \in DOMAIN Archive(o) /\ d \notin roots
         /\ \A d \in DOMAIN Archive(p) : Archive(p)[d] = Archive(o)[d]
         /\ \A f : f \in DOMAIN Manifest(p) <=> f \in DOMAIN Manifest(o) /\ f \notin files
         /\ \A f \in DOMAIN Manifest(p) : Manifest(p)[f] = Manifest(o)[f]
<1>1. DOMAIN p = Key /\ Archive(p) = Without(Archive(o), roots)
      /\ Manifest(p) = Without(Manifest(o), files)
  BY PrunedParts DEF Objects
<1>2. /\ IsIndex(Index(p), n) /\ IsVectors(Vectors(p))
      /\ Len(Vectors(p)) = Len(Index(p))
      /\ \A j \in DOMAIN Index(p) : \E i \in DOMAIN Index(o) :
           Index(p)[j] = Index(o)[i] /\ Index(o)[i].root \notin roots
  BY PrunedRows
<1>3. IsArchive(Archive(o), n) /\ IsManifest(Manifest(o), n)
      /\ \A i \in DOMAIN Index(o) : Index(o)[i].root \in DOMAIN Archive(o)
  BY ValidParts
<1>4. p = [k \in Key |-> p[k]]
  BY DEF Pruned, Objects
<1>5. /\ DOMAIN Archive(p) = DOMAIN Archive(o) \ roots
      /\ \A d \in DOMAIN Archive(p) : Archive(p)[d] = Archive(o)[d]
      /\ \A f : f \in DOMAIN Manifest(p) <=> f \in DOMAIN Manifest(o) /\ f \notin files
      /\ \A f \in DOMAIN Manifest(p) : Manifest(p)[f] = Manifest(o)[f]
  BY <1>1 DEF Without
<1>6. IsArchive(Archive(p), n)
  <2>1. Archive(p) = [d \in DOMAIN Archive(p) |-> Archive(p)[d]]
    BY <1>1 DEF Without
  <2> QED BY <2>1, <1>3, <1>5 DEF IsArchive
<1>7. IsManifest(Manifest(p), n)
  <2>1. Manifest(p) = [f \in DOMAIN Manifest(p) |-> Manifest(p)[f]]
    BY <1>1 DEF Without
  <2> QED BY <2>1, <1>3, <1>5 DEF IsManifest
<1>8. \A k \in Key : p[k] \in Content /\ p[k] # Absent
  BY <1>2, <1>6, <1>7, ContentTypes DEF Key, Archive, Manifest, Index, Vectors
<1>9. Objects(p, n)
  <2>1. p \in [Key -> Content]
    BY <1>4, <1>8
  <2> QED BY <2>1, <1>2, <1>6, <1>7 DEF Objects
<1>10. \A j \in DOMAIN Index(p) : Index(p)[j].root \in DOMAIN Archive(p)
  BY <1>2, <1>3, <1>5
<1>11. Valid(p)
  BY <1>2, <1>8, <1>10 DEF Valid, Archive, Index, Vectors
<1> QED
  BY <1>5, <1>9, <1>11

LEMMA PrunedCites ==
  ASSUME NEW n \in 0 .. MaxRequests, NEW o, NEW files, Objects(o, n), Valid(o)
  PROVE  LET p == Pruned(o, files)
         IN /\ \A a : CitesIn(Index(o), a) => CitesIn(Index(p), a)
            /\ \A x : CitesIn(x, Archive(o)) => CitesIn(x, Archive(p))
            /\ \A f : Shown(Archive(p), f) \subseteq Shown(Archive(o), f)
            /\ \A f : f \notin files => Shown(Archive(p), f) = Shown(Archive(o), f)
<1> DEFINE p == Pruned(o, files)
           roots == RootsOf(Manifest(o), files)
<1>1. /\ \A j \in DOMAIN Index(p) : \E i \in DOMAIN Index(o) : Index(p)[j] = Index(o)[i]
      /\ \A d : d \in DOMAIN Archive(p) <=> d \in DOMAIN Archive(o) /\ d \notin roots
      /\ \A d \in DOMAIN Archive(p) : Archive(p)[d] = Archive(o)[d]
  <2>1. \A j \in DOMAIN Index(p) : \E i \in DOMAIN Index(o) : Index(p)[j] = Index(o)[i]
    BY PrunedRows
  <2>2. p = Pruned(o, files) /\ roots = RootsOf(Manifest(o), files)
    OBVIOUS
  <2> HIDE DEF p, roots
  <2>3. /\ Objects(p, n) /\ Valid(p)
        /\ \A d : d \in DOMAIN Archive(p) <=> d \in DOMAIN Archive(o) /\ d \notin roots
        /\ \A d \in DOMAIN Archive(p) : Archive(p)[d] = Archive(o)[d]
    BY <2>2, PrunedKeeps
  <2> QED BY <2>1, <2>3
<1>2. Archive(o) # Absent /\ Archive(p) # Absent /\ Index(o) # Absent
  BY PrunedKeeps, ValidParts DEF Present, Key, Archive, Index
<1>3. \A d \in roots : FileOf(d) \in files
  BY ValidParts DEF RootsOf, IsManifest
<1> HIDE DEF p, roots
<1>4. \A a : CitesIn(Index(o), a) => CitesIn(Index(p), a)
  <2> SUFFICES ASSUME NEW a, CitesIn(Index(o), a), a # Absent,
                      NEW j \in DOMAIN Index(p), Index(p)[j].root \in DOMAIN a
               PROVE  a[Index(p)[j].root] = Index(p)[j].version
    BY DEF CitesIn
  <2> QED BY <1>1, <1>2 DEF CitesIn
<1>5. \A x : CitesIn(x, Archive(o)) => CitesIn(x, Archive(p))
  <2> SUFFICES ASSUME NEW x, CitesIn(x, Archive(o)), x # Absent,
                      NEW j \in DOMAIN x, x[j].root \in DOMAIN Archive(p)
               PROVE  Archive(p)[x[j].root] = x[j].version
    BY DEF CitesIn
  <2> QED BY <1>1, <1>2 DEF CitesIn
<1>6. \A f : Shown(Archive(p), f) \subseteq Shown(Archive(o), f)
  BY <1>1, <1>2 DEF Shown
<1>7. \A f : f \notin files => Shown(Archive(o), f) \subseteq Shown(Archive(p), f)
  BY <1>1, <1>2, <1>3 DEF Shown
<1>8. \A f : f \notin files => Shown(Archive(p), f) = Shown(Archive(o), f)
  BY <1>6, <1>7
<1> QED
  BY <1>4, <1>5, <1>6, <1>8, Zenon DEF p

(* Of a whole publication remains the whole publication of the others.     *)
LEMMA PrunedPublication ==
  ASSUME NEW n \in 0 .. MaxRequests, NEW o, NEW files, Objects(o, n),
         NEW w, IsPublication(o, w), NEW v,
         \A f : f \in DOMAIN v <=> f \in DOMAIN w /\ f \notin files, \A f \in DOMAIN v : v[f] = w[f]
  PROVE  IsPublication(Pruned(o, files), v)
<1> DEFINE p == Pruned(o, files)
           roots == RootsOf(Manifest(o), files)
<1>1. Valid(o) /\ Aligned(o)
  BY DEF IsPublication
<1>2. /\ Objects(p, n) /\ Valid(p)
      /\ \A d : d \in DOMAIN Archive(p) <=> d \in DOMAIN Archive(o) /\ d \notin roots
      /\ \A d \in DOMAIN Archive(p) : Archive(p)[d] = Archive(o)[d]
      /\ \A f : f \in DOMAIN Manifest(p) <=> f \in DOMAIN Manifest(o) /\ f \notin files
      /\ \A f \in DOMAIN Manifest(p) : Manifest(p)[f] = Manifest(o)[f]
  BY <1>1, PrunedKeeps
<1>3. /\ \A j \in DOMAIN Index(p) : \E i \in DOMAIN Index(o) :
           /\ Index(p)[j] = Index(o)[i] /\ Vectors(p)[j] = Vectors(o)[i]
           /\ Index(o)[i].root \notin roots
      /\ \A i \in DOMAIN Index(o) :
           Index(o)[i].root \notin roots => \E j \in DOMAIN Index(p) : Index(p)[j] = Index(o)[i]
      /\ DOMAIN Index(p) = 1 .. Len(Index(p))
  BY <1>1, PrunedRows
<1>4. /\ DOMAIN Manifest(o) = DOMAIN w
      /\ Range(Manifest(o)) = DOMAIN Archive(o)
      /\ {Index(o)[i].root : i \in DOMAIN Index(o)} = DOMAIN Archive(o)
      /\ \A f \in DOMAIN w : Archive(o)[Manifest(o)[f]] = w[f]
  BY DEF IsPublication
<1>5. /\ \A f \in DOMAIN Manifest(o) : FileOf(Manifest(o)[f]) = f
      /\ \A i \in DOMAIN Index(o) : Index(o)[i].root \in DOMAIN Archive(o)
  BY <1>1, ValidParts DEF IsManifest
<1>6. /\ \A f \in files \cap DOMAIN Manifest(o) : Manifest(o)[f] \in roots
      /\ \A d \in roots : \E f \in files \cap DOMAIN Manifest(o) : d = Manifest(o)[f]
  BY DEF RootsOf
<1>7. \A i \in DOMAIN Index(o) :
        /\ Archive(o)[Index(o)[i].root] = Index(o)[i].version
        /\ Vectors(o)[i] = [file |-> FileOf(Index(o)[i].root), version |-> Index(o)[i].version]
  BY <1>1 DEF Aligned, Cites, Archive, Index, Vectors
<1> HIDE DEF p, roots
<1>8. Range(Manifest(p)) = DOMAIN Archive(p)
  <2>1. \A f \in DOMAIN Manifest(p) : Manifest(p)[f] \notin roots
    BY <1>2, <1>5, <1>6
  <2>2. \A f \in DOMAIN Manifest(p) : Manifest(p)[f] \in DOMAIN Archive(p)
    BY <2>1, <1>2, <1>4 DEF Range
  <2>3. \A d \in DOMAIN Archive(p) : \E f \in DOMAIN Manifest(p) : d = Manifest(p)[f]
    BY <1>2, <1>4, <1>6 DEF Range
  <2> QED BY <2>2, <2>3 DEF Range
<1>9. {Index(p)[j].root : j \in DOMAIN Index(p)} = DOMAIN Archive(p)
  <2>1. \A j \in DOMAIN Index(p) : Index(p)[j].root \in DOMAIN Archive(p)
    BY <1>2, <1>3, <1>5
  <2>2. \A d \in DOMAIN Archive(p) : \E j \in DOMAIN Index(p) : Index(p)[j].root = d
    <3> SUFFICES ASSUME NEW d \in DOMAIN Archive(p)
                 PROVE  \E j \in DOMAIN Index(p) : Index(p)[j].root = d
      OBVIOUS
    <3>1. PICK i \in DOMAIN Index(o) : Index(o)[i].root = d
      BY <1>2, <1>4
    <3> QED BY <3>1, <1>2, <1>3
  <2> QED BY <2>1, <2>2
<1>10. \A j \in DOMAIN Index(p) :
         /\ Archive(p)[Index(p)[j].root] = Index(p)[j].version
         /\ Vectors(p)[j] = [file |-> FileOf(Index(p)[j].root), version |-> Index(p)[j].version]
  <2> SUFFICES ASSUME NEW j \in DOMAIN Index(p)
               PROVE  /\ Archive(p)[Index(p)[j].root] = Index(p)[j].version
                      /\ Vectors(p)[j] = [file |-> FileOf(Index(p)[j].root), version |-> Index(p)[j].version]
    OBVIOUS
  <2>1. PICK i \in DOMAIN Index(o) :
          /\ Index(p)[j] = Index(o)[i] /\ Vectors(p)[j] = Vectors(o)[i]
          /\ Index(o)[i].root \notin roots
    BY <1>3
  <2>2. Index(p)[j].root \in DOMAIN Archive(p)
    BY <2>1, <1>2, <1>5
  <2> QED BY <2>1, <2>2, <1>2, <1>7
<1>11. Aligned(p)
  BY <1>10 DEF Aligned, Cites, Archive, Index, Vectors
<1>12. \A f \in DOMAIN v : Archive(p)[Manifest(p)[f]] = v[f]
  BY <1>2, <1>4, <1>8 DEF Range
<1> QED
  BY <1>2, <1>4, <1>8, <1>9, <1>11, <1>12 DEF IsPublication, p

-----------------------------------------------------------------------------
(* Adding documents.  An upload is a list of different files.              *)
IsUpload(adds) ==
  /\ adds \in Seq(File) /\ Len(adds) <= Count
  /\ \A i, j \in DOMAIN adds : adds[i] = adds[j] => i = j

LEMMA HighestNumber ==
  ASSUME NEW n \in 0 .. MaxRequests, NEW m, IsManifest(m, n)
  PROVE  /\ Highest(m) \in 0 .. n * Count
         /\ \A f \in DOMAIN m : Number(m[f]) <= Highest(m)
<1> DEFINE T == {Number(m[f]) : f \in DOMAIN m} \cup {0}
           c == n * Count
<1>1. n \in Nat /\ Count \in Nat
  BY CountType, PublishAssumption
<1>2. c \in Nat
  BY ONLY <1>1
<1>3. \A f \in DOMAIN m : Number(m[f]) \in 1 .. c
  BY DEF IsManifest, RootsUpTo, Number
<1> HIDE DEF c
<1>4. T \in SUBSET Nat /\ T # {} /\ \A y \in T : y <= c
  BY <1>2, <1>3
<1>5. 0 \in T /\ \A f \in DOMAIN m : Number(m[f]) \in T
  OBVIOUS
<1> HIDE DEF T
<1>6. Max(T) \in T /\ \A y \in T : y <= Max(T)
  BY <1>2, <1>4, Greatest
<1>7. Highest(m) = Max(T)
  BY DEF Highest, T
<1>8. Highest(m) \in 0 .. c /\ \A f \in DOMAIN m : Number(m[f]) <= Highest(m)
  <2>1. Max(T) \in Nat /\ Max(T) <= c
    BY <1>4, <1>6
  <2>2. \A f \in DOMAIN m : Number(m[f]) <= Max(T)
    BY <1>5, <1>6
  <2> QED BY <2>1, <2>2, <1>2, <1>7
<1> QED
  BY <1>8 DEF c

(* New documents have numbers of their own, in the order of the upload.    *)
LEMMA NewRootsFresh ==
  ASSUME NEW n \in 0 .. MaxRequests, NEW o, IsManifest(Manifest(o), n),
         NEW adds, IsUpload(adds), NEW roots, roots = NewRoots(o, adds)
  PROVE  /\ Len(adds) \in Nat /\ DOMAIN adds = 1 .. Len(adds) /\ DOMAIN roots = 1 .. Len(adds)
         /\ \A i \in 1 .. Len(adds) :
              /\ adds[i] \in File /\ roots[i] \in RootsUpTo(n + 1) /\ FileOf(roots[i]) = adds[i]
              /\ \A f \in DOMAIN Manifest(o) : Manifest(o)[f] # roots[i]
         /\ \A i, j \in 1 .. Len(adds) : roots[i] = roots[j] => i = j
         /\ roots \in Seq(RootsUpTo(n + 1))
<1> DEFINE h == Highest(Manifest(o))
           c == n * Count
<1>1. n \in Nat /\ Count \in Nat
  BY CountType, PublishAssumption
<1>2. h \in 0 .. c /\ \A f \in DOMAIN Manifest(o) : Number(Manifest(o)[f]) <= h
  BY HighestNumber
<1>3. c \in Nat /\ (n + 1) * Count = c + Count
  BY ONLY <1>1
<1>4. Len(adds) \in Nat /\ DOMAIN adds = 1 .. Len(adds) /\ Len(adds) <= Count
      /\ \A i \in 1 .. Len(adds) : adds[i] \in File
  BY LenProperties DEF IsUpload
<1>5. DOMAIN roots = 1 .. Len(adds) /\ \A i \in 1 .. Len(adds) : roots[i] = <<h + i, adds[i]>>
  BY <1>4 DEF NewRoots, Manifest
<1>6. RootsUpTo(n + 1) = (1 .. c + Count) \X File
  BY <1>3 DEF RootsUpTo
<1> HIDE DEF h, c
<1>7. \A i \in 1 .. Len(adds) : h + i \in 1 .. c + Count /\ h + i > h
  BY <1>1, <1>2, <1>3, <1>4
<1>8. \A i \in 1 .. Len(adds) :
        roots[i] \in RootsUpTo(n + 1) /\ FileOf(roots[i]) = adds[i] /\ Number(roots[i]) = h + i
  <2> SUFFICES ASSUME NEW i \in 1 .. Len(adds)
               PROVE  roots[i] \in RootsUpTo(n + 1) /\ FileOf(roots[i]) = adds[i]
                      /\ Number(roots[i]) = h + i
    OBVIOUS
  <2>1. roots[i] = <<h + i, adds[i]>> /\ adds[i] \in File /\ h + i \in 1 .. c + Count
    BY <1>4, <1>5, <1>7
  <2>2. FileOf(roots[i]) = adds[i] /\ Number(roots[i]) = h + i
    BY <2>1 DEF FileOf, Number
  <2>3. roots[i] \in (1 .. c + Count) \X File
    BY <2>1
  <2> QED BY <2>2, <2>3, <1>6
<1>9. \A i \in 1 .. Len(adds) : \A f \in DOMAIN Manifest(o) : Manifest(o)[f] # roots[i]
  <2> SUFFICES ASSUME NEW i \in 1 .. Len(adds), NEW f \in DOMAIN Manifest(o), Manifest(o)[f] = roots[i]
               PROVE  FALSE
    OBVIOUS
  <2>1. h + i <= h
    BY <1>2, <1>8
  <2> QED BY <2>1, <1>2, <1>3
<1>10. \A i, j \in 1 .. Len(adds) : roots[i] = roots[j] => i = j
  <2> SUFFICES ASSUME NEW i \in 1 .. Len(adds), NEW j \in 1 .. Len(adds), roots[i] = roots[j]
               PROVE  i = j
    OBVIOUS
  <2>1. h + i = h + j
    BY <1>8
  <2> QED BY <2>1, <1>2, <1>3
<1>11. roots \in Seq(RootsUpTo(n + 1))
  <2>1. roots = [i \in 1 .. Len(adds) |-> roots[i]]
    BY <1>4, <1>5 DEF NewRoots
  <2>2. roots \in [1 .. Len(adds) -> RootsUpTo(n + 1)]
    BY <2>1, <1>8
  <2> QED BY <2>2, <1>4
<1> QED
  BY <1>4, <1>5, <1>8, <1>9, <1>10, <1>11

LEMMA ExtendedParts ==
  ASSUME NEW n \in 0 .. MaxRequests, NEW o, Objects(o, n), Valid(o), NEW adds, IsUpload(adds),
         NEW r \in Version, NEW p, p = Pruned(o, Range(adds)),
         NEW roots, roots = NewRoots(o, adds), NEW e, e = Extended(o, adds, r)
  PROVE  /\ e = [k \in Key |-> e[k]]
         /\ \A d : d \in DOMAIN Archive(e) <=>
                     d \in DOMAIN Archive(p) \/ \E i \in 1 .. Len(adds) : d = roots[i]
         /\ \A i \in 1 .. Len(adds) : Archive(e)[roots[i]] = r
         /\ \A d \in DOMAIN Archive(p) :
              (\A i \in 1 .. Len(adds) : d # roots[i]) => Archive(e)[d] = Archive(p)[d]
         /\ Archive(e) = [d \in DOMAIN Archive(e) |-> Archive(e)[d]]
         /\ \A f : f \in DOMAIN Manifest(e) <=>
                     f \in DOMAIN Manifest(p) \/ \E i \in 1 .. Len(adds) : f = adds[i]
         /\ \A i \in 1 .. Len(adds) : Manifest(e)[adds[i]] = roots[i]
         /\ \A f \in DOMAIN Manifest(p) :
              (\A i \in 1 .. Len(adds) : f # adds[i]) => Manifest(e)[f] = Manifest(p)[f]
         /\ Manifest(e) = [f \in DOMAIN Manifest(e) |-> Manifest(e)[f]]
<1>1. IsManifest(Manifest(o), n)
  BY ValidParts
<1>2. /\ Len(adds) \in Nat /\ DOMAIN adds = 1 .. Len(adds) /\ DOMAIN roots = 1 .. Len(adds)
      /\ \A i \in 1 .. Len(adds) : FileOf(roots[i]) = adds[i]
      /\ \A i, j \in 1 .. Len(adds) : adds[i] = adds[j] => i = j
  BY <1>1, NewRootsFresh DEF IsUpload
<1> DEFINE rootOf(f) == CHOOSE d \in Range(roots) : FileOf(d) = f
<1>3. \A d : d \in Range(roots) <=> \E i \in 1 .. Len(adds) : d = roots[i]
  BY <1>2 DEF Range
<1>4. \A f : f \in Range(adds) <=> \E i \in 1 .. Len(adds) : f = adds[i]
  BY <1>2 DEF Range
<1>5. \A i \in 1 .. Len(adds) : rootOf(adds[i]) = roots[i]
  <2> SUFFICES ASSUME NEW i \in 1 .. Len(adds) PROVE rootOf(adds[i]) = roots[i]
    OBVIOUS
  <2>1. \E d \in Range(roots) : FileOf(d) = adds[i]
    BY <1>2, <1>3
  <2>2. rootOf(adds[i]) \in Range(roots) /\ FileOf(rootOf(adds[i])) = adds[i]
    BY <2>1
  <2> HIDE DEF rootOf
  <2>3. PICK j \in 1 .. Len(adds) : rootOf(adds[i]) = roots[j]
    BY <2>2, <1>3
  <2> QED BY <2>2, <2>3, <1>2
<1>6. e = [k \in Key |-> e[k]]
  BY DEF Extended
<1>7. Archive(e) = [d \in DOMAIN Archive(p) \cup Range(roots) |->
                      IF d \in Range(roots) THEN r ELSE Archive(p)[d]]
  BY DEF Extended, Archive, Key
<1>8. Manifest(e) = [f \in DOMAIN Manifest(p) \cup Range(adds) |->
                       IF f \in Range(adds) THEN rootOf(f) ELSE Manifest(p)[f]]
  BY DEF Extended, Manifest, Key
<1> HIDE DEF rootOf
<1>9. /\ \A d : d \in DOMAIN Archive(e) <=>
                  d \in DOMAIN Archive(p) \/ \E i \in 1 .. Len(adds) : d = roots[i]
      /\ \A i \in 1 .. Len(adds) : Archive(e)[roots[i]] = r
      /\ \A d \in DOMAIN Archive(p) :
           (\A i \in 1 .. Len(adds) : d # roots[i]) => Archive(e)[d] = Archive(p)[d]
      /\ Archive(e) = [d \in DOMAIN Archive(e) |-> Archive(e)[d]]
  BY <1>3, <1>7
<1>10. /\ \A f : f \in DOMAIN Manifest(e) <=>
                   f \in DOMAIN Manifest(p) \/ \E i \in 1 .. Len(adds) : f = adds[i]
       /\ \A i \in 1 .. Len(adds) : Manifest(e)[adds[i]] = roots[i]
       /\ \A f \in DOMAIN Manifest(p) :
            (\A i \in 1 .. Len(adds) : f # adds[i]) => Manifest(e)[f] = Manifest(p)[f]
       /\ Manifest(e) = [f \in DOMAIN Manifest(e) |-> Manifest(e)[f]]
  BY <1>4, <1>5, <1>8
<1> QED
  BY <1>6, <1>9, <1>10

ChunkOf(d, r) == [root |-> d, version |-> r]
VectorOf(f, r) == [file |-> f, version |-> r]
RowAfter(x, i) == Len(x) + i

LEMMA ChunkFields ==
  \A d, r : ChunkOf(d, r).root = d /\ ChunkOf(d, r).version = r
  BY DEF ChunkOf

LEMMA ExtendedRows ==
  ASSUME NEW n \in 0 .. MaxRequests, NEW o, Objects(o, n), Valid(o), NEW adds, IsUpload(adds),
         NEW r \in Version, NEW p, p = Pruned(o, Range(adds)),
         NEW roots, roots = NewRoots(o, adds), NEW e, e = Extended(o, adds, r)
  PROVE  /\ IsIndex(Index(e), n + 1) /\ IsVectors(Vectors(e))
         /\ Len(Index(e)) = Len(Index(p)) + Len(adds) /\ Len(Vectors(e)) = Len(Index(e))
         /\ \A j : j \in DOMAIN Index(e) <=>
                     j \in DOMAIN Index(p) \/ \E i \in 1 .. Len(adds) : j = RowAfter(Index(p), i)
         /\ \A j \in DOMAIN Index(p) : Index(e)[j] = Index(p)[j] /\ Vectors(e)[j] = Vectors(p)[j]
         /\ \A i \in 1 .. Len(adds) :
              /\ Index(e)[RowAfter(Index(p), i)] = ChunkOf(roots[i], r)
              /\ Vectors(e)[RowAfter(Index(p), i)] = VectorOf(adds[i], r)
<1> DEFINE x == [i \in DOMAIN roots |-> [root |-> roots[i], version |-> r]]
           v == [i \in DOMAIN roots |-> [file |-> FileOf(roots[i]), version |-> r]]
           l == Len(adds)
           m == Len(Index(p))
<1>1. IsManifest(Manifest(o), n)
  BY ValidParts
<1>2. /\ l \in Nat /\ DOMAIN roots = 1 .. l
      /\ \A i \in 1 .. l : adds[i] \in File /\ roots[i] \in RootsUpTo(n + 1) /\ FileOf(roots[i]) = adds[i]
  BY <1>1, NewRootsFresh
<1>3. /\ IsIndex(Index(p), n) /\ IsVectors(Vectors(p))
      /\ Len(Vectors(p)) = m /\ m \in Nat /\ DOMAIN Index(p) = 1 .. m
  BY PrunedRows
<1>4. Index(p) \in Seq(ChunkUpTo(n + 1)) /\ Vectors(p) \in Seq(Vector)
  BY <1>3, RootsGrow, SeqMonotonic DEF IsIndex, IsVectors
<1>5. Index(e) = Index(p) \o x /\ Vectors(e) = Vectors(p) \o v
  BY DEF Extended, Index, Vectors, Key
<1>6. x \in [1 .. l -> ChunkUpTo(n + 1)] /\ v \in [1 .. l -> Vector]
  BY <1>2 DEF ChunkUpTo, Vector
<1>7. \A i \in 1 .. l : x[i] = ChunkOf(roots[i], r) /\ v[i] = VectorOf(adds[i], r)
  BY <1>2 DEF ChunkOf, VectorOf
<1> HIDE DEF x, v, l, m
<1>8. x \in Seq(ChunkUpTo(n + 1)) /\ v \in Seq(Vector) /\ Len(x) = l /\ Len(v) = l
  BY <1>2, <1>6
<1>9. /\ Index(p) \o x \in Seq(ChunkUpTo(n + 1)) /\ Len(Index(p) \o x) = m + l
      /\ \A j \in 1 .. m + l : (Index(p) \o x)[j] = IF j <= m THEN Index(p)[j] ELSE x[j - m]
  BY <1>4, <1>8, ConcatProperties DEF m
<1>10. /\ Vectors(p) \o v \in Seq(Vector) /\ Len(Vectors(p) \o v) = m + l
       /\ \A j \in 1 .. m + l : (Vectors(p) \o v)[j] = IF j <= m THEN Vectors(p)[j] ELSE v[j - m]
  <2>1. /\ Vectors(p) \o v \in Seq(Vector) /\ Len(Vectors(p) \o v) = Len(Vectors(p)) + Len(v)
        /\ \A j \in 1 .. Len(Vectors(p)) + Len(v) :
             (Vectors(p) \o v)[j] = IF j <= Len(Vectors(p)) THEN Vectors(p)[j] ELSE v[j - Len(Vectors(p))]
    BY <1>4, <1>8, ConcatProperties
  <2> QED BY ONLY <2>1, <1>3, <1>8
<1>11. DOMAIN Index(e) = 1 .. m + l
  BY <1>5, <1>9, LenProperties
<1>12. \A j \in DOMAIN Index(p) : Index(e)[j] = Index(p)[j] /\ Vectors(e)[j] = Vectors(p)[j]
  BY <1>2, <1>3, <1>5, <1>9, <1>10
<1>13. \A i \in 1 .. l : m + i \in 1 .. m + l /\ ~(m + i <= m) /\ (m + i) - m = i
  BY <1>2, <1>3
<1>14. \A i \in 1 .. l : Index(e)[m + i] = x[i] /\ Vectors(e)[m + i] = v[i]
  BY <1>5, <1>9, <1>10, <1>13
<1>15. \A j : j \in DOMAIN Index(e) <=> j \in DOMAIN Index(p) \/ \E i \in 1 .. l : j = m + i
  <2>1. \A j \in 1 .. m : j \in 1 .. m + l
    BY <1>2, <1>3
  <2>2. ASSUME NEW j \in 1 .. m + l, j \notin 1 .. m PROVE \E i \in 1 .. l : j = m + i
    <3>1. j - m \in 1 .. l /\ j = m + (j - m)
      BY <1>2, <1>3, <2>2
    <3> QED BY <3>1
  <2> QED BY <2>1, <2>2, <1>3, <1>11, <1>13
<1> QED
  BY <1>5, <1>7, <1>9, <1>10, <1>12, <1>14, <1>15 DEF IsIndex, IsVectors, RowAfter, l, m

LEMMA ExtendedFresh ==
  ASSUME NEW n \in 0 .. MaxRequests, NEW o, Objects(o, n), Valid(o),
         NEW adds, IsUpload(adds), ~Collides(o, adds), NEW roots, roots = NewRoots(o, adds)
  PROVE  \A i \in 1 .. Len(adds) : roots[i] \notin DOMAIN Archive(o)
<1> DEFINE p == Pruned(o, Range(adds))
           gone == RootsOf(Manifest(o), Range(adds))
<1>1. IsManifest(Manifest(o), n)
  BY ValidParts
<1>2. /\ DOMAIN roots = 1 .. Len(adds)
      /\ \A i \in 1 .. Len(adds) : \A f \in DOMAIN Manifest(o) : Manifest(o)[f] # roots[i]
  BY <1>1, NewRootsFresh
<1>3. p = Pruned(o, Range(adds)) /\ gone = RootsOf(Manifest(o), Range(adds))
  OBVIOUS
<1> HIDE DEF p, gone
<1>4. Objects(p, n) /\ \A d : d \in DOMAIN Archive(p) <=> d \in DOMAIN Archive(o) /\ d \notin gone
  BY <1>3, PrunedKeeps
<1>5. \A i \in 1 .. Len(adds) : roots[i] \notin DOMAIN Archive(p)
  <2>1. Range(roots) \cap DOMAIN Archive(p) = {}
    BY <1>3 DEF Collides, Archive
  <2>2. \A i \in 1 .. Len(adds) : roots[i] \in Range(roots)
    BY <1>2 DEF Range
  <2> QED BY <2>1, <2>2
<1>6. \A i \in 1 .. Len(adds) : roots[i] \notin gone
  BY <1>2, <1>3 DEF RootsOf
<1> QED
  BY <1>4, <1>5, <1>6

(* What is built can be published: it may be loaded again.                 *)
LEMMA ExtendedTypes ==
  ASSUME NEW n \in 0 .. MaxRequests, n + 1 <= MaxRequests, NEW o, Objects(o, n), Valid(o),
         NEW adds, IsUpload(adds), NEW r \in Version, NEW e, e = Extended(o, adds, r)
  PROVE  Objects(e, n + 1) /\ Valid(e)
<1> DEFINE p == Pruned(o, Range(adds))
           roots == NewRoots(o, adds)
<1>1. p = Pruned(o, Range(adds)) /\ roots = NewRoots(o, adds)
  OBVIOUS
<1>2. IsManifest(Manifest(o), n)
  BY ValidParts
<1>3. Objects(p, n) /\ Valid(p)
  <2> DEFINE gone == RootsOf(Manifest(o), Range(adds))
  <2>1. gone = RootsOf(Manifest(o), Range(adds))
    OBVIOUS
  <2> HIDE DEF gone, p
  <2> QED BY <1>1, <2>1, PrunedKeeps
<1> HIDE DEF p, roots
<1>4. /\ IsArchive(Archive(p), n) /\ IsManifest(Manifest(p), n)
      /\ \A j \in DOMAIN Index(p) : Index(p)[j].root \in DOMAIN Archive(p)
  BY <1>3, ValidParts
<1>5. /\ Len(adds) \in Nat
      /\ \A i \in 1 .. Len(adds) :
           adds[i] \in File /\ roots[i] \in RootsUpTo(n + 1) /\ FileOf(roots[i]) = adds[i]
  BY <1>1, <1>2, NewRootsFresh
<1>6. /\ e = [k \in Key |-> e[k]]
      /\ \A d : d \in DOMAIN Archive(e) <=>
                 d \in DOMAIN Archive(p) \/ \E i \in 1 .. Len(adds) : d = roots[i]
      /\ \A i \in 1 .. Len(adds) : Archive(e)[roots[i]] = r
      /\ \A d \in DOMAIN Archive(p) :
           (\A i \in 1 .. Len(adds) : d # roots[i]) => Archive(e)[d] = Archive(p)[d]
      /\ Archive(e) = [d \in DOMAIN Archive(e) |-> Archive(e)[d]]
  BY <1>1, ExtendedParts
<1>7. /\ \A f : f \in DOMAIN Manifest(e) <=>
                 f \in DOMAIN Manifest(p) \/ \E i \in 1 .. Len(adds) : f = adds[i]
      /\ \A i \in 1 .. Len(adds) : Manifest(e)[adds[i]] = roots[i]
      /\ \A f \in DOMAIN Manifest(p) :
           (\A i \in 1 .. Len(adds) : f # adds[i]) => Manifest(e)[f] = Manifest(p)[f]
      /\ Manifest(e) = [f \in DOMAIN Manifest(e) |-> Manifest(e)[f]]
  BY <1>1, ExtendedParts
<1>8. /\ IsIndex(Index(e), n + 1) /\ IsVectors(Vectors(e))
      /\ Len(Vectors(e)) = Len(Index(e))
      /\ \A j : j \in DOMAIN Index(e) <=>
                  j \in DOMAIN Index(p) \/ \E i \in 1 .. Len(adds) : j = RowAfter(Index(p), i)
      /\ \A j \in DOMAIN Index(p) : Index(e)[j] = Index(p)[j] /\ Vectors(e)[j] = Vectors(p)[j]
      /\ \A i \in 1 .. Len(adds) : Index(e)[RowAfter(Index(p), i)] = ChunkOf(roots[i], r)
  BY <1>1, ExtendedRows
<1>9. IsArchive(Archive(e), n + 1)
  <2>1. \A d \in DOMAIN Archive(e) : d \in RootsUpTo(n + 1) /\ Archive(e)[d] \in Version
    <3> SUFFICES ASSUME NEW d \in DOMAIN Archive(e)
                 PROVE  d \in RootsUpTo(n + 1) /\ Archive(e)[d] \in Version
      OBVIOUS
    <3>1. CASE \E i \in 1 .. Len(adds) : d = roots[i]
      BY <3>1, <1>5, <1>6
    <3>2. CASE ~\E i \in 1 .. Len(adds) : d = roots[i]
      <4>1. d \in DOMAIN Archive(p) /\ Archive(e)[d] = Archive(p)[d]
        BY <3>2, <1>6
      <4> QED BY <4>1, <1>4, RootsGrow DEF IsArchive
    <3> QED BY <3>1, <3>2
  <2> QED BY <2>1, <1>6 DEF IsArchive
<1>10. IsManifest(Manifest(e), n + 1)
  <2>1. \A f \in DOMAIN Manifest(e) :
          f \in File /\ Manifest(e)[f] \in RootsUpTo(n + 1) /\ FileOf(Manifest(e)[f]) = f
    BY <1>4, <1>5, <1>7, RootsGrow DEF IsManifest
  <2> QED BY <2>1, <1>7 DEF IsManifest
<1>11. \A k \in Key : e[k] \in Content /\ e[k] # Absent
  <2>1. n + 1 \in 0 .. MaxRequests
    BY PublishAssumption
  <2> QED BY <2>1, <1>8, <1>9, <1>10, ContentTypes DEF Key, Archive, Manifest, Index, Vectors
<1>12. Objects(e, n + 1)
  <2>1. e \in [Key -> Content]
    BY <1>6, <1>11
  <2> QED BY <2>1, <1>8, <1>9, <1>10 DEF Objects
<1>13. \A j \in DOMAIN Index(e) : Index(e)[j].root \in DOMAIN Archive(e)
  <2> SUFFICES ASSUME NEW j \in DOMAIN Index(e) PROVE Index(e)[j].root \in DOMAIN Archive(e)
    OBVIOUS
  <2>1. CASE j \in DOMAIN Index(p)
    BY <2>1, <1>4, <1>6, <1>8
  <2>2. ASSUME NEW i \in 1 .. Len(adds), j = RowAfter(Index(p), i)
        PROVE  Index(e)[j].root \in DOMAIN Archive(e)
    <3>1. Index(e)[j].root = roots[i]
      BY <2>2, <1>8, ChunkFields
    <3> QED BY <3>1, <1>6
  <2> QED BY <2>1, <2>2, <1>8
<1>14. Valid(e)
  BY <1>8, <1>11, <1>13 DEF Valid, Archive, Index, Vectors
<1> QED
  BY <1>12, <1>14

(* New directories are new: the old index cites nothing of the new         *)
(* archive in another version, nor the new index anything of the old.      *)
LEMMA ExtendedCites ==
  ASSUME NEW n \in 0 .. MaxRequests, NEW o, Objects(o, n), Valid(o),
         NEW adds, IsUpload(adds), NEW r \in Version, ~Collides(o, adds),
         NEW e, e = Extended(o, adds, r), CitesIn(Index(o), Archive(o))
  PROVE  /\ CitesIn(Index(o), Archive(e))
         /\ CitesIn(Index(e), Archive(o))
         /\ CitesIn(Index(e), Archive(e))
<1> DEFINE p == Pruned(o, Range(adds))
           roots == NewRoots(o, adds)
           gone == RootsOf(Manifest(o), Range(adds))
<1>1. p = Pruned(o, Range(adds)) /\ roots = NewRoots(o, adds) /\ gone = RootsOf(Manifest(o), Range(adds))
  OBVIOUS
<1> HIDE DEF p, roots, gone
<1>2. /\ Present(o)
      /\ \A i \in DOMAIN Index(o) : Index(o)[i].root \in DOMAIN Archive(o)
  BY ValidParts
<1>3. \A i \in 1 .. Len(adds) : roots[i] \notin DOMAIN Archive(o)
  BY <1>1, ExtendedFresh
<1>4. /\ Objects(p, n)
      /\ \A d : d \in DOMAIN Archive(p) <=> d \in DOMAIN Archive(o) /\ d \notin gone
      /\ \A d \in DOMAIN Archive(p) : Archive(p)[d] = Archive(o)[d]
  BY <1>1, PrunedKeeps
<1>5. \A j \in DOMAIN Index(p) : \E i \in DOMAIN Index(o) : Index(p)[j] = Index(o)[i]
  BY <1>1, PrunedRows
<1>6. /\ \A d : d \in DOMAIN Archive(e) <=>
                 d \in DOMAIN Archive(p) \/ \E i \in 1 .. Len(adds) : d = roots[i]
      /\ \A i \in 1 .. Len(adds) : Archive(e)[roots[i]] = r
      /\ \A d \in DOMAIN Archive(p) :
           (\A i \in 1 .. Len(adds) : d # roots[i]) => Archive(e)[d] = Archive(p)[d]
  BY <1>1, ExtendedParts
<1>7. /\ \A j : j \in DOMAIN Index(e) <=>
                  j \in DOMAIN Index(p) \/ \E i \in 1 .. Len(adds) : j = RowAfter(Index(p), i)
      /\ \A j \in DOMAIN Index(p) : Index(e)[j] = Index(p)[j] /\ Vectors(e)[j] = Vectors(p)[j]
      /\ \A i \in 1 .. Len(adds) : Index(e)[RowAfter(Index(p), i)] = ChunkOf(roots[i], r)
  BY <1>1, ExtendedRows
<1>8. \A i \in DOMAIN Index(o) : Archive(o)[Index(o)[i].root] = Index(o)[i].version
  BY <1>2 DEF CitesIn, Present, Key, Archive, Index
(* A row of the new index is an old row or one of the new documents'.      *)
<1>9. \A j \in DOMAIN Index(e) :
        \/ \E i \in DOMAIN Index(o) : Index(e)[j] = Index(o)[i]
        \/ \E i \in 1 .. Len(adds) : Index(e)[j].root = roots[i] /\ Index(e)[j].version = r
  <2> SUFFICES ASSUME NEW j \in DOMAIN Index(e)
               PROVE  \/ \E i \in DOMAIN Index(o) : Index(e)[j] = Index(o)[i]
                      \/ \E i \in 1 .. Len(adds) : Index(e)[j].root = roots[i] /\ Index(e)[j].version = r
    OBVIOUS
  <2>1. CASE j \in DOMAIN Index(p)
    BY <2>1, <1>5, <1>7
  <2>2. CASE \E i \in 1 .. Len(adds) : j = RowAfter(Index(p), i)
    BY <2>2, <1>7, ChunkFields
  <2> QED BY <2>1, <2>2, <1>7
<1>10. \A i \in DOMAIN Index(o) :
         Index(o)[i].root \in DOMAIN Archive(e) => Archive(e)[Index(o)[i].root] = Index(o)[i].version
  <2> SUFFICES ASSUME NEW i \in DOMAIN Index(o), Index(o)[i].root \in DOMAIN Archive(e)
               PROVE  Archive(e)[Index(o)[i].root] = Index(o)[i].version
    OBVIOUS
  <2>1. \A k \in 1 .. Len(adds) : Index(o)[i].root # roots[k]
    BY <1>2, <1>3
  <2>2. Index(o)[i].root \in DOMAIN Archive(p)
        /\ Archive(e)[Index(o)[i].root] = Archive(p)[Index(o)[i].root]
    BY <2>1, <1>6
  <2> QED BY <2>2, <1>4, <1>8
<1>11. CitesIn(Index(o), Archive(e))
  BY <1>10 DEF CitesIn
<1>12. \A j \in DOMAIN Index(e) :
         Index(e)[j].root \in DOMAIN Archive(o) => Archive(o)[Index(e)[j].root] = Index(e)[j].version
  BY <1>3, <1>8, <1>9
<1>13. CitesIn(Index(e), Archive(o))
  BY <1>12 DEF CitesIn
<1>14. \A j \in DOMAIN Index(e) :
         Index(e)[j].root \in DOMAIN Archive(e) => Archive(e)[Index(e)[j].root] = Index(e)[j].version
  BY <1>6, <1>9, <1>10
<1>15. CitesIn(Index(e), Archive(e))
  BY <1>14 DEF CitesIn
<1> QED
  BY <1>11, <1>13, <1>15

(* The files of the upload are shown in the new version, the others as     *)
(* before.                                                                 *)
LEMMA ExtendedShows ==
  ASSUME NEW n \in 0 .. MaxRequests, n + 1 <= MaxRequests, NEW o, Objects(o, n), Valid(o),
         NEW adds, IsUpload(adds), NEW r \in Version, ~Collides(o, adds),
         NEW e, e = Extended(o, adds, r)
  PROVE  /\ \A f, v : v \in Shown(Archive(e), f) => v \in Shown(Archive(o), f) \/ v = r
         /\ \A i \in 1 .. Len(adds) : r \in Shown(Archive(e), adds[i])
         /\ \A f : (\A i \in 1 .. Len(adds) : f # adds[i]) => Shown(Archive(e), f) = Shown(Archive(o), f)
<1> DEFINE p == Pruned(o, Range(adds))
           roots == NewRoots(o, adds)
<1>1. p = Pruned(o, Range(adds)) /\ roots = NewRoots(o, adds)
  OBVIOUS
<1>2. /\ \A f : \A v \in Shown(Archive(p), f) : v \in Shown(Archive(o), f)
      /\ \A f : f \notin Range(adds) => Shown(Archive(p), f) = Shown(Archive(o), f)
      /\ Valid(p) /\ Objects(p, n)
  <2>1. /\ \A f : Shown(Archive(p), f) \subseteq Shown(Archive(o), f)
        /\ \A f : f \notin Range(adds) => Shown(Archive(p), f) = Shown(Archive(o), f)
    BY PrunedCites, Zenon
  <2>2. Valid(p) /\ Objects(p, n)
    BY PrunedKeeps
  <2> QED BY <2>1, <2>2
<1> HIDE DEF p, roots
<1>3. /\ IsManifest(Manifest(o), n) /\ Archive(o) # Absent /\ Archive(p) # Absent
  BY <1>2, ValidParts DEF Present, Key, Archive
<1>4. Archive(e) # Absent
  <2>1. Valid(e)
    BY ExtendedTypes
  <2> QED BY <2>1 DEF Valid, Key, Archive
<1>5. /\ Len(adds) \in Nat /\ DOMAIN adds = 1 .. Len(adds)
      /\ \A i \in 1 .. Len(adds) : FileOf(roots[i]) = adds[i]
  BY <1>1, <1>3, NewRootsFresh
<1>6. /\ \A d : d \in DOMAIN Archive(e) <=>
                 d \in DOMAIN Archive(p) \/ \E i \in 1 .. Len(adds) : d = roots[i]
      /\ \A i \in 1 .. Len(adds) : Archive(e)[roots[i]] = r
      /\ \A d \in DOMAIN Archive(p) :
           (\A i \in 1 .. Len(adds) : d # roots[i]) => Archive(e)[d] = Archive(p)[d]
  BY <1>1, ExtendedParts
<1>7. \A f, v : v \in Shown(Archive(e), f) => v \in Shown(Archive(p), f) \/ v = r
  <2> SUFFICES ASSUME NEW f, NEW d \in DOMAIN Archive(e), FileOf(d) = f, Archive(e)[d] # r
               PROVE  Archive(e)[d] \in Shown(Archive(p), f)
    BY <1>4 DEF Shown
  <2>1. d \in DOMAIN Archive(p) /\ Archive(e)[d] = Archive(p)[d]
    BY <1>6
  <2> QED BY <2>1, <1>3 DEF Shown
<1>8. \A i \in 1 .. Len(adds) : r \in Shown(Archive(e), adds[i])
  <2> SUFFICES ASSUME NEW i \in 1 .. Len(adds) PROVE r \in Shown(Archive(e), adds[i])
    OBVIOUS
  <2>1. roots[i] \in DOMAIN Archive(e) /\ FileOf(roots[i]) = adds[i] /\ Archive(e)[roots[i]] = r
    BY <1>5, <1>6
  <2> QED BY <2>1, <1>4 DEF Shown
<1>9. \A f : (\A i \in 1 .. Len(adds) : f # adds[i]) => Shown(Archive(e), f) = Shown(Archive(o), f)
  <2> SUFFICES ASSUME NEW f, \A i \in 1 .. Len(adds) : f # adds[i]
               PROVE  Shown(Archive(e), f) = Shown(Archive(o), f)
    OBVIOUS
  <2>1. Shown(Archive(p), f) = Shown(Archive(o), f)
    BY <1>2, <1>5 DEF Range
  <2>2. \A d : FileOf(d) = f => \A i \in 1 .. Len(adds) : d # roots[i]
    BY <1>5
  <2>3. \A d : FileOf(d) = f =>
          /\ d \in DOMAIN Archive(e) <=> d \in DOMAIN Archive(p)
          /\ d \in DOMAIN Archive(p) => Archive(e)[d] = Archive(p)[d]
    BY <2>2, <1>6
  <2>4. Shown(Archive(e), f) = Shown(Archive(p), f)
    BY <2>3, <1>3, <1>4 DEF Shown
  <2> QED BY <2>1, <2>4
<1> QED
  BY <1>2, <1>7, <1>8, <1>9

-----------------------------------------------------------------------------
(* Whole publications show their originals, and new directories never      *)
(* collide with theirs.                                                    *)
LEMMA PublicationShows ==
  ASSUME NEW n \in 0 .. MaxRequests, NEW o, Objects(o, n), NEW w, IsPublication(o, w)
  PROVE  \A f, v : v \in Shown(Archive(o), f) <=> f \in DOMAIN w /\ v = w[f]
<1>1. Valid(o)
  BY DEF IsPublication
<1>2. /\ Archive(o) # Absent
      /\ \A f \in DOMAIN Manifest(o) : FileOf(Manifest(o)[f]) = f
  BY <1>1, ValidParts DEF Present, Key, Archive, IsManifest
<1>3. /\ \A f : f \in DOMAIN Manifest(o) <=> f \in DOMAIN w
      /\ \A d : d \in DOMAIN Archive(o) <=> \E f \in DOMAIN Manifest(o) : d = Manifest(o)[f]
      /\ \A f \in DOMAIN w : Archive(o)[Manifest(o)[f]] = w[f]
  BY DEF IsPublication, Range
<1>4. ASSUME NEW f, NEW d \in DOMAIN Archive(o), FileOf(d) = f
      PROVE  f \in DOMAIN w /\ Archive(o)[d] = w[f]
  BY <1>2, <1>3, <1>4
<1>5. ASSUME NEW f \in DOMAIN w
      PROVE  w[f] \in Shown(Archive(o), f)
  BY <1>2, <1>3, <1>5 DEF Shown
<1> QED
  BY <1>2, <1>4, <1>5 DEF Shown

LEMMA WholeNeverCollides ==
  ASSUME NEW n \in 0 .. MaxRequests, NEW o, Objects(o, n), NEW w, IsPublication(o, w),
         NEW adds, IsUpload(adds)
  PROVE  ~Collides(o, adds)
<1> DEFINE p == Pruned(o, Range(adds))
           roots == NewRoots(o, adds)
           gone == RootsOf(Manifest(o), Range(adds))
<1>1. p = Pruned(o, Range(adds)) /\ roots = NewRoots(o, adds) /\ gone = RootsOf(Manifest(o), Range(adds))
  OBVIOUS
<1> HIDE DEF p, roots, gone
<1>2. Valid(o) /\ \A d : d \in DOMAIN Archive(o) <=> \E f \in DOMAIN Manifest(o) : d = Manifest(o)[f]
  BY DEF IsPublication, Range
<1>3. Objects(p, n) /\ \A d : d \in DOMAIN Archive(p) <=> d \in DOMAIN Archive(o) /\ d \notin gone
  BY <1>1, <1>2, PrunedKeeps
<1>4. IsManifest(Manifest(o), n)
  BY <1>2, ValidParts
<1>5. /\ DOMAIN roots = 1 .. Len(adds)
      /\ \A i \in 1 .. Len(adds) : \A f \in DOMAIN Manifest(o) : Manifest(o)[f] # roots[i]
  BY <1>1, <1>4, NewRootsFresh
<1>6. \A i \in 1 .. Len(adds) : roots[i] \notin DOMAIN Archive(p)
  BY <1>2, <1>3, <1>5
<1>7. Range(roots) \cap DOMAIN Archive(p) = {}
  BY <1>5, <1>6 DEF Range
<1> QED
  BY <1>1, <1>7 DEF Collides, Archive

(* A whole publication and new documents make a whole publication.         *)
LEMMA ExtendedPublication ==
  ASSUME NEW n \in 0 .. MaxRequests, n + 1 <= MaxRequests, NEW o, Objects(o, n),
         NEW w, IsPublication(o, w), NEW adds, IsUpload(adds), NEW r \in Version,
         NEW e, e = Extended(o, adds, r), NEW v,
         \A f : f \in DOMAIN v <=> f \in DOMAIN w \/ \E i \in 1 .. Len(adds) : f = adds[i],
         \A i \in 1 .. Len(adds) : v[adds[i]] = r,
         \A f \in DOMAIN w : (\A i \in 1 .. Len(adds) : f # adds[i]) => v[f] = w[f]
  PROVE  IsPublication(e, v)
<1> DEFINE p == Pruned(o, Range(adds))
           roots == NewRoots(o, adds)
           u == [f \in DOMAIN w \ Range(adds) |-> w[f]]
           m == Len(Index(p))
<1>1. p = Pruned(o, Range(adds)) /\ roots = NewRoots(o, adds)
  OBVIOUS
<1>2. Valid(o)
  BY DEF IsPublication
<1>3. IsPublication(p, u)
  <2>1. /\ \A f : f \in DOMAIN u <=> f \in DOMAIN w /\ f \notin Range(adds)
        /\ \A f \in DOMAIN u : u[f] = w[f]
    OBVIOUS
  <2> HIDE DEF u
  <2> QED BY <2>1, PrunedPublication
<1>4. \A f : f \in DOMAIN u <=> f \in DOMAIN w /\ f \notin Range(adds)
  OBVIOUS
<1>5. \A f \in DOMAIN u : u[f] = w[f]
  OBVIOUS
<1> HIDE DEF p, roots, u
<1>6. IsManifest(Manifest(o), n)
  BY <1>2, ValidParts
<1>7. /\ Len(adds) \in Nat /\ DOMAIN adds = 1 .. Len(adds)
      /\ \A i \in 1 .. Len(adds) : FileOf(roots[i]) = adds[i]
      /\ \A i, j \in 1 .. Len(adds) : roots[i] = roots[j] => i = j
  BY <1>1, <1>6, NewRootsFresh
<1>8. \A f : f \in Range(adds) <=> \E i \in 1 .. Len(adds) : f = adds[i]
  BY <1>7 DEF Range
<1>9. \A i \in 1 .. Len(adds) : roots[i] \notin DOMAIN Archive(o)
  BY <1>1, <1>2, WholeNeverCollides, ExtendedFresh
<1>10. /\ \A d \in DOMAIN Archive(p) : d \in DOMAIN Archive(o)
       /\ Objects(p, n) /\ Valid(p)
  <2> DEFINE gone == RootsOf(Manifest(o), Range(adds))
  <2>1. gone = RootsOf(Manifest(o), Range(adds))
    OBVIOUS
  <2> HIDE DEF gone
  <2>2. /\ Objects(p, n) /\ Valid(p)
        /\ \A d : d \in DOMAIN Archive(p) <=> d \in DOMAIN Archive(o) /\ d \notin gone
    BY <2>1, <1>1, <1>2, PrunedKeeps
  <2> QED BY <2>2
<1>11. /\ \A d : d \in DOMAIN Archive(e) <=>
                  d \in DOMAIN Archive(p) \/ \E i \in 1 .. Len(adds) : d = roots[i]
       /\ \A i \in 1 .. Len(adds) : Archive(e)[roots[i]] = r
       /\ \A d \in DOMAIN Archive(p) :
            (\A i \in 1 .. Len(adds) : d # roots[i]) => Archive(e)[d] = Archive(p)[d]
  BY <1>1, <1>2, ExtendedParts
<1>12. /\ \A f : f \in DOMAIN Manifest(e) <=>
                  f \in DOMAIN Manifest(p) \/ \E i \in 1 .. Len(adds) : f = adds[i]
       /\ \A i \in 1 .. Len(adds) : Manifest(e)[adds[i]] = roots[i]
       /\ \A f \in DOMAIN Manifest(p) :
            (\A i \in 1 .. Len(adds) : f # adds[i]) => Manifest(e)[f] = Manifest(p)[f]
  BY <1>1, <1>2, ExtendedParts
<1>13. /\ \A j : j \in DOMAIN Index(e) <=>
                   j \in DOMAIN Index(p) \/ \E i \in 1 .. Len(adds) : j = RowAfter(Index(p), i)
       /\ \A j \in DOMAIN Index(p) : Index(e)[j] = Index(p)[j] /\ Vectors(e)[j] = Vectors(p)[j]
       /\ \A i \in 1 .. Len(adds) :
            /\ Index(e)[RowAfter(Index(p), i)] = ChunkOf(roots[i], r)
            /\ Vectors(e)[RowAfter(Index(p), i)] = VectorOf(adds[i], r)
  BY <1>1, <1>2, ExtendedRows
<1>14. Objects(e, n + 1) /\ Valid(e)
  BY <1>2, ExtendedTypes
(* What the rest of the old publication is.                                *)
<1>15. /\ \A f : f \in DOMAIN Manifest(p) <=> f \in DOMAIN u
       /\ \A d : d \in DOMAIN Archive(p) <=> \E f \in DOMAIN Manifest(p) : d = Manifest(p)[f]
       /\ \A d : d \in DOMAIN Archive(p) <=> \E j \in DOMAIN Index(p) : d = Index(p)[j].root
       /\ \A f \in DOMAIN u : Archive(p)[Manifest(p)[f]] = u[f]
  BY <1>3 DEF IsPublication, Range
<1>16. \A j \in DOMAIN Index(p) :
         /\ Archive(p)[Index(p)[j].root] = Index(p)[j].version
         /\ Vectors(p)[j] = VectorOf(FileOf(Index(p)[j].root), Index(p)[j].version)
  BY <1>3 DEF IsPublication, Aligned, Cites, Archive, Index, Vectors, VectorOf
<1>17. \A d \in DOMAIN Archive(p) : Archive(e)[d] = Archive(p)[d]
  BY <1>9, <1>10, <1>11
<1>18. \A f \in DOMAIN u : \A i \in 1 .. Len(adds) : f # adds[i]
  BY <1>4, <1>8
<1>19. \A f : f \in DOMAIN Manifest(e) <=> f \in DOMAIN v
  BY <1>4, <1>8, <1>12, <1>15
<1>20. \A d : d \in DOMAIN Archive(e) <=> \E f \in DOMAIN Manifest(e) : d = Manifest(e)[f]
  <2>1. ASSUME NEW d \in DOMAIN Archive(e)
        PROVE  \E f \in DOMAIN Manifest(e) : d = Manifest(e)[f]
    <3>1. CASE d \in DOMAIN Archive(p)
      BY <3>1, <1>12, <1>15, <1>18
    <3>2. CASE \E i \in 1 .. Len(adds) : d = roots[i]
      BY <3>2, <1>12
    <3> QED BY <3>1, <3>2, <1>11
  <2>2. ASSUME NEW f \in DOMAIN Manifest(e)
        PROVE  Manifest(e)[f] \in DOMAIN Archive(e)
    <3>1. CASE f \in DOMAIN Manifest(p)
      BY <3>1, <1>11, <1>12, <1>15, <1>18
    <3>2. CASE \E i \in 1 .. Len(adds) : f = adds[i]
      BY <3>2, <1>11, <1>12
    <3> QED BY <3>1, <3>2, <1>12
  <2> QED BY <2>1, <2>2
<1>21. \A d : d \in DOMAIN Archive(e) <=> \E j \in DOMAIN Index(e) : d = Index(e)[j].root
  <2>1. ASSUME NEW d \in DOMAIN Archive(e)
        PROVE  \E j \in DOMAIN Index(e) : d = Index(e)[j].root
    <3>1. CASE d \in DOMAIN Archive(p)
      BY <3>1, <1>13, <1>15
    <3>2. CASE \E i \in 1 .. Len(adds) : d = roots[i]
      BY <3>2, <1>13, ChunkFields
    <3> QED BY <3>1, <3>2, <1>11
  <2>2. ASSUME NEW j \in DOMAIN Index(e)
        PROVE  Index(e)[j].root \in DOMAIN Archive(e)
    <3>1. CASE j \in DOMAIN Index(p)
      BY <3>1, <1>11, <1>13, <1>15
    <3>2. CASE \E i \in 1 .. Len(adds) : j = RowAfter(Index(p), i)
      BY <3>2, <1>11, <1>13, ChunkFields
    <3> QED BY <3>1, <3>2, <1>13
  <2> QED BY <2>1, <2>2
<1>22. \A j \in DOMAIN Index(e) :
         /\ Archive(e)[Index(e)[j].root] = Index(e)[j].version
         /\ Vectors(e)[j] = VectorOf(FileOf(Index(e)[j].root), Index(e)[j].version)
  <2> SUFFICES ASSUME NEW j \in DOMAIN Index(e)
               PROVE  /\ Archive(e)[Index(e)[j].root] = Index(e)[j].version
                      /\ Vectors(e)[j] = VectorOf(FileOf(Index(e)[j].root), Index(e)[j].version)
    OBVIOUS
  <2>1. CASE j \in DOMAIN Index(p)
    BY <2>1, <1>13, <1>15, <1>16, <1>17
  <2>2. ASSUME NEW i \in 1 .. Len(adds), j = RowAfter(Index(p), i)
        PROVE  /\ Archive(e)[Index(e)[j].root] = Index(e)[j].version
               /\ Vectors(e)[j] = VectorOf(FileOf(Index(e)[j].root), Index(e)[j].version)
    <3>1. Index(e)[j].root = roots[i] /\ Index(e)[j].version = r /\ Vectors(e)[j] = VectorOf(adds[i], r)
      BY <2>2, <1>13, ChunkFields
    <3> QED BY <3>1, <1>7, <1>11
  <2> QED BY <2>1, <2>2, <1>13
<1>23. Aligned(e)
  BY <1>22 DEF Aligned, Cites, Archive, Index, Vectors, VectorOf
<1>24. \A f \in DOMAIN v : Archive(e)[Manifest(e)[f]] = v[f]
  <2> SUFFICES ASSUME NEW f \in DOMAIN v PROVE Archive(e)[Manifest(e)[f]] = v[f]
    OBVIOUS
  <2>1. CASE \E i \in 1 .. Len(adds) : f = adds[i]
    BY <2>1, <1>11, <1>12
  <2>2. CASE ~\E i \in 1 .. Len(adds) : f = adds[i]
    <3>1. f \in DOMAIN w /\ f \in DOMAIN u /\ v[f] = w[f] /\ u[f] = w[f]
      BY <2>2, <1>4, <1>5, <1>8
    <3>2. Manifest(e)[f] = Manifest(p)[f] /\ Manifest(p)[f] \in DOMAIN Archive(p)
      BY <3>1, <2>2, <1>12, <1>15
    <3> QED BY <3>1, <3>2, <1>15, <1>17
  <2> QED BY <2>1, <2>2
<1>25. /\ DOMAIN Manifest(e) = DOMAIN v
       /\ Range(Manifest(e)) = DOMAIN Archive(e)
       /\ {Index(e)[j].root : j \in DOMAIN Index(e)} = DOMAIN Archive(e)
  <2>1. DOMAIN Manifest(e) = DOMAIN v
    BY <1>19
  <2>2. Range(Manifest(e)) = DOMAIN Archive(e)
    BY <1>20 DEF Range
  <2>3. {Index(e)[j].root : j \in DOMAIN Index(e)} = DOMAIN Archive(e)
    BY <1>21
  <2> QED BY <2>1, <2>2, <2>3
<1> QED
  BY <1>14, <1>23, <1>24, <1>25 DEF IsPublication

(* A session without originals is published from nothing.                  *)
LEMMA NothingIsPublication ==
  /\ Objects(EmptyPublication, 0) /\ IsPublication(EmptyPublication, NoFiles)
  /\ \A f : Shown(Archive(EmptyPublication), f) = {}
<1> DEFINE o == EmptyPublication
           z == [d \in {} |-> 0]
<1>1. Archive(o) = z /\ Manifest(o) = z /\ Index(o) = <<>> /\ Vectors(o) = <<>>
  BY DEF EmptyPublication, Archive, Manifest, Index, Vectors, Key
<1>2. o = [k \in Key |-> o[k]]
  BY DEF EmptyPublication
<1>3. DOMAIN z = {} /\ z = NoFiles /\ Range(z) = {}
  BY DEF NoFiles, Range
<1>4. IsArchive(z, 0) /\ IsManifest(z, 0)
  BY <1>3 DEF IsArchive, IsManifest
<1>5. IsIndex(<<>>, 0) /\ IsVectors(<<>>) /\ DOMAIN <<>> = {} /\ Len(<<>>) = 0
  BY DEF IsIndex, IsVectors
<1> HIDE DEF o, z
<1>6. 0 \in 0 .. MaxRequests
  BY PublishAssumption
<1>7. \A k \in Key : o[k] \in Content /\ o[k] # Absent
  BY <1>1, <1>4, <1>5, <1>6, ContentTypes DEF Key, Archive, Manifest, Index, Vectors
<1>8. Objects(o, 0)
  <2>1. o \in [Key -> Content]
    BY <1>2, <1>7
  <2> QED BY <2>1, <1>1, <1>4, <1>5 DEF Objects
<1>9. Valid(o) /\ Aligned(o)
  BY <1>1, <1>5, <1>7 DEF Valid, Aligned, Cites, Archive, Index, Vectors
<1>10. IsPublication(o, NoFiles)
  BY <1>1, <1>3, <1>5, <1>9 DEF IsPublication
<1>11. \A f : Shown(Archive(o), f) = {}
  BY <1>1, <1>3 DEF Shown
<1> QED
  BY <1>8, <1>10, <1>11 DEF o

-----------------------------------------------------------------------------
(* The thread t of request r, the objects o, the originals w and whether   *)
(* the bucket is damaged, at each stage of the thread.                     *)
Thread ==
  [pc : {"none", "list", "load", "build", "publish", "clear", "raw",
         "done", "refused", "failed", "given up"},
   adds : Seq(File), removes : SUBSET File, names : SUBSET File,
   got : [Key -> Content], left : SUBSET (Key \cup File)]

IsRaw(w) == DOMAIN w \subseteq File /\ w \in [DOMAIN w -> Version]

Touched(t) == Added(t) \cup (t.names \cap t.removes)
Goal(t, r, w) == [f \in Remaining(t) |-> IF f \in Added(t) THEN r ELSE w[f]]

(* A request adds files or removes files, and not both.                    *)
Asks(t) == IsUpload(t.adds) /\ (t.adds = <<>> <=> t.removes # {})

(* What was built cites itself and shows the new documents ...             *)
Builds(t, r) ==
  /\ Present(t.got) /\ CitesIn(Index(t.got), Archive(t.got))
  /\ \A f \in Added(t) : r \in Shown(Archive(t.got), f)

(* ... and a bucket between it and what was there before cites itself too. *)
(* Files that the request does not name are shown as before.               *)
Follows(t, r, o) == t.names # {} =>
  /\ CitesIn(Index(o), Archive(t.got)) /\ CitesIn(Index(t.got), Archive(o))
  /\ t.left = Key => \A f \in File :
        /\ \A v \in Shown(Archive(t.got), f) : v \in Shown(Archive(o), f) \/ v = r
        /\ f \notin Added(t) /\ f \notin t.removes =>
             Shown(Archive(t.got), f) = Shown(Archive(o), f)

AtList(t) == t.pc = "list" => t.names = {} /\ t.got = NoObjects /\ t.left = {}

AtLoad(t, o, w) == t.pc = "load" =>
  /\ t.names = DOMAIN w /\ t.names # {} /\ Touched(t) # {} /\ Remaining(t) # {}
  /\ t.got["documents.zip"] = Absent
  /\ \A k \in Key : t.got[k] \in {Absent, o[k]}

AtBuild(t, o, w) == t.pc = "build" =>
  /\ t.names = DOMAIN w /\ Touched(t) # {} /\ Remaining(t) # {}
  /\ t.names = {} \/ t.got = o

(* The archive goes first.                                                 *)
ArchiveFirst(t) ==
  /\ t.left \subseteq Key /\ t.left # {}
  /\ "documents.zip" \in t.left => t.left = Key

AtPublish(t, r, o, w, damaged) == t.pc = "publish" =>
  /\ t.names = DOMAIN w /\ Touched(t) # {} /\ Remaining(t) # {} /\ ArchiveFirst(t)
  /\ \A k \in Key : k \notin t.left => o[k] = t.got[k]
  /\ Builds(t, r) /\ Follows(t, r, o)
  /\ ~damaged \/ t.names = {} => IsPublication(t.got, Goal(t, r, w))

AtClear(t, o, w) == t.pc = "clear" =>
  /\ t.names = DOMAIN w /\ t.adds = <<>> /\ Remaining(t) = {} /\ ArchiveFirst(t)
  /\ \A k \in Key : k \notin t.left => o[k] = Absent

(* All objects are as built, or gone.                                      *)
Written(t, r, o, w, damaged) ==
  IF Remaining(t) = {} THEN o = NoObjects
  ELSE /\ o = t.got /\ Builds(t, r)
       /\ ~damaged \/ t.names = {} => IsPublication(o, Goal(t, r, w))

(* The originals follow one by one.                                        *)
AtRaw(t, r, o, w, damaged) == t.pc = "raw" =>
  /\ t.left # {} /\ t.left \subseteq Touched(t)
  /\ \A f : f \in DOMAIN w <=> IF f \in Touched(t) /\ f \notin t.left
                               THEN f \in Added(t) ELSE f \in t.names
  /\ \A f \in Added(t) : f \notin t.left => w[f] = r
  /\ Written(t, r, o, w, damaged)

AtDone(t, r, o, w, damaged) == t.pc = "done" =>
  /\ DOMAIN w = Remaining(t)
  /\ \A f \in Added(t) : w[f] = r
  /\ Touched(t) # {} \/ Remaining(t) = {} => Written(t, r, o, w, damaged)

(* Nothing was put or deleted, or all of it.                               *)
Rests(t) ==
  \/ t.pc \notin {"publish", "clear", "raw"}
  \/ t.pc \in {"publish", "clear"} /\ t.left = Key

ThreadOK(t, r, o, w, damaged) ==
  /\ t.pc \notin {"none", "given up"} => Asks(t)
  /\ AtList(t) /\ AtLoad(t, o, w) /\ AtBuild(t, o, w)
  /\ AtPublish(t, r, o, w, damaged) /\ AtClear(t, o, w)
  /\ AtRaw(t, r, o, w, damaged) /\ AtDone(t, r, o, w, damaged)
  /\ t.pc = "refused" => damaged
  /\ ~damaged /\ Rests(t) => Whole(o, w)
  /\ DOMAIN w # {} => CitesIn(Index(o), Archive(o))

(* Directories have numbers up to those of request r, and of the one       *)
(* before it until r builds its own.                                       *)
Before == {"list", "load", "build"}

ObjectsOK(t, r, o) ==
  /\ Objects(o, r) /\ Objects(t.got, r)
  /\ t.pc \in Before => Objects(o, r - 1) /\ Objects(t.got, r - 1)

Good(t, r, o, w, damaged) ==
  /\ IsRaw(w) /\ ThreadOK(t, r, o, w, damaged) /\ ObjectsOK(t, r, o)

(* A worker that overlaps no later request has the archive of what the     *)
(* bucket cites or is about to cite.                                       *)
ReaderOK(rd, t, r, o, w) ==
  /\ Objects(rd.got, r)
  /\ rd.last \in 0 .. r + 1
  /\ rd.pc = "load" => Vectors(rd.got) = Absent
  /\ rd.pc = "load" /\ Archive(rd.got) = Absent => rd.got = NoObjects
  /\ rd.pc = "load" /\ r <= rd.last =>
        /\ r < rd.last => t.pc \in {"none", "given up"}
        /\ r < rd.last \/ t.pc \in Before =>
              DOMAIN w # {} /\ Archive(rd.got) \in {Absent, Archive(o)}
        /\ t.pc = "publish" => DOMAIN w # {} /\ CitesIn(Index(t.got), Archive(rd.got))
        /\ CitesIn(Index(o), Archive(o)) /\ CitesIn(Index(o), Archive(rd.got))
  /\ rd.pc # "none" /\ r <= rd.last => CitesIn(Index(rd.got), Archive(rd.got))
  /\ rd.pc = "workspace" => Valid(rd.got)

(* The thread of the request that was made last; the others are over.      *)
LastThread == IF asked = 0 THEN NoThread ELSE thread[asked]

Types ==
  /\ rows \in [bundle : BOOLEAN, raw : SUBSET File]
  /\ asked \in 0 .. MaxRequests /\ waiting \in {0, asked}
  /\ thread \in [Request -> Thread]
  /\ reader \in [pc : {"none", "load", "workspace"}, got : [Key -> Content], last : Nat]
  /\ torn \in BOOLEAN

OneWorks ==
  /\ \A r \in Request : r # asked => thread[r].pc \in {"none", "given up"}
  /\ \A r \in Request : thread[r].pc \in {"none", "given up"} => thread[r].got = NoObjects
  /\ \A r \in Request : r > asked => thread[r] = NoThread
  /\ asked = 0 => ~rows.bundle

Inv ==
  /\ Types /\ OneWorks
  /\ Good(LastThread, asked, objects, raw, torn)
  /\ ReaderOK(reader, LastThread, asked, objects, raw)

LEMMA Uploaded ==
  ASSUME NEW adds, IsUpload(adds)
  PROVE  /\ Range(adds) \subseteq File
         /\ adds # <<>> <=> Range(adds) # {}
         /\ \A f : f \in Range(adds) <=> \E i \in 1 .. Len(adds) : f = adds[i]
         /\ Len(adds) \in Nat
<1>1. adds \in Seq(File) /\ DOMAIN adds = 1 .. Len(adds) /\ Len(adds) \in Nat
  BY DEF IsUpload
<1>2. \A f : f \in Range(adds) <=> \E i \in 1 .. Len(adds) : f = adds[i]
  BY <1>1 DEF Range
<1>3. \A i \in 1 .. Len(adds) : adds[i] \in File
  BY <1>1
<1>4. ASSUME adds # <<>> PROVE Range(adds) # {}
  <2>1. Len(adds) # 0
    BY <1>1, <1>4, EmptySeq
  <2>2. 1 \in 1 .. Len(adds)
    BY <1>1, <2>1
  <2> QED BY <2>2, <1>2
<1>5. ASSUME adds = <<>> PROVE Range(adds) = {}
  <2>1. Len(adds) = 0
    BY <1>5
  <2> QED BY <2>1, <1>2
<1> QED
  BY <1>1, <1>2, <1>3, <1>4, <1>5

(* Threads that differ only in their progress ask the same.                *)
LEMMA SameRequest ==
  ASSUME NEW t, NEW t2, t2.adds = t.adds, t2.removes = t.removes
  PROVE  /\ Asks(t2) <=> Asks(t)
         /\ Added(t2) = Added(t)
         /\ t2.names = t.names => Remaining(t2) = Remaining(t) /\ Touched(t2) = Touched(t)
  BY DEF Asks, Added, Remaining, Touched

LEMMA SameGoal ==
  ASSUME NEW t, NEW t2, t2.adds = t.adds, t2.removes = t.removes, t2.names = t.names,
         NEW r, NEW w, NEW w2,
         \A f \in Remaining(t) : f \notin Added(t) => w2[f] = w[f]
  PROVE  Goal(t2, r, w2) = Goal(t, r, w)
<1>1. Added(t2) = Added(t) /\ Remaining(t2) = Remaining(t)
  BY SameRequest
<1>2. \A f \in Remaining(t) : (IF f \in Added(t2) THEN r ELSE w2[f]) = (IF f \in Added(t) THEN r ELSE w[f])
  BY <1>1
<1> QED
  BY <1>1, <1>2 DEF Goal

LEMMA GoalParts ==
  ASSUME NEW t, NEW r, NEW w
  PROVE  /\ \A f : f \in DOMAIN Goal(t, r, w) <=> (f \in t.names \/ f \in Added(t)) /\ f \notin t.removes
         /\ \A f \in DOMAIN Goal(t, r, w) : Goal(t, r, w)[f] = IF f \in Added(t) THEN r ELSE w[f]
  BY DEF Goal, Remaining

LEMMA PublicationSame ==
  ASSUME NEW o, NEW w, NEW v, IsPublication(o, w), DOMAIN v = DOMAIN w,
         \A f \in DOMAIN w : v[f] = w[f]
  PROVE  IsPublication(o, v)
  BY DEF IsPublication

LEMMA NoRaw ==
  ASSUME NEW w, IsRaw(w)
  PROVE  DOMAIN w = {} <=> w = NoFiles
  BY DEF IsRaw, NoFiles

(* A thread with nothing left goes on to the originals, or is done.        *)
LEMMA AdvanceParts ==
  ASSUME NEW t \in Thread, NEW item, NEW t2, t2 = Advance(t, item)
  PROVE  /\ t2.adds = t.adds /\ t2.removes = t.removes /\ t2.names = t.names /\ t2.got = t.got
         /\ \/ /\ \E x \in t.left : x # item
               /\ t2.pc = t.pc
               /\ \A x : x \in t2.left <=> x \in t.left /\ x # item
            \/ /\ \A x \in t.left : x = item
               /\ t.pc = "raw" \/ Touched(t) = {}
               /\ t2.pc = "done"
            \/ /\ \A x \in t.left : x = item
               /\ t.pc # "raw" /\ Touched(t) # {}
               /\ t2.pc = "raw" /\ t2.left = Touched(t)
<1>1. AfterPublish(t).left = Touched(t)
  BY DEF AfterPublish, Touched, Thread
<1>2. t.left \ {item} # {} <=> \E x \in t.left : x # item
  OBVIOUS
<1> QED
  BY <1>1, <1>2 DEF Advance, AfterPublish, Thread

(* The object that is fetched next is missing; those before it are not.    *)
LEMMA NextLoad ==
  ASSUME NEW got, got["documents.zip"] = Absent, NEW k, k = NextGet(LoadOrder, got)
  PROVE  /\ k \in Key /\ got[k] = Absent
         /\ k = "documents.zip" => \A j \in Key : j # k => got[j] # Absent
<1> DEFINE T == {i \in DOMAIN LoadOrder : got[LoadOrder[i]] = Absent}
<1>1. DOMAIN LoadOrder = 1 .. 4 /\ LoadOrder[4] = "documents.zip"
  BY DEF LoadOrder
<1>2. T \subseteq 1 .. 4 /\ 4 \in T
  BY <1>1
<1>3. PICK x \in T : \A y \in T : x <= y
  <2>1. T \in SUBSET Nat /\ T # {}
    BY <1>2
  <2> QED BY <2>1, Least
<1>4. Min(T) = x
  <2>1. \A y \in T : x <= y /\ y \in Nat /\ x \in Nat
    BY <1>2, <1>3
  <2>2. Min(T) \in T /\ \A y \in T : Min(T) <= y
    BY <1>3, <2>1 DEF Min
  <2> QED BY <2>1, <2>2, <1>3
<1>5. k = LoadOrder[x]
  BY <1>4 DEF NextGet
<1>6. LoadOrder[1] = "manifest.json" /\ LoadOrder[2] = "index.json" /\ LoadOrder[3] = "vectors.npy"
  BY DEF LoadOrder
<1>7. x \in {1, 2, 3, 4} /\ got[LoadOrder[x]] = Absent
  BY <1>2, <1>3
<1>8. x = 4 => \A y \in {1, 2, 3} : got[LoadOrder[y]] # Absent
  BY <1>1, <1>3
<1> QED
  BY <1>1, <1>5, <1>6, <1>7, <1>8 DEF Key

LEMMA NextReadStep ==
  ASSUME NEW got, got["vectors.npy"] = Absent, NEW k, k = NextGet(ReadOrder, got)
  PROVE  /\ k \in Key /\ got[k] = Absent
         /\ got["documents.zip"] = Absent => k = "documents.zip"
<1> DEFINE T == {i \in DOMAIN ReadOrder : got[ReadOrder[i]] = Absent}
<1>1. DOMAIN ReadOrder = 1 .. 4 /\ ReadOrder[4] = "vectors.npy" /\ ReadOrder[1] = "documents.zip"
  BY DEF ReadOrder
<1>2. T \subseteq 1 .. 4 /\ 4 \in T
  BY <1>1
<1>3. PICK x \in T : \A y \in T : x <= y
  <2>1. T \in SUBSET Nat /\ T # {}
    BY <1>2
  <2> QED BY <2>1, Least
<1>4. Min(T) = x
  <2>1. \A y \in T : x <= y /\ y \in Nat /\ x \in Nat
    BY <1>2, <1>3
  <2>2. Min(T) \in T /\ \A y \in T : Min(T) <= y
    BY <1>3, <2>1 DEF Min
  <2> QED BY <2>1, <2>2, <1>3
<1>5. k = ReadOrder[x]
  BY <1>4 DEF NextGet
<1>6. ReadOrder[2] = "manifest.json" /\ ReadOrder[3] = "index.json"
  BY DEF ReadOrder
<1>7. x \in {1, 2, 3, 4} /\ got[ReadOrder[x]] = Absent
  BY <1>2, <1>3
<1>8. got["documents.zip"] = Absent => x = 1
  BY <1>1, <1>3, <1>7
<1> QED
  BY <1>1, <1>5, <1>6, <1>7, <1>8 DEF Key

-----------------------------------------------------------------------------
(* The steps of the one thread t of request r; t2 is the thread after it.  *)
Stored(o, k, c) == [o EXCEPT ![k] = c]

LEMMA ListKeeps ==
  ASSUME NEW t \in Thread, NEW r \in Request, NEW o, NEW w, NEW d, Good(t, r, o, w, d),
         NEW t2, t.pc = "list", t2.adds = t.adds, t2.removes = t.removes,
         t2.got = t.got, t2.names = DOMAIN w,
         t2.pc = IF t2.adds # <<>> THEN IF t2.names = {} THEN "build" ELSE "load"
                 ELSE IF Remaining(t2) = {} THEN "clear"
                 ELSE IF t2.names \cap t2.removes # {} THEN "load" ELSE "done",
         t2.pc = "clear" => t2.left = Key
  PROVE  Good(t2, r, o, w, d)
<1>1. Asks(t) /\ Asks(t2) /\ Added(t2) = Added(t)
  BY SameRequest DEF Good, ThreadOK
<1>2. /\ Added(t2) = Range(t2.adds)
      /\ t2.adds # <<>> <=> Added(t2) # {}
      /\ t2.adds = <<>> <=> t2.removes # {}
  BY <1>1, Uploaded DEF Asks, Added
<1>3. t.got = NoObjects /\ \A k \in Key : t2.got[k] = Absent
  BY NoObjectsTypes DEF Good, ThreadOK, AtList
<1>4. t2.adds # <<>> => Touched(t2) # {} /\ Remaining(t2) # {}
  <2>1. t2.adds # <<>> => Added(t2) # {} /\ t2.removes = {}
    BY <1>2
  <2> QED BY <2>1 DEF Touched, Remaining
<1>5. t2.names \cap t2.removes # {} => Touched(t2) # {}
  BY DEF Touched
<1>6. t2.pc = "done" => Remaining(t2) = t2.names /\ Touched(t2) = {} /\ Added(t2) = {} /\ Remaining(t2) # {}
  BY <1>2 DEF Touched, Remaining
<1>7. AtLoad(t2, o, w) /\ AtBuild(t2, o, w)
  BY <1>3, <1>4, <1>5 DEF AtLoad, AtBuild, Key
<1>8. AtClear(t2, o, w)
  BY DEF AtClear, ArchiveFirst, Key
<1>9. AtDone(t2, r, o, w, d)
  BY <1>6 DEF AtDone
<1>10. t2.pc \notin {"list", "publish", "raw", "refused"}
  OBVIOUS
<1>11. Rests(t)
  BY DEF Rests
<1> QED
  BY <1>1, <1>7, <1>8, <1>9, <1>10, <1>11
     DEF Good, ThreadOK, ObjectsOK, Before, AtList, AtPublish, AtRaw

LEMMA LoadKeeps ==
  ASSUME NEW t \in Thread, NEW r \in Request, NEW o, NEW w, NEW d, Good(t, r, o, w, d),
         t.pc = "load", NEW k, k = NextGet(LoadOrder, t.got),
         NEW t2, t2.adds = t.adds, t2.removes = t.removes, t2.names = t.names,
         t2.got = Stored(t.got, k, o[k]),
         t2.pc = IF o[k] = Absent THEN "refused" ELSE IF k = "documents.zip" THEN "build" ELSE "load"
  PROVE  Good(t2, r, o, w, d)
<1>1. AtLoad(t, o, w) /\ Asks(t) /\ Asks(t2) /\ Touched(t2) = Touched(t) /\ Remaining(t2) = Remaining(t)
  BY SameRequest DEF Good, ThreadOK
<1>2. /\ k \in Key /\ t.got[k] = Absent
      /\ k = "documents.zip" => \A j \in Key : j # k => t.got[j] # Absent
  BY <1>1, NextLoad DEF AtLoad
<1>3. t.got \in [Key -> Content] /\ o \in [Key -> Content]
  BY DEF Good, ObjectsOK, Objects
<1>4. /\ t2.got \in [Key -> Content] /\ t2.got[k] = o[k]
      /\ \A j \in Key : j # k => t2.got[j] = t.got[j]
  BY <1>2, <1>3 DEF Stored
<1>5. \A j \in Key : t2.got[j] \in {Absent, o[j]}
  BY <1>1, <1>4 DEF AtLoad
<1>6. AtLoad(t2, o, w)
  BY <1>1, <1>4, <1>5 DEF AtLoad, Key
<1>7. t2.pc = "build" => t2.got = o
  BY <1>1, <1>2, <1>3, <1>4 DEF AtLoad
<1>8. AtBuild(t2, o, w)
  BY <1>1, <1>7 DEF AtLoad, AtBuild
<1>9. ~d => Whole(o, w) /\ w # NoFiles /\ Present(o)
  <2>1. ~d => Whole(o, w)
    BY DEF Good, ThreadOK, Rests
  <2>2. w # NoFiles
    BY <1>1, NoRaw DEF AtLoad, Good
  <2> QED BY <2>1, <2>2 DEF Whole, IsPublication, Valid, Present
<1>10. t2.pc = "refused" => d
  BY <1>2, <1>9 DEF Present
<1>11. Rests(t)
  BY DEF Rests
<1>12. \A n : Objects(o, n) /\ Objects(t.got, n) => Objects(t2.got, n)
  BY <1>4, <1>5 DEF Objects, Archive, Manifest, Index, Vectors, Key
<1>13. ObjectsOK(t2, r, o)
  BY <1>12 DEF Good, ObjectsOK, Before
<1>14. t2.pc \notin {"list", "publish", "clear", "raw", "done"}
  OBVIOUS
<1> QED
  BY <1>1, <1>6, <1>8, <1>9, <1>10, <1>13, <1>14
     DEF Good, ThreadOK, AtList, AtPublish, AtClear, AtRaw, AtDone

(* What the thread builds from: the bucket as it was, or nothing.          *)
LEMMA BuildsFrom ==
  ASSUME NEW t \in Thread, NEW r \in Request, NEW o, NEW w, NEW d, Good(t, r, o, w, d),
         t.pc = "build", NEW old, old = IF t.names = {} THEN EmptyPublication ELSE t.got
  PROVE  /\ Objects(old, r - 1) /\ CitesIn(Index(old), Archive(old))
         /\ t.names # {} => old = o
         /\ ~d \/ t.names = {} => IsPublication(old, w)
<1>1. AtBuild(t, o, w) /\ t.names = DOMAIN w
  BY DEF Good, ThreadOK, AtBuild
<1>2. Objects(o, r - 1)
  BY DEF Good, ObjectsOK, Before
<1>3. CASE t.names = {}
  <2>1. old = EmptyPublication /\ w = NoFiles
    BY <1>1, <1>3, NoRaw DEF Good
  <2>2. \A n : Objects(EmptyPublication, 0) => Objects(EmptyPublication, n)
    BY DEF Objects, EmptyPublication, Archive, Manifest, Index, Vectors, Key,
           IsArchive, IsManifest, IsIndex
  <2>3. IsPublication(old, w)
    BY <2>1, NothingIsPublication
  <2>4. CitesIn(Index(old), Archive(old))
    BY <2>3 DEF IsPublication, Aligned, Cites, CitesIn, Index, Archive
  <2> QED BY <1>3, <2>1, <2>2, <2>3, <2>4, NothingIsPublication
<1>4. CASE t.names # {}
  <2>1. old = o /\ DOMAIN w # {} /\ w # NoFiles
    BY <1>1, <1>4, NoRaw DEF AtBuild, Good
  <2>2. CitesIn(Index(o), Archive(o))
    BY <2>1 DEF Good, ThreadOK
  <2>3. ~d => IsPublication(o, w)
    BY <2>1 DEF Good, ThreadOK, Rests, Whole
  <2> QED BY <1>2, <1>4, <2>1, <2>2, <2>3
<1> QED
  BY <1>3, <1>4

LEMMA BuildRefused ==
  ASSUME NEW t \in Thread, NEW r \in Request, NEW o, NEW w, NEW d, Good(t, r, o, w, d),
         t.pc = "build", NEW old, old = IF t.names = {} THEN EmptyPublication ELSE t.got,
         ~Valid(old) \/ (t.adds # <<>> /\ Collides(old, t.adds)),
         NEW t2, t2.pc = "refused", t2.adds = t.adds, t2.removes = t.removes, t2.got = t.got
  PROVE  Good(t2, r, o, w, d)
<1>1. r - 1 \in 0 .. MaxRequests
  BY PublishAssumption DEF Request
<1>2. Objects(old, r - 1) /\ (~d => IsPublication(old, w))
  BY BuildsFrom
<1>3. ~d => Valid(old)
  BY <1>2 DEF IsPublication
<1>4. Asks(t) /\ Asks(t2)
  BY SameRequest DEF Good, ThreadOK
<1>5. t.adds # <<>> => IsUpload(t.adds)
  BY <1>4 DEF Asks
<1>6. ~d => ~Collides(old, t.adds) \/ t.adds = <<>>
  BY <1>1, <1>2, <1>5, WholeNeverCollides
<1>7. d
  BY <1>3, <1>6
<1> QED
  BY <1>4, <1>7 DEF Good, ThreadOK, ObjectsOK, Before, AtList, AtLoad, AtBuild, AtPublish,
     AtClear, AtRaw, AtDone

(* What the thread is about to put has the parts of its goal.              *)
LEMMA BuildAdds ==
  ASSUME NEW t \in Thread, NEW r \in Request, NEW o, NEW w, NEW d, Good(t, r, o, w, d),
         t.pc = "build", NEW old, old = IF t.names = {} THEN EmptyPublication ELSE t.got,
         Valid(old), t.adds # <<>>, ~Collides(old, t.adds),
         NEW e, e = Extended(old, t.adds, r)
  PROVE  /\ Objects(e, r) /\ Present(e) /\ CitesIn(Index(e), Archive(e))
         /\ \A f \in Added(t) : r \in Shown(Archive(e), f)
         /\ CitesIn(Index(old), Archive(e)) /\ CitesIn(Index(e), Archive(old))
         /\ \A f, v : v \in Shown(Archive(e), f) => v \in Shown(Archive(old), f) \/ v = r
         /\ \A f : f \notin Added(t) => Shown(Archive(e), f) = Shown(Archive(old), f)
         /\ ~d \/ t.names = {} => IsPublication(e, Goal(t, r, w))
<1>1. /\ r \in Nat /\ r \in Version /\ r - 1 \in 0 .. MaxRequests
      /\ (r - 1) + 1 = r /\ (r - 1) + 1 <= MaxRequests
  BY PublishAssumption DEF Request, Version
<1>2. /\ Objects(old, r - 1) /\ CitesIn(Index(old), Archive(old))
      /\ ~d \/ t.names = {} => IsPublication(old, w)
  BY BuildsFrom
<1>3. IsUpload(t.adds) /\ t.removes = {} /\ t.names = DOMAIN w
  BY DEF Good, ThreadOK, Asks, AtBuild
<1>4. \A f : f \in Added(t) <=> \E i \in 1 .. Len(t.adds) : f = t.adds[i]
  BY <1>3, Uploaded DEF Added
<1> DEFINE n == r - 1
<1>5. n \in 0 .. MaxRequests /\ n + 1 = r /\ n + 1 <= MaxRequests /\ Objects(old, n)
  BY <1>1, <1>2
<1> HIDE DEF n
<1>6. Objects(e, n + 1) /\ Valid(e)
  BY <1>1, <1>3, <1>5, ExtendedTypes
<1>7. /\ CitesIn(Index(old), Archive(e)) /\ CitesIn(Index(e), Archive(old))
      /\ CitesIn(Index(e), Archive(e))
  BY <1>1, <1>2, <1>3, <1>5, ExtendedCites
<1>8. /\ \A f, v : v \in Shown(Archive(e), f) => v \in Shown(Archive(old), f) \/ v = r
      /\ \A i \in 1 .. Len(t.adds) : r \in Shown(Archive(e), t.adds[i])
      /\ \A f : (\A i \in 1 .. Len(t.adds) : f # t.adds[i]) => Shown(Archive(e), f) = Shown(Archive(old), f)
  BY <1>1, <1>3, <1>5, ExtendedShows
<1>9. ASSUME ~d \/ t.names = {} PROVE IsPublication(e, Goal(t, r, w))
  <2> DEFINE v == Goal(t, r, w)
  <2>1. \A f : f \in DOMAIN v <=> f \in DOMAIN w \/ \E i \in 1 .. Len(t.adds) : f = t.adds[i]
    BY <1>3, <1>4, GoalParts
  <2>2. \A i \in 1 .. Len(t.adds) : v[t.adds[i]] = r
    BY <1>4, <2>1, GoalParts
  <2>3. \A f \in DOMAIN w : (\A i \in 1 .. Len(t.adds) : f # t.adds[i]) => v[f] = w[f]
    BY <1>4, <2>1, GoalParts
  <2> HIDE DEF v
  <2>4. IsPublication(e, v)
    BY <1>1, <1>2, <1>3, <1>5, <1>9, <2>1, <2>2, <2>3, ExtendedPublication
  <2> QED BY <2>4 DEF v
<1>10. \A f \in Added(t) : r \in Shown(Archive(e), f)
  BY <1>4, <1>8
<1>11. \A f : f \notin Added(t) => Shown(Archive(e), f) = Shown(Archive(old), f)
  BY <1>4, <1>8
<1> QED
  BY <1>5, <1>6, <1>7, <1>8, <1>9, <1>10, <1>11 DEF Valid, Present

LEMMA BuildRemoves ==
  ASSUME NEW t \in Thread, NEW r \in Request, NEW o, NEW w, NEW d, Good(t, r, o, w, d),
         t.pc = "build", NEW old, old = IF t.names = {} THEN EmptyPublication ELSE t.got,
         Valid(old), t.adds = <<>>, NEW e, e = Pruned(old, t.removes)
  PROVE  /\ Objects(e, r) /\ Present(e) /\ CitesIn(Index(e), Archive(e))
         /\ Added(t) = {}
         /\ CitesIn(Index(old), Archive(e)) /\ CitesIn(Index(e), Archive(old))
         /\ \A f, v : v \in Shown(Archive(e), f) => v \in Shown(Archive(old), f)
         /\ \A f : f \notin t.removes => Shown(Archive(e), f) = Shown(Archive(old), f)
         /\ ~d \/ t.names = {} => IsPublication(e, Goal(t, r, w))
<1>1. r - 1 \in 0 .. MaxRequests /\ (r - 1) + 1 = r
  BY PublishAssumption DEF Request, Version
<1>2. /\ Objects(old, r - 1) /\ CitesIn(Index(old), Archive(old))
      /\ ~d \/ t.names = {} => IsPublication(old, w)
  BY BuildsFrom
<1>3. t.names = DOMAIN w /\ IsUpload(t.adds)
  BY DEF Good, ThreadOK, Asks, AtBuild
<1>4. Added(t) = {}
  BY <1>3, Uploaded DEF Added
<1> DEFINE n == r - 1
<1>5. n \in 0 .. MaxRequests /\ n + 1 = r /\ Objects(old, n)
  BY <1>1, <1>2
<1> HIDE DEF n
<1>6. PICK roots : roots = RootsOf(Manifest(old), t.removes)
  OBVIOUS
<1>7. Objects(e, n) /\ Valid(e)
  BY <1>5, <1>6, PrunedKeeps
<1>8. Objects(e, r)
  BY <1>5, <1>7, ObjectsGrow
<1>9. /\ \A a : CitesIn(Index(old), a) => CitesIn(Index(e), a)
      /\ \A x : CitesIn(x, Archive(old)) => CitesIn(x, Archive(e))
      /\ \A f : Shown(Archive(e), f) \subseteq Shown(Archive(old), f)
      /\ \A f : f \notin t.removes => Shown(Archive(e), f) = Shown(Archive(old), f)
  BY <1>5, PrunedCites
<1>10. ASSUME ~d \/ t.names = {} PROVE IsPublication(e, Goal(t, r, w))
  <2> DEFINE v == Goal(t, r, w)
  <2>1. \A f : f \in DOMAIN v <=> f \in DOMAIN w /\ f \notin t.removes
    BY <1>3, <1>4, GoalParts
  <2>2. \A f \in DOMAIN v : v[f] = w[f]
    BY <1>4, GoalParts
  <2> HIDE DEF v
  <2>3. IsPublication(Pruned(old, t.removes), v)
    BY <1>2, <1>5, <1>10, <2>1, <2>2, PrunedPublication
  <2> QED BY <2>3 DEF v
<1> QED
  BY <1>2, <1>4, <1>7, <1>8, <1>9, <1>10 DEF Valid, Present

LEMMA BuildKeeps ==
  ASSUME NEW t \in Thread, NEW r \in Request, NEW o, NEW w, NEW d, Good(t, r, o, w, d),
         t.pc = "build", NEW old, old = IF t.names = {} THEN EmptyPublication ELSE t.got,
         Valid(old), t.adds # <<>> => ~Collides(old, t.adds),
         NEW t2, t2.pc = "publish", t2.adds = t.adds, t2.removes = t.removes, t2.names = t.names,
         t2.left = Key,
         t2.got = IF t.adds = <<>> THEN Pruned(old, t.removes) ELSE Extended(old, t.adds, r)
  PROVE  /\ Good(t2, r, o, w, d)
         /\ t.names # {} => CitesIn(Index(t2.got), Archive(o))
<1> DEFINE e == t2.got
<1>1. /\ Objects(e, r) /\ Present(e) /\ CitesIn(Index(e), Archive(e))
      /\ \A f \in Added(t) : r \in Shown(Archive(e), f)
      /\ CitesIn(Index(old), Archive(e)) /\ CitesIn(Index(e), Archive(old))
      /\ \A f, v : v \in Shown(Archive(e), f) => v \in Shown(Archive(old), f) \/ v = r
      /\ \A f : f \notin Added(t) /\ f \notin t.removes => Shown(Archive(e), f) = Shown(Archive(old), f)
      /\ ~d \/ t.names = {} => IsPublication(e, Goal(t, r, w))
  <2>1. CASE t.adds = <<>>
    BY <2>1, BuildRemoves
  <2>2. CASE t.adds # <<>>
    BY <2>2, BuildAdds
  <2> QED BY <2>1, <2>2
<1>2. t.names # {} => old = o
  BY BuildsFrom
<1>3. /\ Asks(t) /\ Asks(t2) /\ Added(t2) = Added(t) /\ Touched(t2) = Touched(t)
      /\ Remaining(t2) = Remaining(t)
  BY SameRequest DEF Good, ThreadOK
<1>4. Goal(t2, r, w) = Goal(t, r, w)
  BY SameGoal
<1> HIDE DEF e
<1>5. Builds(t2, r)
  BY <1>1, <1>3 DEF Builds, e
<1>6. Follows(t2, r, o)
  BY <1>1, <1>2, <1>3 DEF Follows, e
<1>7. ArchiveFirst(t2)
  BY DEF ArchiveFirst, Key
<1>8. AtPublish(t2, r, o, w, d)
  BY <1>1, <1>3, <1>4, <1>5, <1>6, <1>7 DEF AtPublish, e, Good, ThreadOK, AtBuild
<1>9. ObjectsOK(t2, r, o)
  BY <1>1 DEF ObjectsOK, Good, Before, e
<1>10. Rests(t)
  BY DEF Rests
<1>11. Good(t2, r, o, w, d)
  BY <1>3, <1>8, <1>9, <1>10 DEF Good, ThreadOK, AtList, AtLoad, AtBuild, AtClear, AtRaw, AtDone
<1> QED
  BY <1>1, <1>2, <1>11 DEF e

(* One object is put; o2 are the objects after it.                         *)
LEMMA PutObjects ==
  ASSUME NEW t \in Thread, NEW r \in Request, NEW o, NEW w, NEW d, Good(t, r, o, w, d),
         t.pc = "publish", NEW k \in NextPuts(t), NEW o2, o2 = Stored(o, k, t.got[k])
  PROVE  /\ k \in Key /\ k \in t.left /\ t.left \subseteq Key
         /\ "documents.zip" \in t.left => k = "documents.zip"
         /\ o2 \in [Key -> Content] /\ t.got \in [Key -> Content]
         /\ o2[k] = t.got[k] /\ \A j \in Key : j # k => o2[j] = o[j]
         /\ \A j \in Key : j \notin t.left => o2[j] = t.got[j]
         /\ \A n : Objects(o, n) /\ Objects(t.got, n) => Objects(o2, n)
         /\ DOMAIN w # {} => CitesIn(Index(o2), Archive(o2))
<1>1. AtPublish(t, r, o, w, d) /\ ArchiveFirst(t) /\ Builds(t, r) /\ Follows(t, r, o)
  BY DEF Good, ThreadOK, AtPublish
<1>2. /\ k \in Key /\ k \in t.left /\ t.left \subseteq Key
      /\ "documents.zip" \in t.left => k = "documents.zip"
  BY <1>1 DEF ArchiveFirst, NextPuts
<1>3. t.got \in [Key -> Content] /\ o \in [Key -> Content]
  BY DEF Good, ObjectsOK, Objects
<1>4. o2 \in [Key -> Content] /\ o2[k] = t.got[k] /\ \A j \in Key : j # k => o2[j] = o[j]
  BY <1>2, <1>3 DEF Stored
<1>5. \A j \in Key : j \notin t.left => o2[j] = t.got[j]
  BY <1>1, <1>2, <1>4 DEF AtPublish
<1>6. \A n : Objects(o, n) /\ Objects(t.got, n) => Objects(o2, n)
  BY <1>4 DEF Objects, Archive, Manifest, Index, Vectors, Key
<1>7. Index(o2) \in {Index(o), Index(t.got)} /\ Archive(o2) \in {Archive(o), Archive(t.got)}
  BY <1>4 DEF Index, Archive, Key
<1>8. DOMAIN w # {} => t.names # {} /\ CitesIn(Index(o), Archive(o))
  BY <1>1 DEF AtPublish, Good, ThreadOK
<1>9. DOMAIN w # {} => CitesIn(Index(o2), Archive(o2))
  BY <1>1, <1>7, <1>8 DEF Builds, Follows
<1> QED
  BY <1>2, <1>3, <1>4, <1>5, <1>6, <1>9

LEMMA PutKeeps ==
  ASSUME NEW t \in Thread, NEW r \in Request, NEW o, NEW w, NEW d, Good(t, r, o, w, d),
         t.pc = "publish", NEW k \in NextPuts(t), NEW o2, o2 = Stored(o, k, t.got[k]),
         NEW t2, t2 = Advance(t, k)
  PROVE  Good(t2, r, o2, w, d)
<1>1. /\ AtPublish(t, r, o, w, d) /\ ArchiveFirst(t) /\ Builds(t, r) /\ Follows(t, r, o)
      /\ t.names = DOMAIN w /\ Touched(t) # {} /\ Remaining(t) # {}
      /\ ~d \/ t.names = {} => IsPublication(t.got, Goal(t, r, w))
  BY DEF Good, ThreadOK, AtPublish
<1>2. /\ k \in Key /\ k \in t.left /\ t.left \subseteq Key
      /\ "documents.zip" \in t.left => k = "documents.zip"
      /\ o2 \in [Key -> Content] /\ t.got \in [Key -> Content]
      /\ o2[k] = t.got[k] /\ \A j \in Key : j # k => o2[j] = o[j]
      /\ \A j \in Key : j \notin t.left => o2[j] = t.got[j]
      /\ \A n : Objects(o, n) /\ Objects(t.got, n) => Objects(o2, n)
      /\ DOMAIN w # {} => CitesIn(Index(o2), Archive(o2))
  BY PutObjects
<1>3. /\ t2.adds = t.adds /\ t2.removes = t.removes /\ t2.names = t.names /\ t2.got = t.got
      /\ \/ /\ \E x \in t.left : x # k
            /\ t2.pc = t.pc
            /\ \A x : x \in t2.left <=> x \in t.left /\ x # k
         \/ /\ \A x \in t.left : x = k
            /\ t.pc = "raw" \/ Touched(t) = {}
            /\ t2.pc = "done"
         \/ /\ \A x \in t.left : x = k
            /\ t.pc # "raw" /\ Touched(t) # {}
            /\ t2.pc = "raw" /\ t2.left = Touched(t)
  BY AdvanceParts
<1>4. /\ Asks(t) /\ Asks(t2) /\ Added(t2) = Added(t) /\ Touched(t2) = Touched(t)
      /\ Remaining(t2) = Remaining(t)
  BY <1>3, SameRequest DEF Good, ThreadOK
<1>5. Goal(t2, r, w) = Goal(t, r, w)
  BY <1>3, SameGoal
<1>6. Builds(t2, r)
  BY <1>1, <1>3, <1>4 DEF Builds
<1>7. ObjectsOK(t2, r, o2)
  BY <1>2, <1>3 DEF Good, ObjectsOK, Before
<1>8. CASE \E x \in t.left : x # k
  <2>1. t2.pc = "publish" /\ \A x : x \in t2.left <=> x \in t.left /\ x # k
    BY <1>3, <1>8
  <2>2. "documents.zip" \notin t2.left /\ t2.left # {} /\ t2.left \subseteq Key
    BY <1>2, <1>8, <2>1
  <2>3. ArchiveFirst(t2) /\ t2.left # Key
    BY <2>2 DEF ArchiveFirst, Key
  <2>4. \A j \in Key : j \notin t2.left => o2[j] = t2.got[j]
    BY <1>2, <1>3, <2>1
  <2>5. Index(o2) \in {Index(o), Index(t.got)} /\ Archive(o2) \in {Archive(o), Archive(t.got)}
    BY <1>2 DEF Index, Archive, Key
  <2>6. Follows(t2, r, o2)
    BY <1>1, <1>3, <2>3, <2>5 DEF Follows, Builds
  <2>7. AtPublish(t2, r, o2, w, d)
    BY <1>1, <1>3, <1>4, <1>5, <1>6, <2>3, <2>4, <2>6 DEF AtPublish
  <2>8. ~Rests(t2)
    BY <2>1, <2>3 DEF Rests
  <2> QED
    BY <1>2, <1>4, <1>7, <2>1, <2>7, <2>8
       DEF Good, ThreadOK, AtList, AtLoad, AtBuild, AtClear, AtRaw, AtDone
<1>9. CASE \A x \in t.left : x = k
  <2>1. t2.pc = "raw" /\ t2.left = Touched(t)
    BY <1>1, <1>3, <1>9
  <2>2. o2 = t.got
    BY <1>2, <1>9
  <2>3. Written(t2, r, o2, w, d)
    BY <1>1, <1>3, <1>4, <1>5, <1>6, <2>2 DEF Written
  <2>4. \A f \in Added(t2) : f \in t2.left
    BY <1>4, <2>1 DEF Touched
  <2>5. AtRaw(t2, r, o2, w, d)
    BY <1>1, <1>3, <1>4, <2>1, <2>3, <2>4 DEF AtRaw
  <2>6. ~Rests(t2)
    BY <2>1 DEF Rests
  <2> QED
    BY <1>2, <1>4, <1>7, <2>1, <2>5, <2>6
       DEF Good, ThreadOK, AtList, AtLoad, AtBuild, AtClear, AtPublish, AtDone
<1> QED
  BY <1>8, <1>9

LEMMA ClearKeeps ==
  ASSUME NEW t \in Thread, NEW r \in Request, NEW o, NEW w, NEW d, Good(t, r, o, w, d),
         t.pc = "clear", NEW k \in NextClears(t), NEW o2, o2 = Stored(o, k, Absent),
         NEW t2, t2 = Advance(t, k)
  PROVE  Good(t2, r, o2, w, d) /\ Archive(o2) = Absent
<1>1. /\ AtClear(t, o, w) /\ ArchiveFirst(t)
      /\ t.names = DOMAIN w /\ t.adds = <<>> /\ Remaining(t) = {}
      /\ \A j \in Key : j \notin t.left => o[j] = Absent
  BY DEF Good, ThreadOK, AtClear
<1>2. /\ k \in Key /\ k \in t.left /\ t.left \subseteq Key
      /\ "documents.zip" \in t.left => k = "documents.zip"
  BY <1>1 DEF ArchiveFirst, NextClears
<1>3. o \in [Key -> Content] /\ Absent \in Content
  BY DEF Good, ObjectsOK, Objects, Content
<1>4. o2 \in [Key -> Content] /\ o2[k] = Absent /\ \A j \in Key : j # k => o2[j] = o[j]
  BY <1>2, <1>3 DEF Stored
<1>5. Archive(o2) = Absent
  BY <1>1, <1>2, <1>4 DEF Archive, Key
<1>6. CitesIn(Index(o2), Archive(o2))
  BY <1>5 DEF CitesIn
<1>7. \A n : Objects(o, n) => Objects(o2, n)
  BY <1>4 DEF Objects, Archive, Manifest, Index, Vectors, Key
<1>8. /\ t2.adds = t.adds /\ t2.removes = t.removes /\ t2.names = t.names /\ t2.got = t.got
      /\ \/ /\ \E x \in t.left : x # k
            /\ t2.pc = t.pc
            /\ \A x : x \in t2.left <=> x \in t.left /\ x # k
         \/ /\ \A x \in t.left : x = k
            /\ t.pc = "raw" \/ Touched(t) = {}
            /\ t2.pc = "done"
         \/ /\ \A x \in t.left : x = k
            /\ t.pc # "raw" /\ Touched(t) # {}
            /\ t2.pc = "raw" /\ t2.left = Touched(t)
  BY AdvanceParts
<1>9. /\ Asks(t) /\ Asks(t2) /\ Added(t2) = Added(t) /\ Touched(t2) = Touched(t)
      /\ Remaining(t2) = Remaining(t)
  BY <1>8, SameRequest DEF Good, ThreadOK
<1>10. Added(t) = {}
  BY <1>1, <1>9, Uploaded DEF Asks, Added
<1>11. ObjectsOK(t2, r, o2)
  BY <1>7, <1>8 DEF Good, ObjectsOK, Before
<1>12. CASE \E x \in t.left : x # k
  <2>1. t2.pc = "clear" /\ \A x : x \in t2.left <=> x \in t.left /\ x # k
    BY <1>8, <1>12
  <2>2. "documents.zip" \notin t2.left /\ t2.left # {} /\ t2.left \subseteq Key
    BY <1>2, <1>12, <2>1
  <2>3. ArchiveFirst(t2) /\ t2.left # Key
    BY <2>2 DEF ArchiveFirst, Key
  <2>4. \A j \in Key : j \notin t2.left => o2[j] = Absent
    BY <1>1, <1>4, <2>1
  <2>5. AtClear(t2, o2, w)
    BY <1>1, <1>8, <1>9, <2>3, <2>4 DEF AtClear
  <2>6. ~Rests(t2)
    BY <2>1, <2>3 DEF Rests
  <2> QED
    BY <1>5, <1>6, <1>9, <1>11, <2>1, <2>5, <2>6
       DEF Good, ThreadOK, AtList, AtLoad, AtBuild, AtPublish, AtRaw, AtDone
<1>13. CASE \A x \in t.left : x = k
  <2>1. o2 = NoObjects
    BY <1>1, <1>4, <1>13 DEF NoObjects
  <2>2. Written(t2, r, o2, w, d)
    BY <1>1, <1>9, <2>1 DEF Written
  <2>3. CASE Touched(t) = {}
    <3>1. t2.pc = "done"
      BY <1>8, <1>13, <2>3
    <3>2. t.names = {}
      BY <1>1, <2>3 DEF Touched, Remaining
    <3>3. Whole(o2, w)
      BY <1>1, <2>1, <3>2, NoRaw DEF Whole, Good
    <3>4. AtDone(t2, r, o2, w, d)
      BY <1>1, <1>8, <1>9, <1>10, <2>2, <3>2 DEF AtDone
    <3> QED
      BY <1>5, <1>6, <1>9, <1>11, <3>1, <3>3, <3>4
         DEF Good, ThreadOK, AtList, AtLoad, AtBuild, AtPublish, AtClear, AtRaw
  <2>4. CASE Touched(t) # {}
    <3>1. t2.pc = "raw" /\ t2.left = Touched(t)
      BY <1>8, <1>13, <2>4
    <3>2. AtRaw(t2, r, o2, w, d)
      BY <1>1, <1>8, <1>9, <1>10, <2>2, <2>4, <3>1 DEF AtRaw
    <3>3. ~Rests(t2)
      BY <3>1 DEF Rests
    <3> QED
      BY <1>5, <1>6, <1>9, <1>11, <3>1, <3>2, <3>3
         DEF Good, ThreadOK, AtList, AtLoad, AtBuild, AtPublish, AtClear, AtDone
  <2> QED BY <2>3, <2>4
<1> QED
  BY <1>12, <1>13

(* One original is put or deleted; w2 are the originals after it.          *)
RawAfter(w, f, added, r) ==
  IF added THEN [g \in DOMAIN w \cup {f} |-> IF g = f THEN r ELSE w[g]] ELSE Without(w, {f})

LEMMA RawStep ==
  ASSUME NEW w, IsRaw(w), NEW f \in File, NEW r \in Request, NEW added \in BOOLEAN,
         NEW w2, w2 = RawAfter(w, f, added, r)
  PROVE  /\ IsRaw(w2)
         /\ \A g : g \in DOMAIN w2 <=> IF g = f THEN added ELSE g \in DOMAIN w
         /\ added => w2[f] = r
         /\ \A g \in DOMAIN w : g # f => w2[g] = w[g]
<1>1. CASE added
  BY <1>1 DEF IsRaw, RawAfter, Version
<1>2. CASE ~added
  BY <1>2 DEF IsRaw, RawAfter, Without
<1> QED
  BY <1>1, <1>2

LEMMA StoreRawKeeps ==
  ASSUME NEW t \in Thread, NEW r \in Request, NEW o, NEW w, NEW d, Good(t, r, o, w, d),
         t.pc = "raw", NEW f \in t.left, t.left \cap Added(t) # {} => f \in Added(t),
         NEW w2, w2 = RawAfter(w, f, f \in Added(t), r), NEW t2, t2 = Advance(t, f)
  PROVE  /\ Good(t2, r, o, w2, d)
         /\ Remaining(t) # {} \/ o = NoObjects
<1>1. /\ AtRaw(t, r, o, w, d) /\ Asks(t) /\ IsRaw(w) /\ Written(t, r, o, w, d)
      /\ t.left # {} /\ t.left \subseteq Touched(t)
      /\ \A g : g \in DOMAIN w <=> IF g \in Touched(t) /\ g \notin t.left
                                   THEN g \in Added(t) ELSE g \in t.names
      /\ \A g \in Added(t) : g \notin t.left => w[g] = r
  BY DEF Good, ThreadOK, AtRaw
<1>2. /\ t2.adds = t.adds /\ t2.removes = t.removes /\ t2.names = t.names /\ t2.got = t.got
      /\ \/ /\ \E x \in t.left : x # f
            /\ t2.pc = t.pc
            /\ \A x : x \in t2.left <=> x \in t.left /\ x # f
         \/ /\ \A x \in t.left : x = f
            /\ t.pc = "raw" \/ Touched(t) = {}
            /\ t2.pc = "done"
         \/ /\ \A x \in t.left : x = f
            /\ t.pc # "raw" /\ Touched(t) # {}
            /\ t2.pc = "raw" /\ t2.left = Touched(t)
  BY AdvanceParts
<1>3. /\ Asks(t2) /\ Added(t2) = Added(t) /\ Touched(t2) = Touched(t)
      /\ Remaining(t2) = Remaining(t)
  BY <1>1, <1>2, SameRequest
<1>4. /\ \A g : g \in Added(t) => g \in File /\ g \in Touched(t) /\ g \notin t.removes
      /\ \A g : g \in Touched(t) <=> g \in Added(t) \/ (g \in t.names /\ g \in t.removes)
      /\ \A g : g \in Remaining(t) <=> (g \in t.names \/ g \in Added(t)) /\ g \notin t.removes
  <2>1. Added(t) \subseteq File /\ (Added(t) # {} => t.removes = {})
    BY <1>1, Uploaded DEF Asks, Added
  <2> QED BY <2>1 DEF Touched, Remaining
<1>5. f \in Touched(t) /\ f \in File
  BY <1>1, <1>4 DEF Thread
<1>6. /\ IsRaw(w2)
      /\ \A g : g \in DOMAIN w2 <=> IF g = f THEN f \in Added(t) ELSE g \in DOMAIN w
      /\ f \in Added(t) => w2[f] = r
      /\ \A g \in DOMAIN w : g # f => w2[g] = w[g]
  <2>1. PICK added \in BOOLEAN : added <=> f \in Added(t)
    OBVIOUS
  <2>2. w2 = RawAfter(w, f, added, r)
    BY <2>1 DEF RawAfter
  <2> QED BY <1>1, <1>5, <2>1, <2>2, RawStep
<1>7. \A g \in Remaining(t) : g \notin Added(t) => w2[g] = w[g] /\ g \in DOMAIN w
  BY <1>1, <1>4, <1>5, <1>6
<1>8. Goal(t2, r, w2) = Goal(t, r, w)
  BY <1>2, <1>7, SameGoal
<1>9. Written(t2, r, o, w2, d)
  BY <1>1, <1>2, <1>3, <1>8 DEF Written, Builds
<1>10. ObjectsOK(t2, r, o)
  BY <1>2 DEF Good, ObjectsOK, Before
<1>11. CitesIn(Index(o), Archive(o))
  BY <1>1, NoObjectsTypes DEF Written, Builds, CitesIn, Index, Archive, Key
<1>12. CASE \E x \in t.left : x # f
  <2>1. t2.pc = "raw" /\ \A x : x \in t2.left <=> x \in t.left /\ x # f
    BY <1>2, <1>12
  <2>2. t2.left # {} /\ t2.left \subseteq Touched(t2)
    BY <1>1, <1>3, <1>12, <2>1
  <2>3. \A g : g \in DOMAIN w2 <=> IF g \in Touched(t2) /\ g \notin t2.left
                                   THEN g \in Added(t2) ELSE g \in t2.names
    BY <1>1, <1>2, <1>3, <1>5, <1>6, <2>1
  <2>4. \A g \in Added(t2) : g \notin t2.left => w2[g] = r
    BY <1>1, <1>3, <1>4, <1>6, <2>1
  <2>5. AtRaw(t2, r, o, w2, d)
    BY <1>9, <2>2, <2>3, <2>4 DEF AtRaw
  <2>6. ~Rests(t2)
    BY <2>1 DEF Rests
  <2>7. Good(t2, r, o, w2, d)
    BY <1>3, <1>6, <1>10, <1>11, <2>1, <2>5, <2>6
       DEF Good, ThreadOK, AtList, AtLoad, AtBuild, AtPublish, AtClear, AtDone
  <2> QED BY <1>1, <2>7 DEF Written
<1>13. CASE \A x \in t.left : x = f
  <2>1. t2.pc = "done"
    BY <1>2, <1>13
  <2>2. \A g : g \in DOMAIN w2 <=> g \in Remaining(t)
    BY <1>1, <1>4, <1>6, <1>13
  <2>3. \A g \in Added(t) : w2[g] = r
    BY <1>1, <1>4, <1>6, <1>13
  <2>4. AtDone(t2, r, o, w2, d)
    BY <1>3, <1>9, <2>2, <2>3 DEF AtDone
  <2>5. ~d => Whole(o, w2)
    <3>1. CASE Remaining(t) = {}
      <4>1. w2 = NoFiles
        BY <1>6, <2>2, <3>1, NoRaw
      <4> QED BY <1>1, <3>1, <4>1 DEF Whole, Written
    <3>2. CASE Remaining(t) # {}
      <4>1. ~d => IsPublication(o, Goal(t, r, w))
        BY <1>1, <3>2 DEF Written
      <4>2. /\ DOMAIN w2 = DOMAIN Goal(t, r, w)
            /\ \A g \in DOMAIN Goal(t, r, w) : w2[g] = Goal(t, r, w)[g]
        BY <1>4, <1>7, <2>2, <2>3, GoalParts
      <4>3. ~d => IsPublication(o, w2)
        BY <4>1, <4>2, PublicationSame
      <4> QED BY <4>3 DEF Whole
    <3> QED BY <3>1, <3>2
  <2>6. Good(t2, r, o, w2, d)
    BY <1>3, <1>6, <1>10, <1>11, <2>1, <2>4, <2>5
       DEF Good, ThreadOK, AtList, AtLoad, AtBuild, AtPublish, AtClear, AtRaw
  <2> QED BY <1>1, <2>6 DEF Written
<1> QED
  BY <1>12, <1>13

(* A thread that fails has damaged the bucket if it began to write.        *)
LEMMA FailKeeps ==
  ASSUME NEW t \in Thread, NEW r \in Request, NEW o, NEW w, NEW d, Good(t, r, o, w, d),
         t.pc \in {"list", "load", "build", "publish", "clear", "raw"},
         NEW d2, d2 <=> d \/ t.pc = "raw" \/ (t.pc \in {"publish", "clear"} /\ t.left # Key),
         NEW t2, t2.pc = "failed", t2.adds = t.adds, t2.removes = t.removes, t2.got = t.got
  PROVE  Good(t2, r, o, w, d2)
<1>1. Asks(t2)
  BY SameRequest DEF Good, ThreadOK
<1>2. ~d2 => ~d /\ Rests(t)
  BY DEF Rests
<1> QED
  BY <1>1, <1>2 DEF Good, ThreadOK, ObjectsOK, Before, AtList, AtLoad, AtBuild, AtPublish,
     AtClear, AtRaw, AtDone

(* The thread is over; what was written from nothing is whole.             *)
Settles(t, t2, d, d2) ==
  /\ t.pc \in {"done", "refused", "failed"}
  /\ t2.pc \in {"none", "given up"} /\ t2.got = NoObjects
  /\ ~d2 => ~d \/ (t.pc = "done" /\ FromNothing(t))

LEMMA SettleKeeps ==
  ASSUME NEW t \in Thread, NEW r \in Request, NEW o, NEW w, NEW d, Good(t, r, o, w, d),
         NEW t2, NEW d2, Settles(t, t2, d, d2)
  PROVE  Good(t2, r, o, w, d2)
<1>1. /\ t.pc \in {"done", "refused", "failed"}
      /\ t2.pc \in {"none", "given up"} /\ t2.got = NoObjects
      /\ ~d2 => ~d \/ (t.pc = "done" /\ (t.names = {} \/ Remaining(t) = {}))
  BY DEF Settles, FromNothing
<1>2. ObjectsOK(t2, r, o)
  BY <1>1, NoObjectsTypes DEF Good, ObjectsOK, Before
<1>3. ASSUME t.pc = "done", t.names = {} \/ Remaining(t) = {} PROVE Whole(o, w)
  <2>1. /\ DOMAIN w = Remaining(t) /\ Asks(t)
        /\ \A f \in Added(t) : w[f] = r
        /\ Touched(t) # {} \/ Remaining(t) = {} => Written(t, r, o, w, d)
    BY <1>3 DEF Good, ThreadOK, AtDone
  <2>2. CASE Remaining(t) = {}
    BY <2>1, <2>2, NoRaw DEF Whole, Good, Written
  <2>3. CASE Remaining(t) # {}
    <3>1. t.names = {} /\ Remaining(t) = Added(t) \ t.removes /\ Added(t) # {}
      BY <1>3, <2>3 DEF Remaining
    <3>2. Touched(t) # {}
      BY <3>1 DEF Touched
    <3>3. IsPublication(o, Goal(t, r, w))
      BY <2>1, <2>3, <3>1, <3>2 DEF Written
    <3>4. /\ DOMAIN w = DOMAIN Goal(t, r, w)
          /\ \A g \in DOMAIN Goal(t, r, w) : w[g] = Goal(t, r, w)[g]
      BY <2>1, <3>1, GoalParts
    <3>5. IsPublication(o, w)
      BY <3>3, <3>4, PublicationSame
    <3> QED BY <3>5 DEF Whole
  <2> QED BY <2>2, <2>3
<1>4. ~d => Whole(o, w)
  BY <1>1 DEF Good, ThreadOK, Rests
<1>5. ~d2 => Whole(o, w)
  BY <1>1, <1>3, <1>4
<1> QED
  BY <1>1, <1>2, <1>5 DEF Good, ThreadOK, AtList, AtLoad, AtBuild, AtPublish, AtClear, AtRaw, AtDone

(* The next request finds the bucket as the last one left it; r is its     *)
(* number less one.                                                        *)
LEMMA StartKeeps ==
  ASSUME NEW t, NEW r \in 0 .. MaxRequests, NEW o, NEW w, NEW d, Good(t, r, o, w, d),
         t.pc \in {"none", "given up"},
         NEW t2, t2.pc = "list", Asks(t2), t2.names = {}, t2.got = NoObjects, t2.left = {}
  PROVE  Good(t2, r + 1, o, w, d)
<1>1. Objects(o, r)
  BY DEF Good, ObjectsOK
<1>2. Objects(o, r + 1)
  BY <1>1, ObjectsGrow
<1>3. (r + 1) - 1 = r
  <2>1. r \in 0 .. MaxRequests /\ MaxRequests \in Nat
    BY PublishAssumption
  <2> QED BY ONLY <2>1
<1>4. ObjectsOK(t2, r + 1, o)
  BY <1>1, <1>2, <1>3, NoObjectsTypes DEF ObjectsOK
<1>5. Rests(t)
  BY DEF Rests
<1>6. Rests(t2) /\ AtList(t2)
  BY DEF Rests, AtList
<1> QED
  BY <1>4, <1>5, <1>6 DEF Good, ThreadOK, AtLoad, AtBuild, AtPublish, AtClear, AtRaw, AtDone

-----------------------------------------------------------------------------
(* The worker, while a thread works.                                       *)
Over == {"none", "given up"}

LEMMA ReaderKept ==
  ASSUME NEW rd, NEW t, NEW r \in Request, NEW o, NEW w, ReaderOK(rd, t, r, o, w),
         t.pc \notin Over, NEW t2, NEW o2, NEW w2,
         t2.pc \in Before => t.pc \in Before /\ o2 = o /\ w2 = w,
         rd.pc = "load" /\ r = rd.last =>
           /\ t2.pc = "publish" => DOMAIN w2 # {} /\ CitesIn(Index(t2.got), Archive(rd.got))
           /\ CitesIn(Index(o2), Archive(o2)) /\ CitesIn(Index(o2), Archive(rd.got))
  PROVE  ReaderOK(rd, t2, r, o2, w2)
<1>1. rd.last \in 0 .. r + 1 /\ r \in Nat
  <2>1. rd.last \in 0 .. r + 1
    BY DEF ReaderOK
  <2> QED BY <2>1 DEF Request
<1>2. ASSUME rd.pc = "load" PROVE ~(r < rd.last)
  <2>1. r < rd.last => r <= rd.last
    BY ONLY <1>1
  <2>2. r <= rd.last => (r < rd.last => t.pc \in {"none", "given up"})
    BY <1>2 DEF ReaderOK
  <2> QED BY <2>1, <2>2 DEF Over
<1>3. rd.pc = "load" /\ r <= rd.last => r = rd.last
  BY <1>1, <1>2
<1>4. rd.pc = "load" /\ r <= rd.last =>
        /\ r < rd.last => t2.pc \in {"none", "given up"}
        /\ r < rd.last \/ t2.pc \in Before =>
              DOMAIN w2 # {} /\ Archive(rd.got) \in {Absent, Archive(o2)}
        /\ t2.pc = "publish" => DOMAIN w2 # {} /\ CitesIn(Index(t2.got), Archive(rd.got))
        /\ CitesIn(Index(o2), Archive(o2)) /\ CitesIn(Index(o2), Archive(rd.got))
  BY <1>2, <1>3 DEF ReaderOK
<1> QED
  BY <1>1, <1>4 DEF ReaderOK

LEMMA ReaderLoads ==
  ASSUME NEW rd, NEW t, NEW r \in Request, NEW o, NEW w, ReaderOK(rd, t, r, o, w),
         rd.pc = "load", r = rd.last
  PROVE  /\ t.pc \in Before => DOMAIN w # {} /\ Archive(rd.got) \in {Absent, Archive(o)}
         /\ t.pc = "publish" => DOMAIN w # {} /\ CitesIn(Index(t.got), Archive(rd.got))
         /\ CitesIn(Index(o), Archive(o)) /\ CitesIn(Index(o), Archive(rd.got))
<1>1. r <= rd.last
  BY DEF Request
<1> QED
  BY <1>1 DEF ReaderOK

(* Nothing is written.                                                     *)
LEMMA ReaderStays ==
  ASSUME NEW rd, NEW t, NEW r \in Request, NEW o, NEW w, ReaderOK(rd, t, r, o, w),
         t.pc \notin Over, NEW t2, t2.pc # "publish", t2.pc \in Before => t.pc \in Before
  PROVE  ReaderOK(rd, t2, r, o, w)
  BY ReaderLoads, ReaderKept

(* The thread has built its publication: the worker has nothing yet, or    *)
(* the archive that the publication was built from.                        *)
LEMMA ReaderBuilt ==
  ASSUME NEW rd, NEW t, NEW r \in Request, NEW o, NEW w, NEW d, ReaderOK(rd, t, r, o, w),
         Good(t, r, o, w, d), t.pc = "build", NEW t2, t2.pc = "publish",
         t.names # {} => CitesIn(Index(t2.got), Archive(o))
  PROVE  ReaderOK(rd, t2, r, o, w)
<1>1. t.names = DOMAIN w /\ t.pc \notin Over /\ t2.pc \notin Before
  BY DEF Good, ThreadOK, AtBuild, Over, Before
<1>2. ASSUME rd.pc = "load", r = rd.last
      PROVE  /\ t2.pc = "publish" => DOMAIN w # {} /\ CitesIn(Index(t2.got), Archive(rd.got))
             /\ CitesIn(Index(o), Archive(o)) /\ CitesIn(Index(o), Archive(rd.got))
  <2>1. /\ DOMAIN w # {} /\ Archive(rd.got) \in {Absent, Archive(o)}
        /\ CitesIn(Index(o), Archive(o)) /\ CitesIn(Index(o), Archive(rd.got))
    BY <1>2, ReaderLoads DEF Before
  <2> QED BY <1>1, <2>1 DEF CitesIn
<1> QED
  BY <1>1, <1>2, ReaderKept

(* An object is put.                                                       *)
LEMMA ReaderPut ==
  ASSUME NEW rd, NEW t \in Thread, NEW r \in Request, NEW o, NEW w, NEW d, ReaderOK(rd, t, r, o, w),
         Good(t, r, o, w, d), t.pc = "publish", NEW k \in NextPuts(t),
         NEW o2, o2 = Stored(o, k, t.got[k]), NEW t2, t2.pc \notin Before, t2.got = t.got
  PROVE  ReaderOK(rd, t2, r, o2, w)
<1>1. t.pc \notin Over
  BY DEF Over
<1>2. /\ k \in Key /\ DOMAIN w # {} => CitesIn(Index(o2), Archive(o2))
      /\ o2[k] = t.got[k] /\ \A j \in Key : j # k => o2[j] = o[j]
  BY PutObjects
<1>3. Index(o2) \in {Index(o), Index(t.got)}
  BY <1>2 DEF Index, Key
<1>4. ASSUME rd.pc = "load", r = rd.last
      PROVE  /\ t2.pc = "publish" => DOMAIN w # {} /\ CitesIn(Index(t2.got), Archive(rd.got))
             /\ CitesIn(Index(o2), Archive(o2)) /\ CitesIn(Index(o2), Archive(rd.got))
  <2>1. /\ DOMAIN w # {} /\ CitesIn(Index(t.got), Archive(rd.got))
        /\ CitesIn(Index(o), Archive(o)) /\ CitesIn(Index(o), Archive(rd.got))
    BY <1>4, ReaderLoads
  <2>2. CitesIn(Index(o2), Archive(o2))
    BY <2>1, PutObjects
  <2> QED BY <1>3, <2>1, <2>2
<1> QED
  BY <1>1, <1>4, ReaderKept

(* An object is deleted, the archive first.                                *)
LEMMA ReaderCleared ==
  ASSUME NEW rd, NEW t, NEW r \in Request, NEW o, NEW w, ReaderOK(rd, t, r, o, w),
         t.pc = "clear", NEW k \in Key, NEW o2, o \in [Key -> Content], o2 = Stored(o, k, Absent),
         Archive(o2) = Absent, NEW t2, t2.pc \notin Before, t2.pc # "publish"
  PROVE  ReaderOK(rd, t2, r, o2, w)
<1>1. t.pc \notin Over
  BY DEF Over
<1>2. Index(o2) \in {Index(o), Absent}
  BY DEF Index, Key, Stored
<1>3. ASSUME rd.pc = "load", r = rd.last
      PROVE  CitesIn(Index(o2), Archive(o2)) /\ CitesIn(Index(o2), Archive(rd.got))
  <2>1. CitesIn(Index(o), Archive(rd.got))
    BY <1>3, ReaderLoads
  <2> QED BY <1>2, <2>1 DEF CitesIn
<1> QED
  BY <1>1, <1>3, ReaderKept

(* An original is put or deleted.                                          *)
LEMMA ReaderRaw ==
  ASSUME NEW rd, NEW t, NEW r \in Request, NEW o, NEW w, ReaderOK(rd, t, r, o, w),
         t.pc = "raw", NEW w2, NEW t2, t2.pc \notin Before, t2.pc # "publish"
  PROVE  ReaderOK(rd, t2, r, o, w2)
<1>1. t.pc \notin Over
  BY DEF Over
<1> QED
  BY <1>1, ReaderLoads, ReaderKept

(* The next request: a worker that may overlap it has what the bucket has. *)
LEMMA ReaderMeets ==
  ASSUME NEW rd, NEW t, NEW r \in 0 .. MaxRequests, NEW o, NEW w, ReaderOK(rd, t, r, o, w),
         NEW t2, t2.pc = "list"
  PROVE  ReaderOK(rd, t2, r + 1, o, w)
<1>1. rd.last \in 0 .. r + 1 /\ r \in Nat
  <2>1. rd.last \in 0 .. r + 1
    BY DEF ReaderOK
  <2> QED BY <2>1, PublishAssumption
<1>2. /\ rd.last \in 0 .. (r + 1) + 1 /\ ~(r + 1 < rd.last)
      /\ r + 1 <= rd.last => r < rd.last /\ r <= rd.last
  BY <1>1
<1>3. Objects(rd.got, r + 1)
  BY ObjectsGrow DEF ReaderOK
<1> QED
  BY <1>2, <1>3 DEF ReaderOK

(* A turn begins to read.                                                  *)
LEMMA ReaderBegins ==
  ASSUME NEW t, NEW r \in Request, NEW o, NEW w, NEW d, Good(t, r, o, w, d),
         NEW rd, rd.pc = "load", rd.got = NoObjects,
         rd.last = IF DOMAIN w = {} THEN 0 ELSE IF t.pc \in Over THEN r + 1 ELSE r
  PROVE  ReaderOK(rd, t, r, o, w)
<1>1. r \in Nat /\ r # 0
  BY DEF Request
<1>2. /\ rd.last \in 0 .. r + 1
      /\ r <= rd.last => DOMAIN w # {}
      /\ r < rd.last => t.pc \in Over
  <2>1. CASE DOMAIN w = {}
    BY <1>1, <2>1
  <2>2. CASE DOMAIN w # {} /\ t.pc \in Over
    BY <1>1, <2>2
  <2>3. CASE DOMAIN w # {} /\ t.pc \notin Over
    BY <1>1, <2>3
  <2> QED BY <2>1, <2>2, <2>3
<1>3. /\ Objects(rd.got, r) /\ Vectors(rd.got) = Absent /\ Archive(rd.got) = Absent
      /\ Index(rd.got) = Absent
  BY NoObjectsTypes DEF Vectors, Archive, Index, Key
<1>4. DOMAIN w # {} => CitesIn(Index(o), Archive(o))
  BY DEF Good, ThreadOK
<1> QED
  BY <1>2, <1>3, <1>4 DEF ReaderOK, CitesIn, Over

(* The worker fetches an object.                                           *)
LEMMA ReaderReads ==
  ASSUME NEW rd, NEW t, NEW r, NEW o, NEW w, NEW d, ReaderOK(rd, t, r, o, w),
         Good(t, r, o, w, d), rd.pc = "load", NEW k, k = NextGet(ReadOrder, rd.got), o[k] # Absent,
         NEW rd2, rd2.got = Stored(rd.got, k, o[k]), rd2.last = rd.last,
         rd2.pc = IF k = "vectors.npy" THEN "workspace" ELSE "load",
         k = "vectors.npy" => Valid(rd2.got)
  PROVE  ReaderOK(rd2, t, r, o, w)
<1>1. /\ Objects(rd.got, r) /\ Objects(o, r) /\ rd.last \in 0 .. r + 1 /\ Vectors(rd.got) = Absent
      /\ Archive(rd.got) = Absent => rd.got = NoObjects
  BY DEF ReaderOK, Good, ObjectsOK
<1>2. /\ k \in Key /\ rd.got[k] = Absent
      /\ rd.got["documents.zip"] = Absent => k = "documents.zip"
  BY <1>1, NextReadStep DEF Vectors
<1>3. rd.got \in [Key -> Content] /\ o \in [Key -> Content]
  BY <1>1 DEF Objects
<1>4. /\ rd2.got \in [Key -> Content] /\ rd2.got[k] = o[k]
      /\ \A j \in Key : j # k => rd2.got[j] = rd.got[j]
  BY <1>2, <1>3 DEF Stored
<1>5. Objects(rd2.got, r)
  BY <1>1, <1>4 DEF Objects, Archive, Manifest, Index, Vectors, Key
<1>6. k # "vectors.npy" => Vectors(rd2.got) = Absent
  BY <1>1, <1>4 DEF Vectors, Key
<1>7. Archive(rd2.got) # Absent
  BY <1>2, <1>4 DEF Archive, Key
<1>8. Archive(rd2.got) \in {Archive(o), Archive(rd.got)} /\ (Archive(rd.got) # Absent => Archive(rd2.got) = Archive(rd.got))
  BY <1>2, <1>4 DEF Archive, Key
<1>9. ASSUME r <= rd.last
      PROVE  /\ r < rd.last => t.pc \in {"none", "given up"}
             /\ r < rd.last \/ t.pc \in Before =>
                   DOMAIN w # {} /\ Archive(rd2.got) \in {Absent, Archive(o)}
             /\ t.pc = "publish" => DOMAIN w # {} /\ CitesIn(Index(t.got), Archive(rd2.got))
             /\ CitesIn(Index(o), Archive(o)) /\ CitesIn(Index(o), Archive(rd2.got))
             /\ CitesIn(Index(rd2.got), Archive(rd2.got))
  <2>1. /\ r < rd.last => t.pc \in {"none", "given up"}
        /\ r < rd.last \/ t.pc \in Before =>
              DOMAIN w # {} /\ Archive(rd.got) \in {Absent, Archive(o)}
        /\ t.pc = "publish" => DOMAIN w # {} /\ CitesIn(Index(t.got), Archive(rd.got))
        /\ CitesIn(Index(o), Archive(o)) /\ CitesIn(Index(o), Archive(rd.got))
        /\ CitesIn(Index(rd.got), Archive(rd.got))
    BY <1>9 DEF ReaderOK
  <2>2. CitesIn(Index(o), Archive(rd2.got))
    BY <1>8, <2>1
  <2>3. t.pc = "publish" => CitesIn(Index(t.got), Archive(o))
    <3>1. t.pc = "publish" => t.names = DOMAIN w /\ Follows(t, r, o)
      BY DEF Good, ThreadOK, AtPublish
    <3> QED BY <2>1, <3>1 DEF Follows
  <2>4. t.pc = "publish" => CitesIn(Index(t.got), Archive(rd2.got))
    BY <1>8, <2>1, <2>3
  <2>5. CASE k = "documents.zip"
    <3>1. Archive(rd.got) = Absent /\ Index(rd2.got) = Index(rd.got) /\ Index(rd.got) = Absent
      BY <1>1, <1>2, <1>4, <2>5, NoObjectsTypes DEF Index, Archive, Key
    <3>2. CitesIn(Index(rd2.got), Archive(rd2.got))
      BY <3>1 DEF CitesIn
    <3> QED BY <1>8, <2>1, <2>2, <2>4, <3>1, <3>2
  <2>6. CASE k # "documents.zip"
    <3>1. Archive(rd2.got) = Archive(rd.got)
      BY <1>4, <2>6 DEF Archive, Key
    <3>2. Index(rd2.got) \in {Index(o), Index(rd.got)}
      BY <1>4 DEF Index, Key
    <3> QED BY <2>1, <2>2, <2>4, <3>1, <3>2
  <2> QED BY <2>5, <2>6
<1> QED
  BY <1>1, <1>5, <1>6, <1>7, <1>9 DEF ReaderOK

-----------------------------------------------------------------------------
(* The invariant holds at first, and every step keeps it.                  *)
LEMMA InitInv == Init => Inv
<1> SUFFICES ASSUME Init PROVE Inv
  OBVIOUS
<1>1. LastThread = NoThread /\ asked = 0
  BY DEF Init, LastThread
<1>2. NoObjects \in [Key -> Content] /\ \A n : Objects(NoObjects, n)
  BY NoObjectsTypes DEF Objects
<1>3. raw = NoFiles /\ objects = NoObjects /\ torn = FALSE /\ reader = NoReader
  BY DEF Init, NoFiles
<1>4. IsRaw(NoFiles) /\ DOMAIN NoFiles = {}
  BY DEF IsRaw, NoFiles
<1>5. NoThread.pc = "none" /\ NoThread.got = NoObjects
  BY DEF NoThread
<1>6. Good(NoThread, 0, NoObjects, NoFiles, FALSE)
  BY <1>2, <1>4, <1>5 DEF Good, ObjectsOK, Before, ThreadOK, Whole, AtList, AtLoad, AtBuild,
     AtPublish, AtClear, AtRaw, AtDone
<1>7. NoThread \in Thread
  <2>1. <<>> \in Seq(File)
    OBVIOUS
  <2> QED BY <1>2, <2>1 DEF NoThread, Thread
<1>8. NoReader.pc = "none" /\ NoReader.got = NoObjects /\ NoReader.last = 0
  BY DEF NoReader
<1>9. ReaderOK(NoReader, NoThread, 0, NoObjects, NoFiles)
  BY <1>2, <1>8 DEF ReaderOK
<1>10. NoReader \in [pc : {"none", "load", "workspace"}, got : [Key -> Content], last : Nat]
  BY <1>2 DEF NoReader
<1>11. Types
  <2>1. thread \in [Request -> Thread]
    BY <1>7 DEF Init
  <2>2. 0 \in 0 .. MaxRequests
    BY PublishAssumption
  <2>3. rows \in [bundle : BOOLEAN, raw : SUBSET File]
    BY DEF Init, NoRows
  <2> QED BY <1>1, <1>3, <1>10, <2>1, <2>2, <2>3 DEF Init, Types
<1>12. OneWorks
  BY <1>5 DEF Init, OneWorks, NoRows
<1> QED
  BY <1>1, <1>3, <1>6, <1>9, <1>11, <1>12 DEF Inv

(* The thread that works is that of the last request.                      *)
LEMMA Active ==
  ASSUME Inv, NEW r \in Request, thread[r].pc \notin Over
  PROVE  /\ r = asked /\ LastThread = thread[r] /\ thread[r] \in Thread /\ asked # 0
         /\ Good(thread[r], r, objects, raw, torn)
         /\ ReaderOK(reader, thread[r], r, objects, raw)
<1>1. r = asked /\ thread[r] \in Thread
  BY DEF Inv, Types, OneWorks, Over
<1>2. asked # 0
  BY <1>1 DEF Request
<1> QED
  BY <1>1, <1>2 DEF Inv, LastThread

LEMMA StepKeeps ==
  ASSUME Inv, NEW r \in Request, r = asked, NEW t2 \in Thread,
         thread' = [thread EXCEPT ![r] = t2], asked' = asked, reader' = reader,
         waiting' \in {0, waiting}, torn' \in BOOLEAN,
         rows' \in [bundle : BOOLEAN, raw : SUBSET File],
         t2.pc \in Over => t2.got = NoObjects,
         Good(t2, r, objects', raw', torn'), ReaderOK(reader, t2, r, objects', raw')
  PROVE  Inv'
<1>1. thread' \in [Request -> Thread] /\ thread'[r] = t2 /\ \A q \in Request : q # r => thread'[q] = thread[q]
  BY DEF Inv, Types
<1>2. asked # 0
  BY DEF Request
<1>3. LastThread' = t2
  BY <1>1, <1>2 DEF LastThread
<1>4. Types'
  BY <1>1 DEF Inv, Types
<1>5. OneWorks'
  <2>1. \A q \in Request : q > asked => q # r
    BY DEF Request
  <2> QED BY <1>1, <1>2, <2>1 DEF Inv, OneWorks, Over
<1> QED
  BY <1>3, <1>4, <1>5 DEF Inv

(* ... or nothing of the thread changes.                                   *)
LEMMA IdleKeeps ==
  ASSUME Inv, UNCHANGED <<objects, raw, rows, thread, asked, torn>>,
         waiting' \in {0, waiting},
         reader' \in [pc : {"none", "load", "workspace"}, got : [Key -> Content], last : Nat],
         ReaderOK(reader', LastThread, asked, objects, raw)
  PROVE  Inv'
<1>1. LastThread' = LastThread
  BY DEF LastThread
<1>2. Types' /\ OneWorks'
  BY DEF Inv, Types, OneWorks
<1> QED
  BY <1>1, <1>2 DEF Inv

LEMMA AdvanceType ==
  ASSUME NEW t \in Thread, NEW item
  PROVE  Advance(t, item) \in Thread
<1>1. Added(t) \subseteq File
  <2>1. t.adds \in Seq(File)
    BY DEF Thread
  <2>2. \A i \in DOMAIN t.adds : t.adds[i] \in File
    BY <2>1
  <2> QED BY <2>2 DEF Added, Range
<1>2. Added(t) \cup (t.names \cap t.removes) \in SUBSET (Key \cup File)
  BY <1>1 DEF Thread
<1>3. t.left \ {item} \in SUBSET (Key \cup File) /\ {} \in SUBSET (Key \cup File)
  BY DEF Thread
<1>4. \A left \in SUBSET (Key \cup File), pc \in {"raw", "done"} :
        [t EXCEPT !.left = left] \in Thread /\ [t EXCEPT !.pc = pc, !.left = left] \in Thread
  BY DEF Thread
<1> QED
  BY <1>2, <1>3, <1>4 DEF Advance, AfterPublish

LEMMA ListInv ==
  ASSUME Inv, NEW r \in Request, List(r)
  PROVE  Inv'
<1> DEFINE t == thread[r]
           t1 == [t EXCEPT !.names = DOMAIN raw]
           pc == IF t1.adds # <<>> THEN IF t1.names = {} THEN "build" ELSE "load"
                 ELSE IF Remaining(t1) = {} THEN "clear"
                 ELSE IF t1.names \cap t1.removes # {} THEN "load" ELSE "done"
           t2 == [t1 EXCEPT !.pc = pc, !.left = IF pc = "clear" THEN Key ELSE {}]
<1>1. /\ t.pc = "list" /\ thread' = [thread EXCEPT ![r] = t2]
      /\ UNCHANGED <<store, rows, waiting, asked, reader, budget, torn>>
  BY DEF List
<1>2. t.pc \notin Over
  BY <1>1 DEF Over
<1>3. /\ r = asked /\ t \in Thread /\ Good(t, r, objects, raw, torn)
      /\ ReaderOK(reader, t, r, objects, raw)
  BY <1>2, Active
<1>4. DOMAIN raw \subseteq File
  BY <1>3 DEF Good, IsRaw
<1>5. /\ t1 \in Thread /\ t1.names = DOMAIN raw /\ t1.adds = t.adds /\ t1.removes = t.removes
      /\ t1.got = t.got
  BY <1>3, <1>4 DEF Thread
<1> HIDE DEF t, t1
<1>6. pc \in {"build", "load", "clear", "done"}
  OBVIOUS
<1>7. pc = IF t1.adds # <<>> THEN IF t1.names = {} THEN "build" ELSE "load"
           ELSE IF Remaining(t1) = {} THEN "clear"
           ELSE IF t1.names \cap t1.removes # {} THEN "load" ELSE "done"
  OBVIOUS
<1> HIDE DEF pc
<1>8. /\ t2 \in Thread /\ t2.pc = pc /\ t2.adds = t1.adds /\ t2.removes = t1.removes
      /\ t2.names = t1.names /\ t2.got = t1.got /\ (pc = "clear" => t2.left = Key)
  BY <1>5, <1>6 DEF Thread
<1> HIDE DEF t2
<1>9. Remaining(t2) = Remaining(t1)
  BY <1>8, SameRequest
<1>10. Good(t2, r, objects, raw, torn)
  BY <1>1, <1>3, <1>5, <1>7, <1>8, <1>9, ListKeeps
<1>11. ReaderOK(reader, t2, r, objects, raw)
  BY <1>1, <1>2, <1>3, <1>6, <1>8, ReaderStays DEF Before
<1>12. t2.pc \notin Over
  BY <1>6, <1>8 DEF Over
<1>13. objects' = objects /\ raw' = raw
  BY <1>1 DEF store
<1> QED
  BY <1>1, <1>3, <1>8, <1>10, <1>11, <1>12, <1>13, StepKeeps DEF Inv, Types, t

LEMMA LoadInv ==
  ASSUME Inv, NEW r \in Request, Load(r)
  PROVE  Inv'
<1> DEFINE t == thread[r]
           k == NextGet(LoadOrder, t.got)
           pc == IF objects[k] = Absent THEN "refused" ELSE IF k = "documents.zip" THEN "build" ELSE "load"
           t2 == [t EXCEPT !.got = Stored(t.got, k, objects[k]), !.pc = pc]
<1>1. /\ t.pc = "load"
      /\ UNCHANGED <<store, rows, waiting, asked, reader, budget, torn>>
  BY DEF Load
<1>2. t.pc \notin Over
  BY <1>1 DEF Over
<1>3. /\ r = asked /\ t \in Thread /\ Good(t, r, objects, raw, torn)
      /\ ReaderOK(reader, t, r, objects, raw)
  BY <1>2, Active
<1>4. thread' = [thread EXCEPT ![r] = t2]
  BY DEF Load, Stored, Inv, Types
<1>5. k \in Key
  BY <1>1, <1>3, NextLoad DEF Good, ThreadOK, AtLoad
<1>6. t.got \in [Key -> Content] /\ objects \in [Key -> Content]
  BY <1>3 DEF Good, ObjectsOK, Objects
<1> HIDE DEF t
<1>7. Stored(t.got, k, objects[k]) \in [Key -> Content]
  BY <1>5, <1>6 DEF Stored
<1>8. /\ t2 \in Thread /\ t2.pc = pc /\ t2.adds = t.adds /\ t2.removes = t.removes
      /\ t2.names = t.names /\ t2.got = Stored(t.got, k, objects[k])
  <2>1. pc \in {"refused", "build", "load"}
    OBVIOUS
  <2> HIDE DEF pc, k
  <2> QED BY <1>3, <1>7, <2>1 DEF Thread
<1> HIDE DEF t2, k
<1>9. Good(t2, r, objects, raw, torn)
  <2>1. k = NextGet(LoadOrder, t.got)
    BY DEF k
  <2> QED BY <1>1, <1>3, <1>8, <2>1, LoadKeeps
<1>10. ReaderOK(reader, t2, r, objects, raw)
  BY <1>1, <1>2, <1>3, <1>8, ReaderStays DEF Before
<1>11. t2.pc \notin Over
  BY <1>8 DEF Over
<1>12. objects' = objects /\ raw' = raw
  BY <1>1 DEF store
<1> QED
  BY <1>1, <1>3, <1>4, <1>8, <1>9, <1>10, <1>11, <1>12, StepKeeps DEF Inv, Types

LEMMA BuildInv ==
  ASSUME Inv, NEW r \in Request, Build(r)
  PROVE  Inv'
<1> DEFINE t == thread[r]
           old == IF t.names = {} THEN EmptyPublication ELSE t.got
           refused == ~Valid(old) \/ (t.adds # <<>> /\ Collides(old, t.adds))
           new == IF t.adds = <<>> THEN Pruned(old, t.removes) ELSE Extended(old, t.adds, r)
           t2 == IF refused THEN [t EXCEPT !.pc = "refused"]
                 ELSE [t EXCEPT !.pc = "publish", !.left = Key, !.got = new]
<1>1. /\ t.pc = "build" /\ thread' = [thread EXCEPT ![r] = t2]
      /\ UNCHANGED <<store, rows, waiting, asked, reader, budget, torn>>
  BY DEF Build
<1>2. t.pc \notin Over
  BY <1>1 DEF Over
<1>3. /\ r = asked /\ t \in Thread /\ Good(t, r, objects, raw, torn)
      /\ ReaderOK(reader, t, r, objects, raw)
  BY <1>2, Active
<1>4. objects' = objects /\ raw' = raw
  BY <1>1 DEF store
<1>5. old = IF t.names = {} THEN EmptyPublication ELSE t.got
  OBVIOUS
<1> HIDE DEF t, old
<1>6. CASE refused
  <2> DEFINE s == [t EXCEPT !.pc = "refused"]
  <2>1. thread' = [thread EXCEPT ![r] = s]
    BY <1>1, <1>6
  <2>2. /\ s \in Thread /\ s.pc = "refused" /\ s.adds = t.adds /\ s.removes = t.removes
        /\ s.got = t.got
    BY <1>3 DEF Thread
  <2> HIDE DEF s
  <2>3. Good(s, r, objects, raw, torn)
    BY <1>1, <1>3, <1>5, <1>6, <2>2, BuildRefused
  <2>4. ReaderOK(reader, s, r, objects, raw)
    BY <1>2, <1>3, <2>2, ReaderStays DEF Before
  <2>5. s.pc \notin Over
    BY <2>2 DEF Over
  <2> QED
    BY <1>1, <1>3, <1>4, <2>1, <2>2, <2>3, <2>4, <2>5, StepKeeps DEF Inv, Types
<1>7. CASE ~refused
  <2> DEFINE s == [t EXCEPT !.pc = "publish", !.left = Key, !.got = new]
  <2>1. thread' = [thread EXCEPT ![r] = s] /\ Valid(old) /\ (t.adds # <<>> => ~Collides(old, t.adds))
    BY <1>1, <1>7
  <2>2. new = IF t.adds = <<>> THEN Pruned(old, t.removes) ELSE Extended(old, t.adds, r)
    OBVIOUS
  <2> HIDE DEF new
  <2>3. /\ s.pc = "publish" /\ s.adds = t.adds /\ s.removes = t.removes /\ s.names = t.names
        /\ s.left = Key /\ s.got = new
    BY <1>3 DEF Thread
  <2>4. new \in [Key -> Content] => s \in Thread
    BY <1>3 DEF Thread
  <2> HIDE DEF s
  <2>5. /\ Good(s, r, objects, raw, torn)
        /\ t.names # {} => CitesIn(Index(s.got), Archive(objects))
    BY <1>1, <1>3, <1>5, <2>1, <2>2, <2>3, BuildKeeps
  <2>6. s \in Thread
    BY <2>3, <2>4, <2>5 DEF Good, ObjectsOK, Objects
  <2>7. ReaderOK(reader, s, r, objects, raw)
    BY <1>1, <1>3, <2>3, <2>5, ReaderBuilt
  <2>8. s.pc \notin Over
    BY <2>3 DEF Over
  <2> QED
    BY <1>1, <1>3, <1>4, <2>1, <2>5, <2>6, <2>7, <2>8, StepKeeps DEF Inv, Types
<1> QED
  BY <1>6, <1>7

LEMMA PutInv ==
  ASSUME Inv, NEW r \in Request, Put(r)
  PROVE  Inv'
<1> DEFINE t == thread[r]
<1>1. PICK k \in NextPuts(t) :
        /\ objects' = [objects EXCEPT ![k] = t.got[k]]
        /\ thread' = [thread EXCEPT ![r] = Advance(t, k)]
  BY DEF Put
<1>2. t.pc = "publish" /\ UNCHANGED <<raw, rows, waiting, asked, reader, budget, torn>>
  BY DEF Put
<1>3. t.pc \notin Over
  BY <1>2 DEF Over
<1>4. /\ r = asked /\ t \in Thread /\ Good(t, r, objects, raw, torn)
      /\ ReaderOK(reader, t, r, objects, raw)
  BY <1>3, Active
<1> HIDE DEF t
<1> DEFINE t2 == Advance(t, k)
           o2 == Stored(objects, k, t.got[k])
<1>5. objects' = o2 /\ thread' = [thread EXCEPT ![r] = t2]
  BY <1>1 DEF Stored
<1>6. t2 = Advance(t, k) /\ o2 = Stored(objects, k, t.got[k]) /\ t2 \in Thread
  BY <1>4, AdvanceType
<1> HIDE DEF t2, o2
<1>7. Good(t2, r, o2, raw, torn)
  BY <1>2, <1>4, <1>6, PutKeeps
<1>8. t2.pc \in {"publish", "raw", "done"} /\ t2.got = t.got
  BY <1>2, <1>4, <1>6, AdvanceParts
<1>9. ReaderOK(reader, t2, r, o2, raw)
  BY <1>2, <1>4, <1>6, <1>8, ReaderPut DEF Before
<1>10. t2.pc \notin Over
  BY <1>8 DEF Over
<1> QED
  BY <1>2, <1>4, <1>5, <1>6, <1>7, <1>9, <1>10, StepKeeps DEF Inv, Types

LEMMA ClearInv ==
  ASSUME Inv, NEW r \in Request, Clear(r)
  PROVE  Inv'
<1> DEFINE t == thread[r]
<1>1. PICK k \in NextClears(t) :
        /\ objects' = [objects EXCEPT ![k] = Absent]
        /\ thread' = [thread EXCEPT ![r] = Advance(t, k)]
  BY DEF Clear
<1>2. t.pc = "clear" /\ UNCHANGED <<raw, rows, waiting, asked, reader, budget, torn>>
  BY DEF Clear
<1>3. t.pc \notin Over
  BY <1>2 DEF Over
<1>4. /\ r = asked /\ t \in Thread /\ Good(t, r, objects, raw, torn)
      /\ ReaderOK(reader, t, r, objects, raw)
  BY <1>3, Active
<1> HIDE DEF t
<1> DEFINE t2 == Advance(t, k)
           o2 == Stored(objects, k, Absent)
<1>5. objects' = o2 /\ thread' = [thread EXCEPT ![r] = t2]
  BY <1>1 DEF Stored
<1>6. t2 = Advance(t, k) /\ o2 = Stored(objects, k, Absent) /\ t2 \in Thread
  BY <1>4, AdvanceType
<1> HIDE DEF t2, o2
<1>7. Good(t2, r, o2, raw, torn) /\ Archive(o2) = Absent
  BY <1>2, <1>4, <1>6, ClearKeeps
<1>8. t2.pc \in {"clear", "raw", "done"}
  BY <1>2, <1>4, <1>6, AdvanceParts
<1>9. k \in Key /\ objects \in [Key -> Content]
  BY <1>1, <1>2, <1>4 DEF Good, ThreadOK, AtClear, ArchiveFirst, NextClears, ObjectsOK, Objects
<1>10. ReaderOK(reader, t2, r, o2, raw)
  BY <1>2, <1>4, <1>6, <1>7, <1>8, <1>9, ReaderCleared DEF Before
<1>11. t2.pc \notin Over
  BY <1>8 DEF Over
<1> QED
  BY <1>2, <1>4, <1>5, <1>6, <1>7, <1>10, <1>11, StepKeeps DEF Inv, Types

LEMMA StoreRawInv ==
  ASSUME Inv, NEW r \in Request, StoreRaw(r)
  PROVE  Inv'
<1> DEFINE t == thread[r]
<1>1. PICK f \in IF t.left \cap Added(t) # {} THEN t.left \cap Added(t) ELSE t.left :
        /\ raw' = RawAfter(raw, f, f \in Added(t), r)
        /\ thread' = [thread EXCEPT ![r] = Advance(t, f)]
  BY DEF StoreRaw, RawAfter
<1>2. t.pc = "raw" /\ UNCHANGED <<objects, rows, waiting, asked, reader, budget, torn>>
  BY DEF StoreRaw
<1>3. t.pc \notin Over
  BY <1>2 DEF Over
<1>4. /\ r = asked /\ t \in Thread /\ Good(t, r, objects, raw, torn)
      /\ ReaderOK(reader, t, r, objects, raw)
  BY <1>3, Active
<1> HIDE DEF t
<1>5. f \in t.left /\ (t.left \cap Added(t) # {} => f \in Added(t))
  BY <1>1
<1> DEFINE t2 == Advance(t, f)
           w2 == RawAfter(raw, f, f \in Added(t), r)
<1>6. raw' = w2 /\ thread' = [thread EXCEPT ![r] = t2]
  BY <1>1
<1>7. t2 = Advance(t, f) /\ w2 = RawAfter(raw, f, f \in Added(t), r) /\ t2 \in Thread
  BY <1>4, AdvanceType
<1> HIDE DEF t2, w2
<1>8. Good(t2, r, objects, w2, torn)
  BY <1>2, <1>4, <1>5, <1>7, StoreRawKeeps
<1>9. t2.pc \in {"raw", "done"}
  BY <1>2, <1>4, <1>7, AdvanceParts
<1>10. ReaderOK(reader, t2, r, objects, w2)
  BY <1>2, <1>4, <1>9, ReaderRaw DEF Before
<1>11. t2.pc \notin Over
  BY <1>9 DEF Over
<1> QED
  BY <1>2, <1>4, <1>6, <1>7, <1>8, <1>10, <1>11, StepKeeps DEF Inv, Types

LEMMA FailInv ==
  ASSUME Inv, NEW r \in Request, Fail(r)
  PROVE  Inv'
<1> DEFINE t == thread[r]
           t2 == [t EXCEPT !.pc = "failed"]
           d2 == torn \/ t.pc = "raw" \/ (t.pc \in {"publish", "clear"} /\ t.left # Key)
<1>1. /\ t.pc \in {"list", "load", "build", "publish", "clear", "raw"}
      /\ UNCHANGED <<store, rows, waiting, asked, reader, timeouts, reads>>
      /\ torn' = d2
  BY DEF Fail, Running, Inv, Types
<1>2. thread' = [thread EXCEPT ![r] = t2]
  BY DEF Fail, Go
<1>3. t.pc \notin Over
  BY <1>1 DEF Over
<1>4. /\ r = asked /\ t \in Thread /\ Good(t, r, objects, raw, torn)
      /\ ReaderOK(reader, t, r, objects, raw)
  BY <1>3, Active
<1> HIDE DEF t
<1>5. /\ t2 \in Thread /\ t2.pc = "failed" /\ t2.adds = t.adds /\ t2.removes = t.removes
      /\ t2.got = t.got
  BY <1>4 DEF Thread
<1> HIDE DEF t2
<1>6. /\ d2 <=> torn \/ t.pc = "raw" \/ (t.pc \in {"publish", "clear"} /\ t.left # Key)
      /\ d2 \in BOOLEAN
  BY DEF Inv, Types
<1> HIDE DEF d2
<1>7. Good(t2, r, objects, raw, d2)
  BY <1>1, <1>4, <1>5, <1>6, FailKeeps
<1>8. ReaderOK(reader, t2, r, objects, raw)
  BY <1>3, <1>4, <1>5, ReaderStays DEF Before
<1>9. t2.pc \notin Over
  BY <1>5 DEF Over
<1>10. objects' = objects /\ raw' = raw
  BY <1>1 DEF store
<1> QED
  BY <1>1, <1>2, <1>4, <1>5, <1>6, <1>7, <1>8, <1>9, <1>10, StepKeeps DEF Inv, Types

LEMMA SettleInv ==
  ASSUME Inv, NEW r \in Request, Settle(r), thread[r].pc \in {"done", "refused", "failed"},
         waiting' \in {0, waiting}, rows' \in [bundle : BOOLEAN, raw : SUBSET File]
  PROVE  Inv'
<1> DEFINE t == thread[r]
           t2 == IF t.pc = "done" THEN NoThread
                 ELSE [t EXCEPT !.pc = "given up", !.names = {}, !.got = NoObjects, !.left = {}]
           d2 == torn /\ ~(t.pc = "done" /\ FromNothing(t))
<1>1. thread' = [thread EXCEPT ![r] = t2] /\ torn' = d2 /\ UNCHANGED <<store, asked, reader>>
  BY DEF Settle
<1>2. t.pc \in {"done", "refused", "failed"} /\ t.pc \notin Over
  BY DEF Over
<1>3. /\ r = asked /\ t \in Thread /\ Good(t, r, objects, raw, torn)
      /\ ReaderOK(reader, t, r, objects, raw)
  BY <1>2, Active
<1> HIDE DEF t
<1>4. NoObjects \in [Key -> Content] /\ <<>> \in Seq(File)
  BY NoObjectsTypes DEF Objects
<1>5. t2 \in Thread /\ t2.pc \in {"none", "given up"} /\ t2.got = NoObjects
  <2>1. CASE t.pc = "done"
    BY <1>4, <2>1 DEF NoThread, Thread
  <2>2. CASE t.pc # "done"
    BY <1>3, <1>4, <2>2 DEF Thread
  <2> QED BY <2>1, <2>2
<1> HIDE DEF t2
<1>6. /\ ~d2 => ~torn \/ (t.pc = "done" /\ FromNothing(t))
      /\ d2 \in BOOLEAN
  BY DEF Inv, Types
<1> HIDE DEF d2
<1>7. Good(t2, r, objects, raw, d2)
  <2>1. Settles(t, t2, torn, d2)
    BY <1>2, <1>5, <1>6 DEF Settles
  <2> QED BY <1>3, <2>1, SettleKeeps
<1>8. ReaderOK(reader, t2, r, objects, raw)
  BY <1>2, <1>3, <1>5, ReaderStays DEF Before
<1>9. objects' = objects /\ raw' = raw
  BY <1>1 DEF store
<1> QED
  BY <1>1, <1>3, <1>5, <1>6, <1>7, <1>8, <1>9, StepKeeps

LEMMA ReplaceInv ==
  ASSUME Inv, NEW r \in Request, Replace(r)
  PROVE  Inv'
<1>1. thread[r].pc = "done" /\ waiting' = 0 /\ Settle(r)
  BY DEF Replace
<1>2. thread[r] \in Thread /\ thread[r].removes \in SUBSET File /\ Asks(thread[r])
  <2>1. thread[r].pc \notin Over
    BY <1>1 DEF Over
  <2> QED BY <1>1, <2>1, Active DEF Good, ThreadOK, Thread
<1>3. Remaining(thread[r]) \in SUBSET File
  BY <1>2, Uploaded DEF Asks, Added, Remaining, Thread
<1>4. rows' \in [bundle : BOOLEAN, raw : SUBSET File]
  <2>1. PICK some \in BOOLEAN : some = (Remaining(thread[r]) # {})
    OBVIOUS
  <2>2. rows' = rows \/ rows' = [bundle |-> some, raw |-> Remaining(thread[r])]
    BY <2>1 DEF Replace
  <2> QED BY <1>3, <2>2 DEF Inv, Types
<1> QED
  BY <1>1, <1>4, SettleInv

LEMMA RefusedInv ==
  ASSUME Inv, NEW r \in Request, Refused(r) \/ Discard(r)
  PROVE  Inv'
<1>1. /\ Settle(r) /\ thread[r].pc \in {"done", "refused", "failed"}
      /\ waiting' \in {0, waiting} /\ rows' = rows
  BY DEF Refused, Discard
<1>2. rows' \in [bundle : BOOLEAN, raw : SUBSET File]
  BY <1>1 DEF Inv, Types
<1> QED
  BY <1>1, <1>2, SettleInv

LEMMA TimeOutInv ==
  ASSUME Inv, NEW r \in Request, TimeOut(r)
  PROVE  Inv'
<1>1. /\ UNCHANGED <<objects, raw, rows, thread, asked, torn>>
      /\ waiting' \in {0, waiting} /\ reader' = reader
  BY DEF TimeOut, store
<1>2. /\ reader \in [pc : {"none", "load", "workspace"}, got : [Key -> Content], last : Nat]
      /\ ReaderOK(reader, LastThread, asked, objects, raw)
  BY DEF Inv, Types
<1> QED
  BY <1>1, <1>2, IdleKeeps

(* A step that leaves the requests serial found them so.                   *)
LEMMA SerialBefore ==
  ASSUME [Next]_vars, Serial'
  PROVE  Serial
<1>1. ASSUME NEW r, NEW adds, NEW removes, Start(r, adds, removes) PROVE Serial
  <2>1. overlapped' = (overlapped \/ Working # {})
    BY <1>1 DEF Start
  <2> QED BY <2>1, Zenon DEF Serial
<1>2. CASE Upload \/ RemoveFile
  BY <1>1, <1>2 DEF Upload, RemoveFile
<1>3. ASSUME overlapped' = overlapped PROVE Serial
  BY <1>3, Zenon DEF Serial
<1>4. CASE \E r \in Request : \/ Replace(r) \/ Refused(r) \/ Discard(r) \/ TimeOut(r)
                             \/ List(r) \/ Load(r) \/ Build(r)
  BY <1>3, <1>4 DEF Replace, Refused, Discard, Settle, TimeOut, List, Load, Build
<1>5. CASE \E r \in Request : Put(r) \/ Clear(r) \/ StoreRaw(r) \/ Fail(r)
  BY <1>3, <1>5 DEF Put, Clear, StoreRaw, Fail
<1>6. CASE BeginRead \/ Read \/ ReadFails \/ UNCHANGED vars
  BY <1>3, <1>6 DEF BeginRead, Read, ReadFails, vars
<1> QED
  BY <1>2, <1>4, <1>5, <1>6 DEF Next

(* A request that is made while no thread works begins after the last one. *)
LEMMA StartAlone ==
  ASSUME NEW r, NEW adds, NEW removes, Start(r, adds, removes), Serial'
  PROVE  Working = {}
<1>1. overlapped' = (overlapped \/ Working # {})
  BY DEF Start
<1> QED
  BY <1>1, Zenon DEF Serial

LEMMA StartInv ==
  ASSUME Serial', Inv, Free, NEW r, r = asked + 1, NEW adds, NEW removes \in SUBSET File,
         IsUpload(adds), adds = <<>> <=> removes # {}, Start(r, adds, removes)
  PROVE  Inv'
<1> DEFINE t2 == [NoThread EXCEPT !.pc = "list", !.adds = adds, !.removes = removes]
<1>1. /\ thread' = [thread EXCEPT ![r] = t2] /\ waiting' = r /\ asked' = r
      /\ UNCHANGED <<store, rows, reader, budget, torn>>
  BY DEF Start
<1>2. asked \in 0 .. MaxRequests /\ asked < MaxRequests /\ MaxRequests \in Nat
  BY PublishAssumption DEF Free, Inv, Types
<1>3. r \in Request /\ r # asked /\ r \in Nat /\ asked \in Nat /\ r > asked /\ r # 0
      /\ r \in 0 .. MaxRequests
  BY <1>2 DEF Request
<1>4. \A q \in Request : thread[q].pc \in Over
  BY StartAlone DEF Working, Over
<1>5. LastThread.pc \in Over
  <2>1. asked # 0 => asked \in Request
    BY <1>2 DEF Request
  <2> QED BY <1>4, <2>1 DEF LastThread, NoThread, Over
<1>6. NoObjects \in [Key -> Content] /\ adds \in Seq(File)
  BY NoObjectsTypes DEF Objects, IsUpload
<1>7. /\ t2 \in Thread /\ t2.pc = "list" /\ t2.adds = adds /\ t2.removes = removes
      /\ t2.names = {} /\ t2.got = NoObjects /\ t2.left = {}
  BY <1>6 DEF NoThread, Thread
<1> HIDE DEF t2
<1>8. Asks(t2)
  BY <1>7 DEF Asks
<1>9. Good(LastThread, asked, objects, raw, torn) /\ ReaderOK(reader, LastThread, asked, objects, raw)
  BY DEF Inv
<1>10. Good(t2, asked + 1, objects, raw, torn)
  BY <1>2, <1>5, <1>7, <1>8, <1>9, StartKeeps DEF Over
<1>11. ReaderOK(reader, t2, asked + 1, objects, raw)
  BY <1>2, <1>7, <1>9, ReaderMeets
<1>12. /\ thread' \in [Request -> Thread] /\ thread'[r] = t2
       /\ \A q \in Request : q # r => thread'[q] = thread[q]
  BY <1>1, <1>3, <1>7 DEF Inv, Types
<1>13. LastThread' = t2
  BY <1>1, <1>3, <1>12 DEF LastThread
<1>14. Types'
  BY <1>1, <1>3, <1>12 DEF Inv, Types
<1>15. OneWorks'
  <2>1. \A q \in Request : q # r => thread'[q].pc \in Over
    BY <1>4, <1>12
  <2>2. \A q \in Request : thread'[q].pc \in Over => thread'[q].got = NoObjects
    BY <1>7, <1>12 DEF Inv, OneWorks, Over
  <2>3. \A q \in Request : q > r => q > asked /\ q # r
    BY <1>3 DEF Request
  <2>4. \A q \in Request : q > r => thread'[q] = NoThread
    BY <1>12, <2>3 DEF Inv, OneWorks
  <2> QED BY <1>1, <1>3, <2>1, <2>2, <2>4 DEF OneWorks, Over
<1> QED
  BY <1>1, <1>10, <1>11, <1>13, <1>14, <1>15 DEF Inv, store

LEMMA SetsAreUploads ==
  ASSUME NEW files \in (SUBSET File) \ {{}}, NEW adds \in SetToSeqs(files)
  PROVE  IsUpload(adds) /\ adds # <<>>
<1> DEFINE c == Cardinality(files)
<1>1. IsFiniteSet(files) /\ c \in Nat /\ c <= Count /\ c # 0
  <2>1. IsFiniteSet(files) /\ c <= Count
    BY PublishAssumption, FS_Subset DEF Count
  <2>2. c \in Nat
    BY <2>1, FS_CardinalityType
  <2>3. files \notin {{}}
    OBVIOUS
  <2>4. c # 0
    BY <2>1, <2>3, FS_EmptySet
  <2> QED BY <2>1, <2>2, <2>4
<1>2. adds \in [1 .. c -> files] /\ \A i, j \in 1 .. c : i # j => adds[i] # adds[j]
  BY DEF SetToSeqs
<1> HIDE DEF c
<1>3. adds \in Seq(File) /\ Len(adds) = c /\ DOMAIN adds = 1 .. c
  <2>1. adds \in [1 .. c -> File]
    BY <1>2
  <2> QED BY <1>1, <2>1
<1>4. IsUpload(adds) /\ adds # <<>>
  BY <1>1, <1>2, <1>3 DEF IsUpload
<1> QED
  BY <1>4

LEMMA UploadInv ==
  ASSUME Serial', Inv, Upload
  PROVE  Inv'
<1>1. PICK files \in (SUBSET File) \ {{}} :
        \E adds \in SetToSeqs(files) : Start(asked + 1, adds, {})
  BY DEF Upload
<1>2. PICK adds \in SetToSeqs(files) : Start(asked + 1, adds, {})
  BY <1>1
<1>3. IsUpload(adds) /\ adds # <<>>
  BY <1>1, <1>2, SetsAreUploads
<1> QED
  BY <1>2, <1>3, StartInv DEF Upload

LEMMA RemoveFileInv ==
  ASSUME Serial', Inv, RemoveFile
  PROVE  Inv'
<1>1. PICK f \in rows.raw : Start(asked + 1, <<>>, {f})
  BY DEF RemoveFile
<1>2. {f} \in SUBSET File
  BY <1>1 DEF Inv, Types
<1>3. IsUpload(<<>>)
  BY CountType DEF IsUpload
<1> QED
  BY <1>1, <1>2, <1>3, StartInv DEF RemoveFile

LEMMA BeginReadInv ==
  ASSUME Inv, BeginRead
  PROVE  Inv'
<1> DEFINE rd == [NoReader EXCEPT !.pc = "load",
                     !.last = IF DOMAIN raw = {} THEN 0
                              ELSE IF Working = {} THEN asked + 1 ELSE asked]
<1>1. reader' = rd /\ UNCHANGED <<objects, raw, rows, thread, asked, torn>> /\ waiting' = waiting
  BY DEF BeginRead, store
<1>2. asked # 0 /\ asked \in 0 .. MaxRequests /\ MaxRequests \in Nat
  BY PublishAssumption DEF BeginRead, Inv, Types, OneWorks
<1>3. asked \in Request /\ asked \in Nat
  BY <1>2 DEF Request
<1>4. LastThread = thread[asked] /\ Good(LastThread, asked, objects, raw, torn)
  BY <1>2 DEF LastThread, Inv
<1>5. Working = {} <=> LastThread.pc \in Over
  <2>1. \A r \in Request : r # asked => thread[r].pc \in Over
    BY DEF Inv, OneWorks, Over
  <2> QED BY <1>3, <1>4, <2>1 DEF Working, Over
<1>6. NoObjects \in [Key -> Content]
  BY NoObjectsTypes DEF Objects
<1>7. /\ rd.pc = "load" /\ rd.got = NoObjects
      /\ rd.last = IF DOMAIN raw = {} THEN 0 ELSE IF LastThread.pc \in Over THEN asked + 1 ELSE asked
      /\ rd \in [pc : {"none", "load", "workspace"}, got : [Key -> Content], last : Nat]
  <2> DEFINE last == IF DOMAIN raw = {} THEN 0 ELSE IF Working = {} THEN asked + 1 ELSE asked
  <2>1. last \in Nat /\ last = IF DOMAIN raw = {} THEN 0 ELSE IF LastThread.pc \in Over THEN asked + 1 ELSE asked
    BY <1>3, <1>5
  <2> HIDE DEF last
  <2>2. rd = [NoReader EXCEPT !.pc = "load", !.last = last]
    BY DEF last
  <2> QED BY <1>6, <2>1, <2>2 DEF NoReader
<1> HIDE DEF rd
<1>8. ReaderOK(rd, LastThread, asked, objects, raw)
  BY <1>3, <1>4, <1>7, ReaderBegins
<1> QED
  BY <1>1, <1>7, <1>8, IdleKeeps

LEMMA ReadInv ==
  ASSUME Inv, Read
  PROVE  Inv'
<1> DEFINE k == NextGet(ReadOrder, reader.got)
           got == Stored(reader.got, k, objects[k])
           RD == [pc : {"none", "load", "workspace"}, got : [Key -> Content], last : Nat]
<1>1. /\ reader.pc = "load" /\ UNCHANGED <<objects, raw, rows, thread, asked, torn>>
      /\ waiting' = waiting
  BY DEF Read, store
<1>2. reader' = IF objects[k] # Absent /\ k # "vectors.npy" THEN [reader EXCEPT !.got = got]
                ELSE IF objects[k] # Absent /\ Valid(got)
                THEN [reader EXCEPT !.pc = "workspace", !.got = got]
                ELSE NoReader
  BY DEF Read, Stored
<1>3. /\ Good(LastThread, asked, objects, raw, torn) /\ reader \in RD
      /\ ReaderOK(reader, LastThread, asked, objects, raw)
  BY DEF Inv, Types
<1>4. objects \in [Key -> Content] /\ reader.got \in [Key -> Content]
  BY <1>3 DEF Good, ObjectsOK, Objects
<1>5. k \in Key
  BY <1>1, <1>3, NextReadStep DEF ReaderOK, Vectors
<1>6. got \in [Key -> Content]
  BY <1>4, <1>5 DEF Stored
<1>7. k = NextGet(ReadOrder, reader.got) /\ got = Stored(reader.got, k, objects[k])
  OBVIOUS
<1> HIDE DEF k, got
<1>8. CASE reader' = NoReader
  <2>1. NoReader.pc = "none" /\ NoReader.got = NoObjects /\ NoReader.last = 0 /\ NoReader \in RD
    BY NoObjectsTypes DEF NoReader, Objects
  <2>2. ReaderOK(NoReader, LastThread, asked, objects, raw)
    <3>1. 0 \in 0 .. asked + 1
      BY PublishAssumption DEF Inv, Types
    <3> QED BY <2>1, <3>1, NoObjectsTypes DEF ReaderOK
  <2> QED BY <1>1, <1>8, <2>1, <2>2, IdleKeeps
<1>9. CASE objects[k] # Absent /\ (k = "vectors.npy" => Valid(got))
  <2> DEFINE rd == [reader EXCEPT !.pc = IF k = "vectors.npy" THEN "workspace" ELSE "load", !.got = got]
  <2>1. /\ rd \in RD /\ rd.got = got /\ rd.last = reader.last
        /\ rd.pc = IF k = "vectors.npy" THEN "workspace" ELSE "load"
    BY <1>3, <1>6
  <2>2. reader' = rd
    BY <1>1, <1>2, <1>3, <1>9
  <2> HIDE DEF rd
  <2>3. ReaderOK(rd, LastThread, asked, objects, raw)
    BY <1>1, <1>3, <1>7, <1>9, <2>1, ReaderReads
  <2> QED BY <1>1, <2>1, <2>2, <2>3, IdleKeeps
<1> QED
  BY <1>2, <1>8, <1>9

LEMMA InvStep ==
  ASSUME Inv, [Next]_vars, Serial'
  PROVE  Inv'
<1>1. CASE Upload \/ RemoveFile
  BY <1>1, UploadInv, RemoveFileInv
<1>2. ASSUME NEW r \in Request, Replace(r) \/ Refused(r) \/ Discard(r) \/ TimeOut(r)
      PROVE  Inv'
  BY <1>2, ReplaceInv, RefusedInv, TimeOutInv
<1>3. ASSUME NEW r \in Request, List(r) \/ Load(r) \/ Build(r)
      PROVE  Inv'
  BY <1>3, ListInv, LoadInv, BuildInv
<1>4. ASSUME NEW r \in Request, Put(r) \/ Clear(r) \/ StoreRaw(r) \/ Fail(r)
      PROVE  Inv'
  BY <1>4, PutInv, ClearInv, StoreRawInv, FailInv
<1>5. CASE BeginRead \/ Read
  BY <1>5, BeginReadInv, ReadInv
<1>6. CASE ReadFails \/ UNCHANGED vars
  <2> DEFINE RD == [pc : {"none", "load", "workspace"}, got : [Key -> Content], last : Nat]
  <2>1. /\ UNCHANGED <<objects, raw, rows, thread, asked, torn>> /\ waiting' = waiting
        /\ reader' = reader \/ reader' = NoReader
    BY <1>6 DEF ReadFails, vars, store
  <2>2. reader \in RD /\ ReaderOK(reader, LastThread, asked, objects, raw) /\ asked \in 0 .. MaxRequests
    BY DEF Inv, Types
  <2>3. NoReader.pc = "none" /\ NoReader.got = NoObjects /\ NoReader.last = 0 /\ NoReader \in RD
    BY NoObjectsTypes DEF NoReader, Objects
  <2>4. 0 \in 0 .. asked + 1
    BY <2>2, PublishAssumption
  <2>5. ReaderOK(NoReader, LastThread, asked, objects, raw)
    BY <2>3, <2>4, NoObjectsTypes DEF ReaderOK
  <2> QED BY <2>1, <2>2, <2>3, <2>5, IdleKeeps
<1> QED
  BY <1>1, <1>2, <1>3, <1>4, <1>5, <1>6 DEF Next

(* The invariant holds of the service as long as its requests are serial:  *)
(* the thread that works and what the bucket has of its request, the       *)
(* originals, the reader and the rows agree at every stage of an upload or *)
(* a deletion, faults included.                                            *)
SerialInv == Serial => Inv

THEOREM PublishInv == Spec => []SerialInv
<1>1. Init => SerialInv
  BY InitInv DEF SerialInv
<1>2. SerialInv /\ [Next]_vars => SerialInv'
  <2> SUFFICES ASSUME SerialInv, [Next]_vars, Serial' PROVE Inv'
    BY DEF SerialInv
  <2>1. Inv
    BY SerialBefore DEF SerialInv
  <2> QED BY <2>1, InvStep
<1> QED
  BY <1>1, <1>2, PTL DEF Spec

-----------------------------------------------------------------------------
(* What follows from the invariant.                                        *)
PlainTypes(o) ==
  /\ ArchiveOK(o["documents.zip"])
  /\ o["manifest.json"] = Absent
     \/ (DOMAIN o["manifest.json"] \subseteq File /\ Range(o["manifest.json"]) \subseteq Roots)
  /\ o["index.json"] = Absent \/ Range(o["index.json"]) \subseteq Chunk
  /\ o["vectors.npy"] = Absent \/ Range(o["vectors.npy"]) \subseteq Vector

LEMMA ObjectsPlain ==
  ASSUME NEW n \in 0 .. MaxRequests, NEW o, Objects(o, n)
  PROVE  PlainTypes(o)
<1>1. RootsUpTo(n) \subseteq Roots /\ ChunkUpTo(n) \subseteq Chunk
  BY RootsGrow
<1>2. ASSUME Archive(o) # Absent PROVE ArchiveOK(Archive(o))
  BY <1>1, <1>2 DEF Objects, IsArchive, ArchiveOK, Range
<1>3. ASSUME Manifest(o) # Absent
      PROVE  DOMAIN Manifest(o) \subseteq File /\ Range(Manifest(o)) \subseteq Roots
  BY <1>1, <1>3 DEF Objects, IsManifest, Range
<1>4. ASSUME Index(o) # Absent PROVE Range(Index(o)) \subseteq Chunk
  <2>1. Index(o) \in Seq(ChunkUpTo(n))
    BY <1>4 DEF Objects, IsIndex
  <2>2. \A i \in DOMAIN Index(o) : Index(o)[i] \in ChunkUpTo(n)
    BY <2>1
  <2> QED BY <1>1, <2>2 DEF Range
<1>5. ASSUME Vectors(o) # Absent PROVE Range(Vectors(o)) \subseteq Vector
  <2>1. Vectors(o) \in Seq(Vector)
    BY <1>5 DEF Objects, IsVectors
  <2>2. \A i \in DOMAIN Vectors(o) : Vectors(o)[i] \in Vector
    BY <2>1
  <2> QED BY <2>2 DEF Range
<1> QED
  BY <1>2, <1>3, <1>4, <1>5 DEF PlainTypes, ArchiveOK, Archive, Manifest, Index, Vectors

LEMMA InvTypes == Inv /\ overlapped \in BOOLEAN => TypeOK
<1> SUFFICES ASSUME Inv, overlapped \in BOOLEAN PROVE TypeOK
  OBVIOUS
<1>1. asked \in 0 .. MaxRequests /\ Objects(objects, asked) /\ Objects(reader.got, asked)
  BY DEF Inv, Types, Good, ObjectsOK, ReaderOK
<1>2. \A r \in Request : Objects(thread[r].got, asked)
  <2> SUFFICES ASSUME NEW r \in Request PROVE Objects(thread[r].got, asked)
    OBVIOUS
  <2>1. CASE thread[r].pc \in Over
    BY <2>1, NoObjectsTypes DEF Inv, OneWorks, Over
  <2>2. CASE thread[r].pc \notin Over
    BY <2>2, Active DEF Good, ObjectsOK
  <2> QED BY <2>1, <2>2
<1>3. \A o \in {objects, reader.got} \cup {thread[r].got : r \in Request} : PlainTypes(o)
  BY <1>1, <1>2, ObjectsPlain
<1>4. DOMAIN objects = Key
  BY <1>1 DEF Objects
<1>5. DOMAIN raw \subseteq File /\ Range(raw) \subseteq Version
  BY DEF Inv, Good, IsRaw, Range
<1>6. /\ rows \in [bundle : BOOLEAN, raw : SUBSET File]
      /\ asked \in 0 .. MaxRequests /\ waiting \in {0, asked}
      /\ \A r \in Request : r > asked => thread[r] = NoThread
      /\ torn \in BOOLEAN
  BY DEF Inv, Types, OneWorks
<1> QED
  BY <1>3, <1>4, <1>5, <1>6 DEF TypeOK, PlainTypes

LEMMA InvSettled == Inv => SettledBucketIsOnePublication
<1> SUFFICES ASSUME Inv, Quiet, ~torn
             PROVE  (raw = NoFiles /\ objects = NoObjects) \/ IsPublication(objects, raw)
  BY DEF SettledBucketIsOnePublication, NoFiles, IsPublication, Archive, Manifest, Index
<1>1. LastThread.pc \notin {"publish", "clear", "raw"}
  <2>1. asked # 0 => asked \in Request
    BY DEF Inv, Types, Request
  <2> QED BY <2>1 DEF Quiet, Running, LastThread, NoThread
<1>2. Whole(objects, raw)
  BY <1>1 DEF Inv, Good, ThreadOK, Rests
<1> QED
  BY <1>2 DEF Whole

LEMMA ValidCites ==
  ASSUME NEW o, Valid(o), CitesIn(Index(o), Archive(o))
  PROVE  Cites(o)
  BY DEF Valid, CitesIn, Cites, Index, Archive, Key

LEMMA InvCites == Inv => IndexCitesItsArchive
<1> SUFFICES ASSUME Inv PROVE IndexCitesItsArchive
  OBVIOUS
<1>1. DOMAIN raw # {} /\ Valid(objects) => Cites(objects)
  BY ValidCites DEF Inv, Good, ThreadOK
<1>2. reader.pc = "workspace" /\ asked <= reader.last => Cites(reader.got)
  BY ValidCites DEF Inv, ReaderOK
<1> QED
  BY <1>1, <1>2 DEF IndexCitesItsArchive

LEMMA InvRefused == Inv => RefusalsHaveCause
<1> SUFFICES ASSUME Inv, NEW r \in Request, thread[r].pc = "refused" PROVE torn
  BY DEF RefusalsHaveCause
<1>1. thread[r].pc \notin Over
  BY DEF Over
<1> QED
  BY <1>1, Active DEF Good, ThreadOK

HistoryType == overlapped \in BOOLEAN

LEMMA HistoryTypes == Spec => []HistoryType
<1>1. Init => HistoryType
  BY DEF Init, HistoryType
<1>2. HistoryType /\ [Next]_vars => HistoryType'
  <2> SUFFICES ASSUME overlapped \in BOOLEAN, [Next]_vars PROVE overlapped' \in BOOLEAN
    BY DEF HistoryType
  <2>1. CASE Upload \/ RemoveFile
    BY <2>1 DEF Upload, RemoveFile, Start
  <2>2. CASE \E r \in Request : \/ Replace(r) \/ Refused(r) \/ Discard(r) \/ TimeOut(r)
                               \/ List(r) \/ Load(r) \/ Build(r)
    BY <2>2 DEF Replace, Refused, Discard, Settle, TimeOut, List, Load, Build
  <2>3. CASE \E r \in Request : Put(r) \/ Clear(r) \/ StoreRaw(r) \/ Fail(r)
    BY <2>3 DEF Put, Clear, StoreRaw, Fail
  <2>4. CASE BeginRead \/ Read \/ ReadFails \/ UNCHANGED vars
    BY <2>4 DEF BeginRead, Read, ReadFails, vars
  <2> QED BY <2>1, <2>2, <2>3, <2>4 DEF Next
<1> QED
  BY <1>1, <1>2, PTL DEF Spec

(* The objects, the originals, the rows and the threads have their types,  *)
(* and the manager waits only for the request it made last, as long as     *)
(* requests are serial.                                                    *)
THEOREM PublishTypes == Spec => [](Serial => TypeOK)
<1>1. SerialInv /\ HistoryType => (Serial => TypeOK)
  BY InvTypes DEF SerialInv, HistoryType
<1> QED
  BY <1>1, PublishInv, HistoryTypes, PTL

(* A bucket at rest, whose requests were serial and whose publications     *)
(* were never cut short, is one publication of its originals: archive,     *)
(* manifest, index and vectors.                                            *)
THEOREM SettledBuckets == Spec => []SettledBucketIsOnePublication
<1>1. SerialInv => SettledBucketIsOnePublication
  BY InvSettled DEF SerialInv, SettledBucketIsOnePublication
<1> QED
  BY <1>1, PublishInv, PTL

(* What was cut short and still passes the checks cites no text that it    *)
(* does not have; the same of what a worker read while serial requests     *)
(* went on.                                                                *)
THEOREM WorkspacesCiteTheirText == Spec => []IndexCitesItsArchive
<1>1. SerialInv => IndexCitesItsArchive
  BY InvCites DEF SerialInv, IndexCitesItsArchive
<1> QED
  BY <1>1, PublishInv, PTL

(* No serial request is refused unless an earlier one was cut short.       *)
THEOREM RefusalsAreExplained == Spec => []RefusalsHaveCause
<1>1. SerialInv => RefusalsHaveCause
  BY InvRefused DEF SerialInv, RefusalsHaveCause
<1> QED
  BY <1>1, PublishInv, PTL

-----------------------------------------------------------------------------
(* The abstract library: what the archive shows, which originals are held, *)
(* and the request that is worked on.                                      *)
ShownFiles(o) == [f \in File |-> Shown(Archive(o), f)]
HeldOf(w) == [f \in File |-> IF f \in DOMAIN w THEN {w[f]} ELSE {}]
AskedBy(t, r) == [adds |-> Added(t), removes |-> t.removes, version |-> r]
NothingAsked == [adds |-> {}, removes |-> {}, version |-> 0]

LibraryState(sh, he, rq) ==
  sh = ShownFiles(objects) /\ he = HeldOf(raw) /\ rq = AskedBy(CurrentThread, Current)

(* The library's actions, of what is shown, held and asked before and      *)
(* after.                                                                  *)
LEMMA LibraryAsk ==
  ASSUME NEW adds \in SUBSET File, NEW removes \in SUBSET File, NEW r \in Version,
         adds \cup removes # {}, adds \cap removes = {},
         AskedBy(CurrentThread, Current) = NothingAsked,
         AskedBy(CurrentThread', Current') = [adds |-> adds, removes |-> removes, version |-> r],
         UNCHANGED <<objects, raw, torn>>
  PROVE  Library!Ask(adds, removes, r)
  BY DEF Library!Ask, Library!NoRequest, AskedBy, NothingAsked

LEMMA LibraryStutters ==
  ASSUME ShownFiles(objects') = ShownFiles(objects), raw' = raw, torn' = torn,
         AskedBy(CurrentThread', Current') = AskedBy(CurrentThread, Current)
  PROVE  UNCHANGED Library!fileVars
  BY DEF Library!fileVars, AskedBy, ShownFiles, Shown, Archive

LEMMA LibraryBreak ==
  ASSUME UNCHANGED <<objects, raw>>, torn', torn' \in BOOLEAN,
         AskedBy(CurrentThread, Current) # NothingAsked,
         AskedBy(CurrentThread', Current') = AskedBy(CurrentThread, Current)
  PROVE  Library!Break
  BY DEF Library!Break, Library!NoRequest, AskedBy, NothingAsked

LEMMA LibraryEnd ==
  ASSUME UNCHANGED <<objects, raw>>,
         AskedBy(CurrentThread, Current) # NothingAsked,
         AskedBy(CurrentThread', Current') = NothingAsked,
         torn' = torn \/ (torn' = FALSE /\ ShownFiles(objects) = HeldOf(raw))
  PROVE  Library!End
  BY DEF Library!End, Library!NoRequest, AskedBy, NothingAsked, ShownFiles, HeldOf, Shown, Archive

LEMMA LibraryHold ==
  ASSUME NEW f \in File, NEW r, UNCHANGED <<objects, torn>>,
         f \in Added(CurrentThread), r = Current, r \in Shown(Archive(objects), f),
         \A g \in File : HeldOf(raw')[g] = IF g = f THEN {r} ELSE HeldOf(raw)[g],
         AskedBy(CurrentThread', Current') = AskedBy(CurrentThread, Current)
  PROVE  Library!Hold(f)
<1>1. Current \in ShownFiles(objects)[f]
  BY DEF ShownFiles
<1>2. HeldOf(raw') = [HeldOf(raw) EXCEPT ![f] = {Current}]
  BY DEF HeldOf
<1> QED
  BY <1>1, <1>2 DEF Library!Hold, AskedBy, HeldOf, ShownFiles, Shown, Archive

LEMMA LibraryDrop ==
  ASSUME NEW f \in File, UNCHANGED <<objects, torn>>,
         f \in CurrentThread.removes, Shown(Archive(objects), f) = {} \/ torn,
         \A g \in File : HeldOf(raw')[g] = IF g = f THEN {} ELSE HeldOf(raw)[g],
         AskedBy(CurrentThread', Current') = AskedBy(CurrentThread, Current)
  PROVE  Library!Drop(f)
<1>1. HeldOf(raw') = [HeldOf(raw) EXCEPT ![f] = {}]
  BY DEF HeldOf
<1>2. ShownFiles(objects)[f] = {} \/ torn
  BY DEF ShownFiles
<1> QED
  BY <1>1, <1>2 DEF Library!Drop, AskedBy, HeldOf, ShownFiles, Shown, Archive

LEMMA LibraryShow ==
  ASSUME UNCHANGED <<raw, torn>>, IsRaw(raw),
         AskedBy(CurrentThread, Current) # NothingAsked,
         AskedBy(CurrentThread', Current') = AskedBy(CurrentThread, Current),
         NEW t, NEW r, t = CurrentThread, r = Current,
         \A f \in File : Shown(Archive(objects'), f) =
           IF f \in Added(t) THEN {r}
           ELSE IF f \in t.removes \/ DOMAIN raw \subseteq t.removes THEN {}
           ELSE Shown(Archive(objects), f)
  PROVE  Library!Show
<1>1. Library!HeldFiles = DOMAIN raw
  BY DEF Library!HeldFiles, IsRaw
<1>2. \A f \in File : ShownFiles(objects')[f] = Library!Wanted(f)
  BY <1>1 DEF Library!Wanted, ShownFiles, Shown, Archive
<1> QED
  BY <1>2 DEF Library!Show, Library!NoRequest, AskedBy, NothingAsked, ShownFiles, Shown, Archive

LEMMA LibraryShowDamaged ==
  ASSUME UNCHANGED <<raw, torn>>, torn,
         AskedBy(CurrentThread, Current) # NothingAsked,
         AskedBy(CurrentThread', Current') = AskedBy(CurrentThread, Current),
         NEW t, NEW r, t = CurrentThread, r = Current,
         \A f \in File : Shown(Archive(objects'), f) \in SUBSET Version,
         \A f \in File : \A v \in Shown(Archive(objects'), f) : v \in Shown(Archive(objects), f) \/ v = r,
         \A f \in File : f \notin Added(t) /\ f \notin t.removes =>
            Shown(Archive(objects'), f) = Shown(Archive(objects), f)
  PROVE  Library!Show
  BY DEF Library!Show, Library!Named, Library!NoRequest, AskedBy, NothingAsked, ShownFiles, Shown, Archive

(* Whose request it is: of the one thread that works.                      *)
WorkingIn(th) == {r \in Request : th[r].pc \notin {"none", "given up"}}
CurrentIn(th) == Max(WorkingIn(th) \cup {0})
ThreadIn(th) == IF WorkingIn(th) = {} THEN NoThread ELSE th[CurrentIn(th)]

LEMMA OneCurrent ==
  ASSUME NEW th, NEW r \in Request, th[r].pc \notin Over,
         \A q \in Request : q # r => th[q].pc \in Over
  PROVE  CurrentIn(th) = r /\ ThreadIn(th) = th[r]
<1> DEFINE T == WorkingIn(th) \cup {0}
<1>1. WorkingIn(th) = {r}
  BY DEF WorkingIn, Over
<1>2. r \in Nat /\ r # 0 /\ r > 0 /\ T = {r, 0}
  BY <1>1 DEF Request
<1>3. Max(T) \in T /\ \A y \in T : y <= Max(T)
  <2>1. T \in SUBSET Nat /\ T # {} /\ \A y \in T : y <= r
    BY <1>2
  <2> HIDE DEF T
  <2> QED BY <1>2, <2>1, Greatest
<1>4. Max(T) = r
  BY <1>2, <1>3
<1> QED
  BY <1>1, <1>4 DEF CurrentIn, ThreadIn

LEMMA NoCurrent ==
  ASSUME NEW th, \A q \in Request : th[q].pc \in Over
  PROVE  CurrentIn(th) = 0 /\ ThreadIn(th) = NoThread
<1> DEFINE T == WorkingIn(th) \cup {0}
<1>1. WorkingIn(th) = {} /\ T = {0}
  BY DEF WorkingIn, Over
<1>2. Max(T) \in T
  <2>1. T \in SUBSET Nat /\ T # {} /\ 0 \in Nat /\ \A y \in T : y <= 0
    BY <1>1
  <2> HIDE DEF T
  <2> QED BY <2>1, Greatest
<1> QED
  BY <1>1, <1>2 DEF CurrentIn, ThreadIn

LEMMA CurrentNow ==
  /\ Current = CurrentIn(thread) /\ CurrentThread = ThreadIn(thread)
  /\ Current' = CurrentIn(thread') /\ CurrentThread' = ThreadIn(thread')
  BY DEF Current, CurrentThread, CurrentIn, ThreadIn, Working, WorkingIn

LEMMA NothingIsAsked == AskedBy(NoThread, 0) = NothingAsked
<1>1. Range(<<>>) = {}
  BY DEF Range
<1> QED
  BY <1>1 DEF AskedBy, NothingAsked, NoThread, Added

LEMMA SomethingIsAsked ==
  ASSUME NEW t, NEW r \in Request
  PROVE  AskedBy(t, r) # NothingAsked
<1>1. AskedBy(t, r).version = r /\ NothingAsked.version = 0 /\ r # 0
  BY DEF AskedBy, NothingAsked, Request
<1> QED
  BY <1>1

LEMMA RequestStays ==
  ASSUME Inv, NEW r \in Request, thread[r].pc \notin Over, NEW t2,
         thread' = [thread EXCEPT ![r] = t2], t2.pc \notin Over,
         t2.adds = thread[r].adds, t2.removes = thread[r].removes
  PROVE  /\ Current = r /\ CurrentThread = thread[r]
         /\ AskedBy(CurrentThread', Current') = AskedBy(CurrentThread, Current)
         /\ AskedBy(CurrentThread, Current) # NothingAsked
<1>1. /\ thread'[r] = t2 /\ \A q \in Request : q # r => thread'[q] = thread[q]
      /\ \A q \in Request : q # r => thread[q].pc \in Over
  BY Active DEF Inv, Types, OneWorks, Over
<1>2. CurrentIn(thread) = r /\ ThreadIn(thread) = thread[r]
  BY <1>1, OneCurrent
<1>3. CurrentIn(thread') = r /\ ThreadIn(thread') = t2
  BY <1>1, OneCurrent
<1>4. AskedBy(t2, r) = AskedBy(thread[r], r)
  BY DEF AskedBy, Added
<1> QED
  BY <1>2, <1>3, <1>4, CurrentNow, SomethingIsAsked

LEMMA RequestEnds ==
  ASSUME Inv, NEW r \in Request, thread[r].pc \notin Over, NEW t2,
         thread' = [thread EXCEPT ![r] = t2], t2.pc \in Over
  PROVE  /\ AskedBy(CurrentThread, Current) # NothingAsked
         /\ AskedBy(CurrentThread', Current') = NothingAsked
<1>1. /\ thread'[r] = t2 /\ \A q \in Request : q # r => thread'[q] = thread[q]
      /\ \A q \in Request : q # r => thread[q].pc \in Over
  BY Active DEF Inv, Types, OneWorks, Over
<1>2. CurrentIn(thread) = r /\ ThreadIn(thread) = thread[r]
  BY <1>1, OneCurrent
<1>3. CurrentIn(thread') = 0 /\ ThreadIn(thread') = NoThread
  BY <1>1, NoCurrent
<1> QED
  BY <1>2, <1>3, CurrentNow, SomethingIsAsked, NothingIsAsked

LEMMA StartRefines ==
  ASSUME Serial', Inv, Free, NEW adds, NEW removes \in SUBSET File,
         IsUpload(adds), adds = <<>> <=> removes # {}, Start(asked + 1, adds, removes)
  PROVE  \E a \in SUBSET File, b \in SUBSET File, v \in Version : Library!Ask(a, b, v)
<1> DEFINE t2 == [NoThread EXCEPT !.pc = "list", !.adds = adds, !.removes = removes]
<1>1. PICK r : r = asked + 1
  OBVIOUS
<1>2. thread' = [thread EXCEPT ![r] = t2] /\ UNCHANGED <<objects, raw, torn>>
  BY <1>1 DEF Start, store
<1>3. r \in Request /\ r \in Version
  <2>1. asked \in 0 .. MaxRequests /\ asked < MaxRequests /\ MaxRequests \in Nat
    BY PublishAssumption DEF Free, Inv, Types
  <2> QED BY <1>1, <2>1 DEF Request, Version
<1>4. \A q \in Request : thread[q].pc \in Over
  BY StartAlone DEF Working, Over
<1>5. t2.pc = "list" /\ t2.adds = adds /\ t2.removes = removes
  BY DEF NoThread
<1> HIDE DEF t2
<1>6. thread'[r] = t2 /\ \A q \in Request : q # r => thread'[q].pc \in Over
  BY <1>2, <1>3, <1>4 DEF Inv, Types
<1>7. CurrentIn(thread) = 0 /\ ThreadIn(thread) = NoThread
  BY <1>4, NoCurrent
<1>8. t2.pc \notin Over
  BY <1>5 DEF Over
<1>9. CurrentIn(thread') = r /\ ThreadIn(thread') = t2
  BY <1>3, <1>6, <1>8, OneCurrent
<1>10. AskedBy(t2, r) = [adds |-> Range(adds), removes |-> removes, version |-> r]
  BY <1>5 DEF AskedBy, Added
<1>11. /\ AskedBy(CurrentThread, Current) = NothingAsked
       /\ AskedBy(CurrentThread', Current') = [adds |-> Range(adds), removes |-> removes, version |-> r]
  BY <1>7, <1>9, <1>10, CurrentNow, NothingIsAsked
<1>12. PICK a \in SUBSET File : a = Range(adds)
  BY Uploaded
<1>13. a \cup removes # {} /\ a \cap removes = {}
  <2>1. adds # <<>> <=> a # {}
    BY <1>12, Uploaded
  <2> QED BY <2>1
<1>14. AskedBy(CurrentThread', Current') = [adds |-> a, removes |-> removes, version |-> r]
  BY <1>11, <1>12
<1>15. Library!Ask(a, removes, r)
  BY <1>2, <1>3, <1>11, <1>13, <1>14, LibraryAsk
<1> QED
  BY <1>3, <1>15

(* The thread prepares, or does something of which a reader of the archive *)
(* sees nothing.                                                           *)
LEMMA PreparesRefines ==
  ASSUME Inv, NEW r \in Request, List(r) \/ Load(r) \/ Build(r)
  PROVE  UNCHANGED Library!fileVars
<1> DEFINE t == thread[r]
<1>1. t.pc \in {"list", "load", "build"} /\ UNCHANGED <<objects, raw, torn>>
  BY DEF List, Load, Build, store
<1>2. t.pc \notin Over
  BY <1>1 DEF Over
<1>3. t \in Thread
  BY <1>2, Active
<1>4. \E t2 : /\ thread' = [thread EXCEPT ![r] = t2] /\ t2.pc \notin Over
              /\ t2.adds = t.adds /\ t2.removes = t.removes
  <2> HIDE DEF t
  <2>1. CASE List(r)
    <3> DEFINE pc == IF t.adds # <<>> THEN IF DOMAIN raw = {} THEN "build" ELSE "load"
                     ELSE IF Remaining([t EXCEPT !.names = DOMAIN raw]) = {} THEN "clear"
                     ELSE IF DOMAIN raw \cap t.removes # {} THEN "load" ELSE "done"
               t1 == [t EXCEPT !.names = DOMAIN raw]
               t2 == [t1 EXCEPT !.pc = pc, !.left = IF pc = "clear" THEN Key ELSE {}]
    <3>1. t1.adds = t.adds /\ t1.names = DOMAIN raw /\ t1.removes = t.removes
      BY <1>3 DEF Thread
    <3>2. thread' = [thread EXCEPT ![r] = t2]
      BY <2>1, <3>1 DEF List, t
    <3>3. pc \in {"build", "load", "clear", "done"}
      OBVIOUS
    <3> HIDE DEF pc
    <3>4. t2.pc = pc /\ t2.adds = t.adds /\ t2.removes = t.removes
      BY <1>3 DEF Thread
    <3> HIDE DEF t2
    <3>5. t2.pc \notin Over
      BY <3>3, <3>4 DEF Over
    <3> QED BY <3>2, <3>4, <3>5
  <2>2. CASE Load(r)
    <3> DEFINE k == NextGet(LoadOrder, t.got)
               pc == IF objects[k] = Absent THEN "refused" ELSE IF k = "documents.zip" THEN "build" ELSE "load"
               t2 == [t EXCEPT !.got = Stored(t.got, k, objects[k]), !.pc = pc]
    <3>1. thread' = [thread EXCEPT ![r] = t2]
      BY <2>2 DEF Load, Stored, Inv, Types, t
    <3>2. pc \in {"refused", "build", "load"}
      OBVIOUS
    <3> HIDE DEF pc, k
    <3>3. t2.pc = pc /\ t2.adds = t.adds /\ t2.removes = t.removes
      BY <1>3 DEF Thread
    <3> HIDE DEF t2
    <3>4. t2.pc \notin Over
      BY <3>2, <3>3 DEF Over
    <3> QED BY <3>1, <3>3, <3>4
  <2>3. CASE Build(r)
    <3>1. PICK old, new :
            \/ thread' = [thread EXCEPT ![r] = [t EXCEPT !.pc = "refused"]]
            \/ thread' = [thread EXCEPT ![r] = [t EXCEPT !.pc = "publish", !.left = Key, !.got = new]]
      <4> DEFINE old == IF t.names = {} THEN EmptyPublication ELSE t.got
                 new == IF t.adds = <<>> THEN Pruned(old, t.removes) ELSE Extended(old, t.adds, r)
      <4>1. \/ thread' = [thread EXCEPT ![r] = [t EXCEPT !.pc = "refused"]]
            \/ thread' = [thread EXCEPT ![r] = [t EXCEPT !.pc = "publish", !.left = Key, !.got = new]]
        BY <2>3 DEF Build, t
      <4> HIDE DEF old, new
      <4> QED BY <4>1
    <3> DEFINE refused == [t EXCEPT !.pc = "refused"]
               built == [t EXCEPT !.pc = "publish", !.left = Key, !.got = new]
    <3>2. /\ refused.pc = "refused" /\ refused.adds = t.adds /\ refused.removes = t.removes
          /\ built.pc = "publish" /\ built.adds = t.adds /\ built.removes = t.removes
      BY <1>3 DEF Thread
    <3>3. thread' = [thread EXCEPT ![r] = refused] \/ thread' = [thread EXCEPT ![r] = built]
      BY <3>1
    <3> HIDE DEF refused, built
    <3>4. refused.pc \notin Over /\ built.pc \notin Over
      BY <3>2 DEF Over
    <3> QED BY <3>2, <3>3, <3>4
  <2> QED BY <2>1, <2>2, <2>3
<1>5. AskedBy(CurrentThread', Current') = AskedBy(CurrentThread, Current)
  BY <1>2, <1>4, RequestStays DEF t
<1>6. ShownFiles(objects') = ShownFiles(objects)
  BY <1>1
<1> QED
  BY <1>1, <1>5, <1>6, LibraryStutters

(* The archive is put: what it shows is what the request wants, or, in a   *)
(* damaged bucket, no more than that of the files the request names.       *)
LEMMA PutRefines ==
  ASSUME Inv, NEW r \in Request, Put(r)
  PROVE  Library!Show \/ UNCHANGED Library!fileVars
<1> DEFINE t == thread[r]
<1>1. PICK k \in NextPuts(t) :
        /\ objects' = [objects EXCEPT ![k] = t.got[k]]
        /\ thread' = [thread EXCEPT ![r] = Advance(t, k)]
  BY DEF Put
<1>2. t.pc = "publish" /\ UNCHANGED <<raw, torn>>
  BY DEF Put
<1>3. t.pc \notin Over
  BY <1>2 DEF Over
<1>4. t \in Thread /\ Good(t, r, objects, raw, torn)
  BY <1>3, Active
<1>5. Current = r /\ CurrentThread = t
  <2>1. CurrentIn(thread) = r /\ ThreadIn(thread) = thread[r]
    BY <1>3, Active, OneCurrent DEF Inv, OneWorks, Over
  <2> QED BY <2>1, CurrentNow
<1> DEFINE t2 == Advance(t, k)
           o2 == objects'
<1>6. /\ t2.adds = t.adds /\ t2.removes = t.removes /\ t2.pc \notin Over
      /\ thread' = [thread EXCEPT ![r] = t2]
  <2> HIDE DEF t
  <2>1. t2 = Advance(t, k)
    OBVIOUS
  <2> HIDE DEF t2
  <2>2. t2.adds = t.adds /\ t2.removes = t.removes /\ t2.pc \in {"publish", "raw", "done"}
    BY <1>2, <1>4, <2>1, AdvanceParts
  <2> QED BY <1>1, <2>1, <2>2 DEF Over
<1> HIDE DEF t2
<1>7. /\ AskedBy(CurrentThread', Current') = AskedBy(CurrentThread, Current)
      /\ AskedBy(CurrentThread, Current) # NothingAsked
  BY <1>3, <1>6, RequestStays
<1> HIDE DEF t
<1>8. o2 = Stored(objects, k, t.got[k])
  BY <1>1 DEF Stored
<1>9. /\ k \in Key /\ o2[k] = t.got[k] /\ \A j \in Key : j # k => o2[j] = objects[j]
      /\ k \in t.left /\ ("documents.zip" \in t.left => k = "documents.zip")
  BY <1>2, <1>4, <1>8, PutObjects
<1> HIDE DEF o2
<1>10. CASE k # "documents.zip"
  <2>1. Archive(o2) = Archive(objects)
    BY <1>9, <1>10 DEF Archive, Key
  <2>2. ShownFiles(objects') = ShownFiles(objects)
    BY <2>1 DEF ShownFiles, o2
  <2> QED BY <1>2, <1>7, <2>2, LibraryStutters
<1>11. CASE k = "documents.zip"
  <2>1. /\ AtPublish(t, r, objects, raw, torn) /\ t.left = Key /\ Asks(t) /\ IsRaw(raw)
        /\ t.names = DOMAIN raw /\ Remaining(t) # {} /\ Builds(t, r) /\ Follows(t, r, objects)
        /\ ~torn \/ t.names = {} => IsPublication(t.got, Goal(t, r, raw))
        /\ ~torn => Whole(objects, raw)
        /\ Objects(objects, r) /\ Objects(t.got, r)
    <3>1. /\ IsRaw(raw) /\ ThreadOK(t, r, objects, raw, torn)
          /\ Objects(objects, r) /\ Objects(t.got, r)
      BY <1>4 DEF Good, ObjectsOK
    <3>2. Asks(t) /\ AtPublish(t, r, objects, raw, torn) /\ (~torn /\ Rests(t) => Whole(objects, raw))
      BY <1>2, <3>1 DEF ThreadOK
    <3>3. /\ ArchiveFirst(t) /\ t.names = DOMAIN raw /\ Remaining(t) # {} /\ Builds(t, r)
          /\ Follows(t, r, objects)
          /\ ~torn \/ t.names = {} => IsPublication(t.got, Goal(t, r, raw))
      BY <1>2, <3>2 DEF AtPublish
    <3>4. t.left = Key
      BY <1>9, <1>11, <3>3 DEF ArchiveFirst
    <3>5. Rests(t)
      BY <1>2, <3>4 DEF Rests
    <3> QED BY <3>1, <3>2, <3>3, <3>4, <3>5
  <2>2. Archive(o2) = Archive(t.got) /\ r \in 0 .. MaxRequests
    BY <1>9, <1>11, PublishAssumption DEF Archive, Key, Request
  <2>3. CASE ~torn \/ t.names = {}
    <3>1. \A f, v : v \in Shown(Archive(o2), f) <=> f \in DOMAIN Goal(t, r, raw) /\ v = Goal(t, r, raw)[f]
      BY <2>1, <2>2, <2>3, PublicationShows
    <3>2. \A f, v : v \in Shown(Archive(o2), f) <=>
            /\ (f \in t.names \/ f \in Added(t)) /\ f \notin t.removes
            /\ v = IF f \in Added(t) THEN r ELSE raw[f]
      BY <3>1, GoalParts
    <3>3. \A f \in Added(t) : f \notin t.removes
      BY <2>1, Uploaded DEF Asks, Added
    <3>4. DOMAIN raw \subseteq t.removes => \A f : f \notin Added(t) => Shown(Archive(o2), f) = {}
      BY <2>1, <3>2
    <3>5. ASSUME ~(DOMAIN raw \subseteq t.removes)
          PROVE  \A f, v : v \in Shown(Archive(objects), f) <=> f \in DOMAIN raw /\ v = raw[f]
      <4>1. raw # NoFiles /\ ~torn
        BY <2>1, <2>3, <3>5 DEF NoFiles
      <4>2. IsPublication(objects, raw)
        BY <2>1, <4>1 DEF Whole
      <4> QED BY <2>1, <2>2, <4>2, PublicationShows
    <3>6. \A f \in File : Shown(Archive(o2), f) =
            IF f \in Added(t) THEN {r}
            ELSE IF f \in t.removes \/ DOMAIN raw \subseteq t.removes THEN {}
            ELSE Shown(Archive(objects), f)
      <4> SUFFICES ASSUME NEW f \in File
                   PROVE  Shown(Archive(o2), f) =
                            IF f \in Added(t) THEN {r}
                            ELSE IF f \in t.removes \/ DOMAIN raw \subseteq t.removes THEN {}
                            ELSE Shown(Archive(objects), f)
        OBVIOUS
      <4>1. CASE f \in Added(t)
        BY <3>2, <3>3, <4>1
      <4>2. CASE f \notin Added(t) /\ f \in t.removes
        BY <3>2, <4>2
      <4>3. CASE f \notin Added(t) /\ f \notin t.removes /\ DOMAIN raw \subseteq t.removes
        BY <3>4, <4>3
      <4>4. CASE f \notin Added(t) /\ f \notin t.removes /\ ~(DOMAIN raw \subseteq t.removes)
        <5>1. \A v : v \in Shown(Archive(o2), f) <=> v \in Shown(Archive(objects), f)
          BY <2>1, <3>2, <3>5, <4>4
        <5> QED BY <4>4, <5>1
      <4> QED BY <4>1, <4>2, <4>3, <4>4
    <3>7. Library!Show
      BY <1>2, <1>5, <1>7, <2>1, <3>6, LibraryShow DEF o2
    <3> QED BY <3>7
  <2>4. CASE torn /\ t.names # {}
    <3>1. /\ \A f \in File : \A v \in Shown(Archive(o2), f) : v \in Shown(Archive(objects), f) \/ v = r
          /\ \A f \in File : f \notin Added(t) /\ f \notin t.removes =>
                Shown(Archive(o2), f) = Shown(Archive(objects), f)
      BY <2>1, <2>2, <2>4 DEF Follows
    <3>2. \A f \in File : Shown(Archive(o2), f) \in SUBSET Version
      BY <2>1, <2>2 DEF Shown, Objects, IsArchive
    <3>3. Library!Show
      BY <1>2, <1>5, <1>7, <2>4, <3>1, <3>2, LibraryShowDamaged DEF o2
    <3> QED BY <3>3
  <2> QED BY <2>3, <2>4
<1> QED
  BY <1>10, <1>11

LEMMA ClearRefines ==
  ASSUME Inv, NEW r \in Request, Clear(r)
  PROVE  Library!Show \/ UNCHANGED Library!fileVars
<1> DEFINE t == thread[r]
<1>1. PICK k \in NextClears(t) :
        /\ objects' = [objects EXCEPT ![k] = Absent]
        /\ thread' = [thread EXCEPT ![r] = Advance(t, k)]
  BY DEF Clear
<1>2. t.pc = "clear" /\ UNCHANGED <<raw, torn>>
  BY DEF Clear
<1>3. t.pc \notin Over
  BY <1>2 DEF Over
<1>4. t \in Thread /\ Good(t, r, objects, raw, torn)
  BY <1>3, Active
<1>5. Current = r /\ CurrentThread = t
  <2>1. CurrentIn(thread) = r /\ ThreadIn(thread) = thread[r]
    BY <1>3, Active, OneCurrent DEF Inv, OneWorks, Over
  <2> QED BY <2>1, CurrentNow
<1> DEFINE t2 == Advance(t, k)
           o2 == objects'
<1>6. /\ t2.adds = t.adds /\ t2.removes = t.removes /\ t2.pc \notin Over
      /\ thread' = [thread EXCEPT ![r] = t2]
  <2> HIDE DEF t
  <2>1. t2 = Advance(t, k)
    OBVIOUS
  <2> HIDE DEF t2
  <2>2. t2.adds = t.adds /\ t2.removes = t.removes /\ t2.pc \in {"clear", "raw", "done"}
    BY <1>2, <1>4, <2>1, AdvanceParts
  <2> QED BY <1>1, <2>1, <2>2 DEF Over
<1> HIDE DEF t2
<1>7. /\ AskedBy(CurrentThread', Current') = AskedBy(CurrentThread, Current)
      /\ AskedBy(CurrentThread, Current) # NothingAsked
  BY <1>3, <1>6, RequestStays
<1> HIDE DEF t
<1>8. /\ IsRaw(raw) /\ Asks(t) /\ ArchiveFirst(t) /\ t.names = DOMAIN raw /\ t.adds = <<>>
      /\ Remaining(t) = {} /\ objects \in [Key -> Content]
  BY <1>2, <1>4 DEF Good, ThreadOK, AtClear, ObjectsOK, Objects
<1>9. k \in Key
  BY <1>1, <1>8 DEF ArchiveFirst, NextClears
<1>10. o2[k] = Absent /\ \A j \in Key : j # k => o2[j] = objects[j]
  BY <1>1, <1>8, <1>9
<1> HIDE DEF o2
<1>11. CASE k # "documents.zip"
  <2>1. Archive(o2) = Archive(objects)
    BY <1>10, <1>11 DEF Archive, Key
  <2>2. ShownFiles(objects') = ShownFiles(objects)
    BY <2>1 DEF ShownFiles, o2
  <2> QED BY <1>2, <1>7, <2>2, LibraryStutters
<1>12. CASE k = "documents.zip"
  <2>1. \A f : Shown(Archive(o2), f) = {}
    BY <1>10, <1>12 DEF Shown, Archive
  <2>2. Added(t) = {} /\ DOMAIN raw \subseteq t.removes
    BY <1>8, Uploaded DEF Asks, Added, Remaining
  <2>3. \A f \in File : Shown(Archive(o2), f) =
          IF f \in Added(t) THEN {r}
          ELSE IF f \in t.removes \/ DOMAIN raw \subseteq t.removes THEN {}
          ELSE Shown(Archive(objects), f)
    BY <2>1, <2>2
  <2> QED BY <1>2, <1>5, <1>7, <1>8, <2>3, LibraryShow DEF o2
<1> QED
  BY <1>11, <1>12

(* An original is kept when its version is shown, and dropped when nothing *)
(* of the file is.                                                         *)
LEMMA StoreRawRefines ==
  ASSUME Inv, NEW r \in Request, StoreRaw(r)
  PROVE  \E f \in File : Library!Hold(f) \/ Library!Drop(f)
<1> DEFINE t == thread[r]
<1>1. PICK f \in IF t.left \cap Added(t) # {} THEN t.left \cap Added(t) ELSE t.left :
        /\ raw' = RawAfter(raw, f, f \in Added(t), r)
        /\ thread' = [thread EXCEPT ![r] = Advance(t, f)]
  BY DEF StoreRaw, RawAfter
<1>2. t.pc = "raw" /\ UNCHANGED <<objects, torn>>
  BY DEF StoreRaw
<1>3. t.pc \notin Over
  BY <1>2 DEF Over
<1>4. t \in Thread /\ Good(t, r, objects, raw, torn)
  BY <1>3, Active
<1>5. Current = r /\ CurrentThread = t
  <2>1. CurrentIn(thread) = r /\ ThreadIn(thread) = thread[r]
    BY <1>3, Active, OneCurrent DEF Inv, OneWorks, Over
  <2> QED BY <2>1, CurrentNow
<1> DEFINE t2 == Advance(t, f)
<1>6. /\ t2.adds = t.adds /\ t2.removes = t.removes /\ t2.pc \notin Over
      /\ thread' = [thread EXCEPT ![r] = t2]
  <2> HIDE DEF t
  <2>1. t2 = Advance(t, f)
    OBVIOUS
  <2> HIDE DEF t2
  <2>2. t2.adds = t.adds /\ t2.removes = t.removes /\ t2.pc \in {"raw", "done"}
    BY <1>2, <1>4, <2>1, AdvanceParts
  <2> QED BY <1>1, <2>1, <2>2 DEF Over
<1> HIDE DEF t2
<1>7. AskedBy(CurrentThread', Current') = AskedBy(CurrentThread, Current)
  BY <1>3, <1>6, RequestStays
<1> HIDE DEF t
<1>8. /\ IsRaw(raw) /\ Asks(t) /\ t.left \subseteq Touched(t)
      /\ Written(t, r, objects, raw, torn) /\ Objects(objects, r)
  BY <1>2, <1>4 DEF Good, ThreadOK, AtRaw, ObjectsOK
<1>9. f \in Touched(t)
  BY <1>1, <1>8
<1>10. /\ Added(t) \subseteq File /\ \A g \in Added(t) : g \notin t.removes
       /\ f \notin Added(t) => f \in t.names /\ f \in t.removes
  BY <1>8, <1>9, Uploaded DEF Asks, Added, Touched
<1>11. f \in File
  BY <1>4, <1>9, <1>10 DEF Touched, Thread
<1>12. PICK added \in BOOLEAN : added <=> f \in Added(t)
  OBVIOUS
<1>13. raw' = RawAfter(raw, f, added, r)
  BY <1>1, <1>12 DEF RawAfter
<1>14. /\ \A g : g \in DOMAIN raw' <=> IF g = f THEN added ELSE g \in DOMAIN raw
       /\ added => raw'[f] = r
       /\ \A g \in DOMAIN raw : g # f => raw'[g] = raw[g]
  BY <1>8, <1>11, <1>13, RawStep
<1>15. r \in 0 .. MaxRequests
  BY PublishAssumption DEF Request
<1>16. CASE f \in Added(t)
  <2>1. \A g \in File : HeldOf(raw')[g] = IF g = f THEN {r} ELSE HeldOf(raw)[g]
    BY <1>12, <1>14, <1>16 DEF HeldOf
  <2>2. Remaining(t) # {}
    BY <1>10, <1>16 DEF Remaining
  <2>3. r \in Shown(Archive(objects), f)
    BY <1>8, <1>16, <2>2 DEF Written, Builds
  <2>4. Library!Hold(f)
    BY <1>2, <1>5, <1>7, <1>11, <1>16, <2>1, <2>3, LibraryHold
  <2> QED BY <1>11, <2>4
<1>17. CASE f \notin Added(t)
  <2>1. \A g \in File : HeldOf(raw')[g] = IF g = f THEN {} ELSE HeldOf(raw)[g]
    BY <1>12, <1>14, <1>17 DEF HeldOf
  <2>2. Shown(Archive(objects), f) = {} \/ torn
    <3>1. CASE Remaining(t) = {}
      <4>1. Archive(objects) = Absent
        BY <1>8, <3>1, NoObjectsTypes DEF Written, Archive, Key
      <4> QED BY <4>1 DEF Shown
    <3>2. CASE Remaining(t) # {} /\ ~torn
      <4>1. IsPublication(objects, Goal(t, r, raw))
        BY <1>8, <3>2 DEF Written
      <4>2. f \notin DOMAIN Goal(t, r, raw)
        BY <1>10, <1>17, GoalParts
      <4>3. \A v : v \notin Shown(Archive(objects), f)
        BY <1>8, <1>15, <4>1, <4>2, PublicationShows
      <4> QED BY <4>3
    <3> QED BY <3>1, <3>2
  <2>3. Library!Drop(f)
    BY <1>2, <1>5, <1>7, <1>10, <1>11, <1>17, <2>1, <2>2, LibraryDrop
  <2> QED BY <1>11, <2>3
<1> QED
  BY <1>16, <1>17

LEMMA FailRefines ==
  ASSUME Inv, NEW r \in Request, Fail(r)
  PROVE  Library!Break \/ UNCHANGED Library!fileVars
<1> DEFINE t == thread[r]
           t2 == [t EXCEPT !.pc = "failed"]
<1>1. /\ t.pc \in {"list", "load", "build", "publish", "clear", "raw"}
      /\ UNCHANGED <<objects, raw>> /\ thread' = [thread EXCEPT ![r] = t2]
      /\ torn' = TRUE \/ torn' = torn
  BY DEF Fail, Running, Go, store, Inv, Types
<1>2. t.pc \notin Over
  BY <1>1 DEF Over
<1>3. t \in Thread
  BY <1>2, Active
<1>4. t2.adds = t.adds /\ t2.removes = t.removes /\ t2.pc \notin Over
  <2> HIDE DEF t
  <2> QED BY <1>3 DEF Thread, Over
<1> HIDE DEF t2
<1>5. /\ AskedBy(CurrentThread', Current') = AskedBy(CurrentThread, Current)
      /\ AskedBy(CurrentThread, Current) # NothingAsked
  BY <1>1, <1>2, <1>4, RequestStays
<1>6. CASE torn' = TRUE
  BY <1>1, <1>5, <1>6, LibraryBreak
<1>7. CASE torn' = torn
  <2>1. ShownFiles(objects') = ShownFiles(objects)
    BY <1>1
  <2> QED BY <1>1, <1>5, <1>7, <2>1, LibraryStutters
<1> QED
  BY <1>1, <1>6, <1>7

(* The request ends; a bucket that is whole again shows what it holds.     *)
LEMMA WholeShowsHeld ==
  ASSUME NEW n \in 0 .. MaxRequests, NEW o, Objects(o, n), NEW w, Whole(o, w)
  PROVE  ShownFiles(o) = HeldOf(w)
<1>1. CASE w = NoFiles /\ o = NoObjects
  <2>1. Archive(o) = Absent /\ DOMAIN w = {}
    BY <1>1, NoObjectsTypes DEF Archive, Key, NoFiles
  <2> QED BY <2>1 DEF ShownFiles, Shown, HeldOf
<1>2. CASE IsPublication(o, w)
  <2>1. \A f, v : v \in Shown(Archive(o), f) <=> f \in DOMAIN w /\ v = w[f]
    BY <1>2, PublicationShows
  <2>2. \A f \in File : Shown(Archive(o), f) = IF f \in DOMAIN w THEN {w[f]} ELSE {}
    BY <2>1
  <2> QED BY <2>2 DEF ShownFiles, HeldOf
<1> QED
  BY <1>1, <1>2 DEF Whole

LEMMA SettleRefines ==
  ASSUME Inv, NEW r \in Request, Settle(r), thread[r].pc \in {"done", "refused", "failed"}
  PROVE  Library!End
<1> DEFINE t == thread[r]
           t2 == IF t.pc = "done" THEN NoThread
                 ELSE [t EXCEPT !.pc = "given up", !.names = {}, !.got = NoObjects, !.left = {}]
<1>1. /\ thread' = [thread EXCEPT ![r] = t2] /\ UNCHANGED <<objects, raw>>
      /\ torn' = (torn /\ ~(t.pc = "done" /\ FromNothing(t)))
  BY DEF Settle, store
<1>2. t.pc \notin Over
  BY DEF Over
<1>3. t \in Thread /\ Good(t, r, objects, raw, torn)
  BY <1>2, Active
<1>4. t2.pc \in Over /\ t2.pc \in {"none", "given up"} /\ t2.got = NoObjects
  <2> HIDE DEF t
  <2>1. CASE t.pc = "done"
    BY <2>1 DEF NoThread, Over
  <2>2. CASE t.pc # "done"
    BY <1>3, <2>2 DEF Thread, Over
  <2> QED BY <2>1, <2>2
<1> HIDE DEF t2
<1>5. /\ AskedBy(CurrentThread, Current) # NothingAsked
      /\ AskedBy(CurrentThread', Current') = NothingAsked
  BY <1>1, <1>2, <1>4, RequestEnds
<1>6. ASSUME torn' # torn
      PROVE  torn' = FALSE /\ ShownFiles(objects) = HeldOf(raw)
  <2>1. torn' = FALSE /\ torn = TRUE
    BY <1>1, <1>6 DEF Inv, Types
  <2>2. Settles(t, t2, torn, torn')
    BY <1>1, <1>4 DEF Settles
  <2>3. Good(t2, r, objects, raw, torn')
    <3> HIDE DEF t
    <3> QED BY <1>3, <2>2, SettleKeeps
  <2>4. Rests(t2)
    BY <1>4 DEF Rests
  <2>5. Whole(objects, raw) /\ Objects(objects, r)
    BY <2>1, <2>3, <2>4 DEF Good, ThreadOK, ObjectsOK
  <2>6. r \in 0 .. MaxRequests
    BY PublishAssumption DEF Request
  <2> QED BY <2>1, <2>5, <2>6, WholeShowsHeld
<1> QED
  BY <1>1, <1>5, <1>6, LibraryEnd

LEMMA LibraryStep ==
  ASSUME Inv, [Next]_vars, Serial'
  PROVE  Library!Serve \/ UNCHANGED Library!fileVars
<1>1. CASE Upload
  <2>1. PICK files \in (SUBSET File) \ {{}} :
          \E adds \in SetToSeqs(files) : Start(asked + 1, adds, {})
    BY <1>1 DEF Upload
  <2>2. PICK adds \in SetToSeqs(files) : Start(asked + 1, adds, {})
    BY <2>1
  <2>3. IsUpload(adds) /\ adds # <<>>
    BY <2>1, <2>2, SetsAreUploads
  <2> QED BY <1>1, <2>2, <2>3, StartRefines DEF Upload, Library!Serve
<1>2. CASE RemoveFile
  <2>1. PICK f \in rows.raw : Start(asked + 1, <<>>, {f})
    BY <1>2 DEF RemoveFile
  <2>2. {f} \in SUBSET File
    BY <2>1 DEF Inv, Types
  <2>3. IsUpload(<<>>)
    BY CountType DEF IsUpload
  <2> QED BY <1>2, <2>1, <2>2, <2>3, StartRefines DEF RemoveFile, Library!Serve
<1>3. ASSUME NEW r \in Request, Replace(r) \/ Refused(r) \/ Discard(r) PROVE Library!Serve
  BY <1>3, SettleRefines DEF Replace, Refused, Discard, Library!Serve
<1>4. ASSUME NEW r \in Request, List(r) \/ Load(r) \/ Build(r) PROVE UNCHANGED Library!fileVars
  BY <1>4, PreparesRefines
<1>5. ASSUME NEW r \in Request, Put(r) \/ Clear(r) \/ StoreRaw(r) \/ Fail(r)
      PROVE  Library!Serve \/ UNCHANGED Library!fileVars
  BY <1>5, PutRefines, ClearRefines, StoreRawRefines, FailRefines DEF Library!Serve
<1>6. ASSUME (\E r \in Request : TimeOut(r)) \/ BeginRead \/ Read \/ ReadFails \/ UNCHANGED vars
      PROVE  UNCHANGED Library!fileVars
  <2>1. UNCHANGED <<objects, raw, thread, torn>>
    BY <1>6 DEF TimeOut, BeginRead, Read, ReadFails, vars, store
  <2>2. AskedBy(CurrentThread', Current') = AskedBy(CurrentThread, Current)
    BY <2>1, CurrentNow
  <2>3. ShownFiles(objects') = ShownFiles(objects)
    BY <2>1
  <2> QED BY <2>1, <2>2, <2>3, LibraryStutters
<1> QED
  BY <1>1, <1>2, <1>3, <1>4, <1>5, <1>6 DEF Next

LEMMA LibraryBegins == Init => Library!LibraryInit
<1> SUFFICES ASSUME Init PROVE Library!LibraryInit
  OBVIOUS
<1>1. objects = NoObjects /\ DOMAIN raw = {} /\ torn = FALSE
  BY DEF Init
<1>2. Archive(objects) = Absent
  BY <1>1, NoObjectsTypes DEF Archive, Key
<1>3. \A r \in Request : thread[r].pc \in Over
  BY DEF Init, NoThread, Over
<1>4. CurrentIn(thread) = 0 /\ ThreadIn(thread) = NoThread
  BY <1>3, NoCurrent
<1>5. AskedBy(CurrentThread, Current) = NothingAsked
  BY <1>4, CurrentNow, NothingIsAsked
<1>6. Serial = TRUE
  BY DEF Init, Serial
<1> QED
  BY <1>1, <1>2, <1>5, <1>6 DEF Library!LibraryInit, Library!NoRequest, AskedBy, NothingAsked, Archive

(* The service keeps the promise of the abstract library: whatever fails   *)
(* or comes too late, files that a request does not name are not touched,  *)
(* an original is kept only when its version is shown, and the files shown *)
(* are the files held whenever the damage is over.                         *)
THEOREM PublishImplementsLibrary == Spec => ImplementsLibrary
<1>1. Init => Library!LibraryInit
  BY LibraryBegins
<1>2. SerialInv /\ [Next]_vars => [Library!LibraryNext]_(Library!libraryVars)
  <2> SUFFICES ASSUME SerialInv, [Next]_vars, Serial'
               PROVE  [Library!LibraryNext]_(Library!libraryVars)
    BY DEF Library!LibraryNext
  <2>1. Serial
    BY SerialBefore
  <2>2. Library!Serve \/ UNCHANGED Library!fileVars
    BY <2>1, LibraryStep DEF SerialInv
  <2>3. Serial' = Serial
    BY <2>1, Zenon DEF Serial
  <2> QED BY <2>1, <2>2, <2>3, Zenon DEF Library!LibraryNext, Library!libraryVars
<1> QED
  BY <1>1, <1>2, PublishInv, PTL DEF Spec, ImplementsLibrary, Library!LibrarySpec

=============================================================================
