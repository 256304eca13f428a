--------------------------- MODULE ReadingProofs ---------------------------
(***************************************************************************)
(* Reading a file that is stored in pieces, for any sizes of the pieces.   *)
(* The segments of a post: who waited for a fetch finds what was fetched,  *)
(* and zeros are sent for nothing that is there.  A range of a file, of an *)
(* encrypted one, of a zip: the answer is that part of the whole.  A file  *)
(* in the volumes of an archive: what is read is the file.                 *)
(***************************************************************************)
EXTENDS SegmentReader, StreamRanges, RarVolumes, FiniteSetTheorems, FunctionTheorems, SequenceTheorems,
        WellFoundedInduction, TLAPS

-----------------------------------------------------------------------------
(* What the proofs need of numbers.                                        *)

LEMMA LeastOf ==
  ASSUME NEW S, S \subseteq Nat, S # {}
  PROVE  \E n \in S : \A k \in S : n <= k
  <1>1. PICK x \in S : \A y \in S : ~(<<y, x>> \in OpToRel(<, Nat))
    BY WFMin, NatLessThanWellFounded
  <1>2. \A y \in S : ~(y < x)
    BY <1>1 DEF OpToRel
  <1> QED
    BY <1>2

-----------------------------------------------------------------------------
(* Where the segments lie.                                                 *)

\* The bytes of the segments before j, one unit each.
BytesBefore(j) == UNION {{i} \X (1 .. RealSize[i]) : i \in 0 .. j - 1}

LEMMA SegNats ==
  /\ Parts \in Nat \ {0} /\ CacheMost \in Nat /\ Ahead \in Nat /\ RunMost \in Nat /\ PadMost \in Nat
  /\ \A i \in Part : RealSize[i] \in Nat \ {0} /\ NzbSize[i] \in Nat \ {0}
  /\ \A i \in Part : i < Parts - 1 => RealSize[0] <= RealSize[i]
  /\ IsFiniteSet(Fetcher) /\ Cardinality(Fetcher) \in Nat /\ Cardinality(Fetcher) <= CacheMost
  /\ ReadLens \subseteq Nat /\ LostSets \subseteq SUBSET Part
  <1>1. CacheMost \in Nat /\ Ahead \in Nat /\ RunMost \in Nat /\ PadMost \in Nat
    BY SegmentAssumption
  <1>2. IsFiniteSet(Fetcher) /\ Cardinality(Fetcher) \in Nat
    BY SegmentAssumption, FS_CardinalityType
  <1> QED
    BY <1>1, <1>2, SegmentAssumption, SegmentSizes

LEMMA OneSegment ==
  ASSUME NEW i \in Part
  PROVE  /\ IsFiniteSet({i} \X (1 .. RealSize[i]))
         /\ Cardinality({i} \X (1 .. RealSize[i])) = RealSize[i]
  <1> DEFINE n == RealSize[i]
  <1>1. n \in Nat
    BY SegNats
  <1> HIDE DEF n
  <1>2. IsFiniteSet(1 .. n) /\ Cardinality(1 .. n) = n
    <2>1. 1 \in Int /\ n \in Int
      BY <1>1
    <2>2. IsFiniteSet(1 .. n) /\ Cardinality(1 .. n) = IF 1 > n THEN 0 ELSE n - 1 + 1
      BY <2>1, FS_Interval
    <2> QED
      BY <1>1, <2>2
  <1>3. IsFiniteSet({i}) /\ Cardinality({i}) = 1
    BY FS_Singleton
  <1>4. IsFiniteSet({i} \X (1 .. n)) /\ Cardinality({i} \X (1 .. n)) = 1 * n
    BY <1>2, <1>3, FS_Product
  <1> QED
    BY <1>1, <1>4 DEF n

LEMMA BytesFinite ==
  ASSUME NEW j \in 0 .. Parts
  PROVE  IsFiniteSet(BytesBefore(j)) /\ Cardinality(BytesBefore(j)) \in Nat
  <1> DEFINE S == 0 .. j - 1
             f == [i \in S |-> {i} \X (1 .. RealSize[i])]
             Sets == {{i} \X (1 .. RealSize[i]) : i \in S}
  <1>1. IsFiniteSet(S)
    <2>1. 0 \in Int /\ j - 1 \in Int
      BY SegNats
    <2> QED
      BY <2>1, FS_Interval
  <1>2. f \in Surjection(S, Sets)
    BY DEF Surjection
  <1>3. IsFiniteSet(Sets)
    <2> HIDE DEF f, Sets, S
    <2> QED
      BY <1>1, <1>2, FS_Surjection
  <1>4. \A A \in Sets : IsFiniteSet(A)
    <2>1. \A i \in S : i \in Part
      BY SegNats DEF Part
    <2> QED
      BY <2>1, OneSegment
  <1>5. IsFiniteSet(UNION Sets)
    <2> HIDE DEF Sets
    <2> QED
      BY <1>3, <1>4, FS_UNION
  <1> QED
    BY <1>5, FS_CardinalityType DEF BytesBefore

LEMMA OneSegmentMore ==
  ASSUME NEW i \in Part
  PROVE  Cardinality(BytesBefore(i + 1)) = Cardinality(BytesBefore(i)) + RealSize[i]
  <1> DEFINE A == {i} \X (1 .. RealSize[i])
             B == BytesBefore(i)
  <1>0. i \in Nat /\ i \in 0 .. Parts
    BY SegNats DEF Part
  <1>1. BytesBefore(i + 1) = A \cup B
    <2>1. 0 .. (i + 1) - 1 = (0 .. i - 1) \cup {i}
      BY <1>0
    <2> QED
      BY <2>1 DEF BytesBefore
  <1>2. A \cap B = {}
    <2>1. i \notin 0 .. i - 1
      BY <1>0
    <2> QED
      BY <2>1 DEF BytesBefore
  <1>3. IsFiniteSet(A) /\ Cardinality(A) = RealSize[i] /\ RealSize[i] \in Nat
    BY OneSegment, SegNats
  <1>4. IsFiniteSet(B) /\ Cardinality(B) \in Nat
    BY <1>0, BytesFinite
  <1> HIDE DEF A, B
  <1>5. Cardinality(A \cup B) = Cardinality(A) + Cardinality(B) - Cardinality(A \cap B)
    BY <1>3, <1>4, FS_Union
  <1>6. Cardinality(A \cap B) = 0
    BY <1>2, FS_EmptySet
  <1>7. Cardinality(A \cup B) = Cardinality(B) + RealSize[i]
    BY <1>3, <1>4, <1>5, <1>6
  <1> QED
    BY <1>1, <1>7 DEF B

\* Such a table of offsets exists, so the one that Off takes is one.
IsTable(g) == g = [j \in 0 .. Parts |-> IF j = 0 THEN 0 ELSE g[j - 1] + RealSize[j - 1]]

LEMMA OffFacts ==
  /\ Off(0) = 0
  /\ \A i \in Part : Off(i + 1) = Off(i) + RealSize[i]
  <1> DEFINE g == [j \in 0 .. Parts |-> Cardinality(BytesBefore(j))]
  <1>1. IsTable(g)
    <2>1. ASSUME NEW j \in 0 .. Parts
          PROVE  g[j] = IF j = 0 THEN 0 ELSE g[j - 1] + RealSize[j - 1]
      <3>1. CASE j = 0
        <4>1. BytesBefore(0) = {}
          <5>1. 0 .. 0 - 1 = {}
            OBVIOUS
          <5> QED
            BY <5>1 DEF BytesBefore
        <4> QED
          BY <3>1, <4>1, FS_EmptySet, SegNats
      <3>2. CASE j # 0
        <4>1. j - 1 \in Part /\ j - 1 \in 0 .. Parts /\ (j - 1) + 1 = j
          BY <3>2, SegNats DEF Part
        <4>2. Cardinality(BytesBefore((j - 1) + 1)) = Cardinality(BytesBefore(j - 1)) + RealSize[j - 1]
          BY <4>1, OneSegmentMore
        <4> QED
          BY <3>2, <4>1, <4>2
      <3> QED
        BY <3>1, <3>2
    <2>2. g = [j \in 0 .. Parts |-> g[j]]
      OBVIOUS
    <2> HIDE DEF g
    <2> QED
      BY <2>1, <2>2 DEF IsTable
  <1> HIDE DEF g
  <1> DEFINE h == CHOOSE x : IsTable(x)
  <1>2. IsTable(h)
    BY <1>1
  <1>3. \A i : Off(i) = h[i]
    BY DEF Off, IsTable
  <1> HIDE DEF h
  <1>4. 0 \in 0 .. Parts /\ h[0] = 0
    BY <1>2, SegNats DEF IsTable
  <1>5. ASSUME NEW i \in Part PROVE h[i + 1] = h[i] + RealSize[i]
    <2>1. i + 1 \in 0 .. Parts /\ i + 1 # 0 /\ (i + 1) - 1 = i
      BY SegNats DEF Part
    <2>2. h[i + 1] = h[(i + 1) - 1] + RealSize[(i + 1) - 1]
      BY <1>2, <2>1 DEF IsTable
    <2> QED
      BY <2>1, <2>2
  <1> QED
    BY <1>3, <1>4, <1>5

LEMMA OffNat == \A i \in 0 .. Parts : Off(i) \in Nat
  <1> DEFINE Bad == {i \in 0 .. Parts : Off(i) \notin Nat}
  <1> SUFFICES ASSUME Bad # {} PROVE FALSE
    OBVIOUS
  <1>1. Bad \subseteq Nat
    BY SegNats
  <1>2. PICK n \in Bad : \A k \in Bad : n <= k
    <2> HIDE DEF Bad
    <2> QED
      BY <1>1, LeastOf
  <1>3. n # 0
    BY OffFacts
  <1>4. n - 1 \in Part /\ n - 1 \in 0 .. Parts /\ (n - 1) + 1 = n
    BY <1>2, <1>3, SegNats DEF Part
  <1>5. Off(n - 1) \in Nat
    BY <1>1, <1>2, <1>4
  <1>6. Off(n) = Off(n - 1) + RealSize[n - 1] /\ RealSize[n - 1] \in Nat
    BY <1>4, OffFacts, SegNats
  <1> QED
    BY <1>2, <1>5, <1>6

\* Between the beginnings of two segments every byte is in a segment.
LEMMA ByteIsIn ==
  ASSUME NEW k \in 0 .. Parts, NEW m \in 0 .. Parts, NEW off \in Nat, Off(k) <= off, off < Off(m), k <= m
  PROVE  \E i \in k .. (m - 1) : Off(i) <= off /\ off < Off(i + 1)
  <1> DEFINE Past == {n \in k .. m : off < Off(n)}
  <1>1. Past \subseteq Nat /\ m \in Past
    BY SegNats
  <1>2. PICK n \in Past : \A j \in Past : n <= j
    <2> HIDE DEF Past
    <2> QED
      BY <1>1, LeastOf
  <1>3. n # k /\ n \in k .. m
    BY <1>2, OffNat
  <1>4. n - 1 \in k .. (m - 1) /\ (n - 1) + 1 = n /\ n - 1 \in k .. m
    BY <1>3
  <1>5. n - 1 \notin Past
    BY <1>1, <1>2, <1>4
  <1>6. ~(off < Off(n - 1)) /\ Off(n - 1) \in Nat
    <2>1. n - 1 \in 0 .. Parts
      BY <1>4, SegNats
    <2> QED
      BY <1>4, <1>5, <2>1, OffNat
  <1> QED
    BY <1>2, <1>4, <1>6

-----------------------------------------------------------------------------
(* The invariant of the reader.                                            *)

SegChunk == [begin : Nat, end : Nat, hole : BOOLEAN]
Waiting  == [seg : Part, size : Nat]
Seeking  == {"seg", "wait", "fetch", "woken", "hole", "have"}
ReaderPc == Seeking \cup {"closed", "idle", "first", "guess", "pad", "prefetch"}
ReaderSet ==
  [pc : ReaderPc, seg : Int, stack : Seq(Waiting), rounds : Nat, failed : BOOLEAN, chunk : SegChunk]

WorkerTypes ==
  /\ worker \in [Fetcher -> [seg : Int, does : {"free", "start", "fetch", "wait"}]]
  /\ \A f \in Fetcher : worker[f].does # "free" => worker[f].seg \in Part

SegTypes ==
  /\ lost \subseteq Part
  /\ chunks \in [Part -> SegChunk]
  /\ order \in Seq(Part) /\ Len(order) <= CacheMost
  /\ typ \in {0, RealSize[0]}
  /\ padTotal \in Nat
  /\ readAt \in ReaderSet
  /\ errand \in [what : {"none", "read", "size"}, off : Nat, stop : Nat]
  /\ WorkerTypes

\* Where the reader is, and what it may have found there.
SegPlace ==
  /\ readAt.pc \in Seeking \cup {"pad"} => readAt.seg \in Part /\ errand.what \in {"read", "size"}
  /\ readAt.pc \in {"hole", "pad"} => readAt.seg \in lost
  /\ readAt.pc = "woken" /\ readAt.failed => readAt.seg \in lost
  /\ readAt.pc = "pad" => readAt.seg = 0 /\ readAt.stack # <<>>
  /\ readAt.pc \notin Seeking \cup {"pad"} => readAt.stack = <<>>
  /\ readAt.pc \in {"first", "guess"} => errand.what = "read"
  /\ readAt.pc = "prefetch" => readAt.seg \in Nat
  /\ readAt.pc = "closed" => order = <<>> /\ typ = 0 /\ \A f \in Fetcher : worker[f].does = "free"

\* The goroutines that may still store a chunk.
Storing == {f \in Fetcher : worker[f].does \in {"start", "fetch"}}

\* The chunk the reader was woken for has been stored since the reader began to wait, and too
\* few goroutines are left to push it out of the cache.
StillCached(i, seq, most) ==
  \E p \in 1 .. Len(seq) : seq[p] = i /\ Len(seq) - p + most < Cardinality(Fetcher)

FreshInv == readAt.pc = "woken" /\ ~readAt.failed => StillCached(readAt.seg, order, Cardinality(Storing))

CachedHoles == {i \in Part : Cached(i) /\ chunks[i].hole}

CountInv == Cardinality(CachedHoles) <= padTotal /\ Cardinality(CachedHoles) <= PadMost

\* A chunk is where the segment is; a hole is between the holes before it and its own end,
\* unless everything from it on is lost.
GoodHole(i, c) ==
  /\ c.begin <= c.end
  /\ \E k \in 1 .. i : /\ k .. i \subseteq lost /\ Off(k) <= c.begin
                       /\ c.end <= Off(i + 1) \/ i .. (Parts - 1) \subseteq lost
Good(i, c) == IF c.hole THEN GoodHole(i, c) ELSE c.begin = Off(i) /\ c.end = Off(i + 1)

ChunkInv ==
  /\ \A i \in Part : Cached(i) => Good(i, chunks[i])
  /\ readAt.pc = "have" => Good(readAt.seg, readAt.chunk)
  /\ Cached(0) => typ # 0
  /\ readAt.pc = "have" /\ typ = 0 => readAt.seg # 0

\* The holes that wait: each for the segment before it.
TrailOf(stack, at) ==
  \A n \in 1 .. Len(stack) :
    /\ stack[n].seg = at + (Len(stack) - n) + 1 /\ stack[n].seg \in lost
    /\ stack[n].size = RealSize[0] \/ stack[n].seg .. (Parts - 1) \subseteq lost

\* Before the first segment is there, a reader looks for it, or comes from the end.
EarlyInv ==
  typ = 0 =>
    /\ readAt.pc \notin {"guess", "prefetch"}
    /\ readAt.pc \in Seeking /\ errand.what = "read" => readAt.seg = 0
    /\ readAt.pc \in Seeking /\ errand.what = "size" => (readAt.seg + 1) .. (Parts - 1) \subseteq lost

\* With the first article there: its size is what every hole is made of.
FirstInv == 0 \notin lost => ChunkInv /\ EarlyInv /\ (readAt.pc \in Seeking => TrailOf(readAt.stack, readAt.seg))

SegIInv == SegTypes /\ SegPlace /\ FreshInv /\ CountInv /\ FirstInv

-----------------------------------------------------------------------------
(* The cache.                                                              *)

LEMMA StoreOrder ==
  ASSUME SegTypes, NEW i \in Part, NEW c, Store(i, c)
  PROVE  /\ order' \in Seq(Part) /\ Len(order') <= CacheMost
         /\ \/ Len(order') = Len(order) + 1 /\ \A p \in 1 .. Len(order') : order'[p] = Append(order, i)[p]
            \/ /\ Len(order) = CacheMost /\ Len(order') = CacheMost
               /\ \A p \in 1 .. Len(order') : order'[p] = Append(order, i)[p + 1]
  <1> DEFINE longer == Append(order, i)
  <1>0. order \in Seq(Part)
    BY DEF SegTypes
  <1>1. longer \in Seq(Part) /\ Len(longer) = Len(order) + 1 /\ longer # <<>> /\ CacheMost \in Nat
    BY <1>0, AppendProperties, SegNats
  <1>2. order' = IF Len(longer) > CacheMost THEN Tail(longer) ELSE longer
    BY DEF Store
  <1>3. Len(order) <= CacheMost /\ Len(order) \in Nat
    BY DEF SegTypes
  <1> HIDE DEF longer
  <1>4. CASE Len(longer) > CacheMost
    <2>1. order' = Tail(longer)
      BY <1>2, <1>4
    <2>2. /\ Tail(longer) \in Seq(Part) /\ Len(Tail(longer)) = Len(longer) - 1
          /\ \A p \in 1 .. Len(Tail(longer)) : Tail(longer)[p] = longer[p + 1]
      BY <1>1
    <2>3. Len(order) = CacheMost
      BY <1>1, <1>3, <1>4
    <2>4. /\ order' \in Seq(Part) /\ Len(order') = CacheMost
          /\ \A p \in 1 .. Len(order') : order'[p] = longer[p + 1]
      BY <1>1, <2>1, <2>2, <2>3
    <2> QED
      BY <1>1, <2>3, <2>4 DEF longer
  <1>5. CASE ~(Len(longer) > CacheMost)
    <2>1. order' = longer
      BY <1>2, <1>5
    <2> QED
      BY <1>1, <1>3, <1>5, <2>1 DEF longer
  <1> QED
    BY <1>4, <1>5

\* What is cached after it was cached before, or has just been stored.
LEMMA StoreChunks ==
  ASSUME SegTypes, NEW i \in Part, NEW c \in SegChunk, Store(i, c)
  PROVE  /\ chunks' \in [Part -> SegChunk]
         /\ \A j \in Part : Cached(j)' => (j = i \/ Cached(j)) /\ chunks'[j] = IF j = i THEN c ELSE chunks[j]
  <1> DEFINE longer == Append(order, i)
  <1>0. Absent \in SegChunk
    BY DEF Absent, SegChunk
  <1>1. chunks' = [j \in Part |-> IF j \notin ToSet(order') THEN Absent ELSE IF j = i THEN c ELSE chunks[j]]
    BY DEF Store
  <1>2. chunks' \in [Part -> SegChunk]
    BY <1>0, <1>1 DEF SegTypes
  <1>3. ASSUME NEW j \in Part, Cached(j)' PROVE j = i \/ Cached(j)
    <2>1. PICK p \in DOMAIN order' : order'[p] = j
      BY <1>3 DEF Cached, ToSet
    <2>2. /\ order \in Seq(Part) /\ Len(order) \in Nat /\ DOMAIN order = 1 .. Len(order)
          /\ Len(longer) = Len(order) + 1
          /\ \A q \in 1 .. Len(order) + 1 : longer[q] = IF q = Len(order) + 1 THEN i ELSE order[q]
      <3>1. order \in Seq(Part)
        BY DEF SegTypes
      <3>2. /\ Len(longer) = Len(order) + 1 /\ longer[Len(order) + 1] = i
            /\ \A q \in 1 .. Len(order) : longer[q] = order[q]
        BY <3>1, AppendProperties
      <3>3. Len(order) \in Nat /\ DOMAIN order = 1 .. Len(order)
        BY <3>1, LenProperties
      <3> HIDE DEF longer
      <3> QED
        BY <3>1, <3>2, <3>3
    <2>3. order' \in Seq(Part) /\ DOMAIN order' = 1 .. Len(order') /\ Len(order') \in Nat
      BY StoreOrder
    <2> HIDE DEF longer
    <2>4. PICK q \in 1 .. Len(order) + 1 : order'[p] = longer[q]
      <3>1. CASE Len(order') = Len(order) + 1 /\ \A r \in 1 .. Len(order') : order'[r] = longer[r]
        BY <2>1, <2>2, <2>3, <3>1
      <3>2. CASE Len(order) = Len(order') /\ \A r \in 1 .. Len(order') : order'[r] = longer[r + 1]
        <4>1. p + 1 \in 1 .. Len(order) + 1
          BY <2>1, <2>2, <2>3, <3>2
        <4> QED
          BY <2>1, <2>3, <3>2, <4>1
      <3> QED
        BY <3>1, <3>2, StoreOrder DEF longer
    <2>5. CASE q = Len(order) + 1
      BY <2>1, <2>2, <2>4, <2>5
    <2>6. CASE q # Len(order) + 1
      <3>1. q \in DOMAIN order /\ order[q] = j
        BY <2>1, <2>2, <2>4, <2>6
      <3> QED
        BY <3>1 DEF Cached, ToSet
    <2> QED
      BY <2>5, <2>6
  <1>4. ASSUME NEW j \in Part, Cached(j)' PROVE chunks'[j] = IF j = i THEN c ELSE chunks[j]
    BY <1>1, <1>4 DEF Cached
  <1> QED
    BY <1>2, <1>3, <1>4

LEMMA HolesFinite ==
  ASSUME NEW S \in SUBSET Part
  PROVE  IsFiniteSet(S) /\ Cardinality(S) \in Nat
  <1>1. IsFiniteSet(Part)
    <2>1. 0 \in Int /\ Parts - 1 \in Int
      BY SegNats
    <2> QED
      BY <2>1, FS_Interval DEF Part
  <1>2. IsFiniteSet(S)
    BY <1>1, FS_Subset
  <1> QED
    BY <1>2, FS_CardinalityType

\* A chunk of data adds no hole to those in the cache, a hole one at most.
LEMMA StoreCounts ==
  ASSUME SegTypes, NEW i \in Part, NEW c \in SegChunk, Store(i, c)
  PROVE  /\ Cardinality(CachedHoles') <= Cardinality(CachedHoles) + 1
         /\ ~c.hole => Cardinality(CachedHoles') <= Cardinality(CachedHoles)
  <1>1. CachedHoles \in SUBSET Part /\ CachedHoles' \in SUBSET Part
    BY DEF CachedHoles
  <1>2. \A j \in CachedHoles' : j \in CachedHoles \/ (j = i /\ c.hole)
    BY StoreChunks DEF CachedHoles
  <1>3. /\ IsFiniteSet(CachedHoles) /\ Cardinality(CachedHoles) \in Nat
        /\ IsFiniteSet(CachedHoles') /\ Cardinality(CachedHoles') \in Nat
    BY <1>1, HolesFinite
  <1>4. CASE ~c.hole
    <2>1. CachedHoles' \subseteq CachedHoles
      BY <1>2, <1>4
    <2>2. Cardinality(CachedHoles') <= Cardinality(CachedHoles)
      BY <1>3, <2>1, FS_Subset
    <2> QED
      BY <1>3, <2>2
  <1>5. CASE c.hole
    <2>1. CachedHoles' \subseteq CachedHoles \cup {i}
      BY <1>2
    <2>2. IsFiniteSet(CachedHoles \cup {i}) /\ Cardinality(CachedHoles \cup {i})
            = IF i \in CachedHoles THEN Cardinality(CachedHoles) ELSE Cardinality(CachedHoles) + 1
      BY <1>3, FS_AddElement
    <2>3. Cardinality(CachedHoles') <= Cardinality(CachedHoles \cup {i})
      BY <2>1, <2>2, FS_Subset
    <2> QED
      BY <1>3, <1>5, <2>2, <2>3
  <1> QED
    BY <1>4, <1>5

\* A goroutine that stores its chunk is one less to store another.
LEMMA StoreFresh ==
  ASSUME SegTypes, NEW i \in Part, NEW c, Store(i, c), NEW j \in Part,
         NEW n \in Nat, NEW m \in Nat, m + 1 <= n, StillCached(j, order, n)
  PROVE  StillCached(j, order', m)
  <1>0. CacheMost \in Nat /\ Cardinality(Fetcher) \in Nat /\ Cardinality(Fetcher) <= CacheMost
    BY SegNats
  <1>1. /\ order \in Seq(Part) /\ Len(order) \in Nat
        /\ \A q \in 1 .. Len(order) : Append(order, i)[q] = order[q]
    BY DEF SegTypes
  <1>2. order' \in Seq(Part) /\ Len(order') \in Nat
    BY StoreOrder
  <1>3. PICK p \in 1 .. Len(order) : order[p] = j /\ Len(order) - p + n < Cardinality(Fetcher)
    BY DEF StillCached
  <1>4. CASE Len(order') = Len(order) + 1 /\ \A q \in 1 .. Len(order') : order'[q] = Append(order, i)[q]
    <2>1. p \in 1 .. Len(order') /\ order'[p] = j
      BY <1>1, <1>2, <1>3, <1>4
    <2>2. Len(order') - p + m < Cardinality(Fetcher)
      BY <1>0, <1>1, <1>2, <1>3, <1>4
    <2> QED
      BY <2>1, <2>2 DEF StillCached
  <1>5. CASE /\ Len(order) = CacheMost /\ Len(order') = CacheMost
             /\ \A q \in 1 .. Len(order') : order'[q] = Append(order, i)[q + 1]
    <2>1. p - 1 \in 1 .. Len(order') /\ (p - 1) + 1 = p
      BY <1>0, <1>1, <1>2, <1>3, <1>5
    <2>2. order'[p - 1] = Append(order, i)[(p - 1) + 1]
      BY <1>5, <2>1
    <2>3. order'[p - 1] = j
      BY <1>1, <1>3, <2>1, <2>2
    <2>4. Len(order') - (p - 1) + m < Cardinality(Fetcher)
      BY <1>0, <1>1, <1>2, <1>3, <1>5
    <2> QED
      BY <2>1, <2>3, <2>4 DEF StillCached
  <1> QED
    BY <1>4, <1>5, StoreOrder

\* What has just been stored is the last of the cache.
LEMMA StoreNew ==
  ASSUME SegTypes, NEW i \in Part, NEW c, Store(i, c), NEW m \in Nat, m < Cardinality(Fetcher)
  PROVE  StillCached(i, order', m)
  <1>0. CacheMost \in Nat /\ Cardinality(Fetcher) \in Nat /\ Cardinality(Fetcher) <= CacheMost
    BY SegNats
  <1>1. order \in Seq(Part) /\ Len(order) \in Nat /\ Append(order, i)[Len(order) + 1] = i
    BY DEF SegTypes
  <1>2. order' \in Seq(Part) /\ Len(order') \in Nat
    BY StoreOrder
  <1>3. Len(order') \in 1 .. Len(order') /\ order'[Len(order')] = i
    <2>1. CASE Len(order') = Len(order) + 1 /\ \A q \in 1 .. Len(order') : order'[q] = Append(order, i)[q]
      BY <1>1, <1>2, <2>1
    <2>2. CASE /\ Len(order) = CacheMost /\ Len(order') = CacheMost
               /\ \A q \in 1 .. Len(order') : order'[q] = Append(order, i)[q + 1]
      <3>1. CacheMost \in 1 .. Len(order')
        BY <1>0, <2>2
      <3> QED
        BY <1>1, <2>2, <3>1
    <2> QED
      BY <2>1, <2>2, StoreOrder
  <1>4. Len(order') - Len(order') + m < Cardinality(Fetcher)
    BY <1>0, <1>2
  <1> QED
    BY <1>3, <1>4 DEF StillCached

LEMMA FreshIsCached ==
  ASSUME SegTypes, NEW i, NEW m \in Nat, StillCached(i, order, m)
  PROVE  Cached(i)
  BY DEF SegTypes, StillCached, Cached, ToSet

-----------------------------------------------------------------------------
(* The reader's steps.                                                     *)

LEMMA RestIs ==
  /\ Rest.pc = "idle" /\ Rest.seg = -1 /\ Rest.stack = <<>> /\ NoErrand.what = "none"
  /\ Absent \in SegChunk /\ NoErrand \in [what : {"none", "read", "size"}, off : Nat, stop : Nat]
  /\ Rest \in ReaderSet
  <1>1. Absent \in SegChunk
    BY DEF Absent, SegChunk
  <1>2. <<>> \in Seq(Waiting) /\ "idle" \in ReaderPc /\ FALSE \in BOOLEAN /\ NotYet \in Int
    BY DEF ReaderPc, NotYet
  <1> QED
    BY <1>1, <1>2 DEF Rest, NoErrand, NotYet, ReaderSet

\* A move of the reader that leaves the cache as it is.
LEMMA ReaderMoves ==
  ASSUME SegIInv, UNCHANGED <<lost, chunks, order, typ, padTotal>>, SegTypes', SegPlace', readAt'.pc # "woken",
         0 \notin lost =>
           /\ readAt'.pc = "have" => Good(readAt'.seg, readAt'.chunk) /\ (typ = 0 => readAt'.seg # 0)
           /\ EarlyInv'
           /\ readAt'.pc \in Seeking => TrailOf(readAt'.stack, readAt'.seg)
  PROVE  SegIInv'
  <1>1. FreshInv'
    BY DEF FreshInv
  <1>2. CountInv'
    BY DEF SegIInv, CountInv, CachedHoles, Cached
  <1>3. FirstInv'
    <2> SUFFICES ASSUME 0 \notin lost'
                 PROVE  ChunkInv' /\ EarlyInv' /\ (readAt'.pc \in Seeking => TrailOf(readAt.stack, readAt.seg)')
      BY DEF FirstInv
    <2>1. ChunkInv
      BY DEF SegIInv, FirstInv
    <2>2. /\ \A i \in Part : Cached(i)' <=> Cached(i)
          /\ Cached(0)' <=> Cached(0)
          /\ \A i, c : Good(i, c)' <=> Good(i, c)
      BY DEF Cached, Good, GoodHole
    <2>3. (\A i \in Part : Cached(i) => Good(i, chunks[i]))'
      BY <2>1, <2>2 DEF ChunkInv, Good, GoodHole, Cached
    <2>4. (readAt.pc = "have" => Good(readAt.seg, readAt.chunk))'
      BY DEF Good, GoodHole
    <2>5. ChunkInv'
      BY <2>1, <2>3, <2>4 DEF ChunkInv, Cached
    <2>6. (TrailOf(readAt.stack, readAt.seg))' <=> TrailOf(readAt'.stack, readAt'.seg)
      BY DEF TrailOf
    <2> QED
      BY <2>5, <2>6
  <1> QED
    BY <1>1, <1>2, <1>3 DEF SegIInv

\* The reader elsewhere.
LEMMA ReaderAt ==
  ASSUME NEW r \in ReaderSet, NEW label \in ReaderPc, NEW i \in Int, NEW stack \in Seq(Waiting), NEW n \in Nat,
         NEW c \in SegChunk,
         NEW q, q = [r EXCEPT !.pc = label, !.seg = i, !.stack = stack, !.rounds = n, !.chunk = c]
  PROVE  /\ q \in ReaderSet
         /\ q.pc = label /\ q.seg = i /\ q.stack = stack /\ q.rounds = n /\ q.chunk = c /\ q.failed = r.failed
  BY DEF ReaderSet

LEMMA ReaderHas ==
  ASSUME NEW r \in ReaderSet
  PROVE  /\ r.pc \in ReaderPc /\ r.seg \in Int /\ r.stack \in Seq(Waiting) /\ r.rounds \in Nat
         /\ r.failed \in BOOLEAN /\ r.chunk \in SegChunk
         /\ \A label, i : [r EXCEPT !.pc = label, !.seg = i] =
               [r EXCEPT !.pc = label, !.seg = i, !.stack = r.stack, !.rounds = r.rounds, !.chunk = r.chunk]
  BY DEF ReaderSet

LEMMA GoesIdle ==
  ASSUME SegIInv, UNCHANGED <<lost, chunks, order, typ, padTotal>>, WorkerTypes', readAt' = Rest,
         errand' \in {errand, NoErrand}
  PROVE  SegIInv'
  <1>1. SegTypes'
    BY RestIs DEF SegIInv, SegTypes, WorkerTypes, ReaderSet
  <1>2. SegPlace'
    BY RestIs DEF SegPlace, Seeking
  <1>3. EarlyInv' /\ readAt'.pc = "idle"
    BY RestIs DEF EarlyInv, Seeking
  <1> QED
    BY <1>1, <1>2, <1>3, ReaderMoves DEF Seeking

LEMMA OpenKeeps == ASSUME SegIInv, NEW gone \in LostSets, OpenReader(gone) PROVE SegIInv'
  <1>1. /\ UNCHANGED <<chunks, order, flights, typ, padTotal, errand, worker>> /\ readAt' = Rest
        /\ lost' = gone /\ order = <<>> /\ lost' \subseteq Part
    BY SegNats DEF OpenReader, cacheVars, holeVars, SegIInv, SegPlace
  <1>2. SegTypes'
    BY <1>1, RestIs DEF SegIInv, SegTypes, WorkerTypes, ReaderSet
  <1>3. SegPlace' /\ FreshInv'
    BY <1>1, RestIs DEF SegPlace, FreshInv, Seeking
  <1>4. CountInv'
    BY <1>1 DEF SegIInv, CountInv, CachedHoles, Cached
  <1>5. FirstInv'
    <2>1. \A i : ~Cached(i)'
      BY <1>1 DEF Cached, ToSet
    <2>2. EarlyInv' /\ readAt'.pc = "idle"
      BY <1>1, RestIs DEF EarlyInv, Seeking
    <2> QED
      BY <2>1, <2>2 DEF FirstInv, ChunkInv, Seeking
  <1> QED
    BY <1>2, <1>3, <1>4, <1>5 DEF SegIInv

LEMMA ReadAtKeeps ==
  ASSUME SegIInv, NEW off \in 0 .. TrueSize, NEW len \in ReadLens, ReadAt(off, off + len)
  PROVE  SegIInv'
  <1>0. off \in Nat /\ off + len \in Nat
    BY SegNats, OffNat DEF TrueSize
  <1> DEFINE stop == off + len
             pc0 == IF typ = 0 THEN "first" ELSE "guess"
  <1>1. /\ UNCHANGED <<lost, chunks, order, typ, padTotal, worker>>
        /\ errand' = [what |-> "read", off |-> off, stop |-> stop]
        /\ readAt' = [Rest EXCEPT !.pc = pc0]
    BY DEF ReadAt, cacheVars, holeVars
  <1> HIDE DEF stop
  <1>2. errand' \in [what : {"none", "read", "size"}, off : Nat, stop : Nat] /\ errand'.what = "read"
    BY <1>0, <1>1 DEF stop
  <1>3. /\ readAt'.pc = pc0 /\ readAt'.stack = <<>>
        /\ readAt' \in ReaderSet
    BY <1>1, RestIs DEF ReaderPc, ReaderSet
  <1>4. SegTypes'
    BY <1>1, <1>2, <1>3 DEF SegIInv, SegTypes, WorkerTypes, ReaderSet
  <1>5. SegPlace'
    BY <1>1, <1>2, <1>3 DEF SegPlace, Seeking
  <1>6. EarlyInv'
    BY <1>1, <1>3 DEF EarlyInv, Seeking
  <1> QED
    BY <1>1, <1>3, <1>4, <1>5, <1>6, ReaderMoves DEF Seeking

\* The steps that only send the reader to a segment, with nobody waiting for it.
LEMMA SeeksKeep ==
  ASSUME SegIInv, UNCHANGED <<lost, chunks, order, typ, padTotal, worker>>,
         errand' \in [what : {"read", "size"}, off : Nat, stop : Nat],
         readAt' \in ReaderSet,
         readAt'.pc = "seg", readAt'.seg \in Part, readAt'.stack = <<>>,
         0 \notin lost /\ typ = 0 => IF errand'.what = "read" THEN readAt'.seg = 0 ELSE readAt'.seg = Parts - 1
  PROVE  SegIInv'
  <1>1. SegTypes'
    BY DEF SegIInv, SegTypes, WorkerTypes, ReaderSet
  <1>2. SegPlace'
    BY DEF SegPlace, Seeking
  <1>3. 0 \notin lost => EarlyInv'
    <2> SUFFICES ASSUME 0 \notin lost, typ' = 0 PROVE EarlyInv'
      BY DEF EarlyInv
    <2>1. (Parts - 1) + 1 .. (Parts - 1) = {}
      BY SegNats
    <2> QED
      BY <2>1 DEF EarlyInv
  <1>4. TrailOf(readAt'.stack, readAt'.seg)
    BY DEF TrailOf
  <1> QED
    BY <1>1, <1>2, <1>3, <1>4, ReaderMoves

LEMMA SegSizeKeeps == ASSUME SegIInv, SegSize PROVE SegIInv'
  <1>1. /\ UNCHANGED <<lost, chunks, order, typ, padTotal, worker>>
        /\ errand' = [what |-> "size", off |-> 0, stop |-> 0]
        /\ readAt' = [Rest EXCEPT !.pc = "seg", !.seg = Parts - 1]
    BY DEF SegSize, cacheVars, holeVars
  <1>2. Parts - 1 \in Part /\ Parts - 1 \in Int
    BY SegNats DEF Part
  <1>3. /\ readAt'.pc = "seg" /\ readAt'.seg = Parts - 1 /\ readAt'.stack = <<>>
        /\ readAt' \in ReaderSet
    BY <1>1, <1>2, RestIs DEF ReaderPc, ReaderSet, Seeking
  <1>4. errand' \in [what : {"read", "size"}, off : Nat, stop : Nat] /\ errand'.what = "size"
    BY <1>1
  <1> QED
    BY <1>1, <1>2, <1>3, <1>4, SeeksKeep

LEMMA FirstSegmentKeeps == ASSUME SegIInv, FirstSegment PROVE SegIInv'
  <1>1. /\ UNCHANGED <<lost, chunks, order, typ, padTotal, worker, errand>>
        /\ readAt' = [readAt EXCEPT !.pc = "seg", !.seg = 0]
        /\ readAt.stack = <<>> /\ errand.what = "read"
    BY DEF FirstSegment, cacheVars, holeVars, SegIInv, SegPlace, Seeking
  <1>2. 0 \in Part
    BY SegNats DEF Part
  <1>3. readAt'.pc = "seg" /\ readAt'.seg = 0 /\ readAt'.stack = <<>> /\ readAt' \in ReaderSet
    <2>1. readAt \in ReaderSet /\ "seg" \in ReaderPc /\ 0 \in Int
      BY DEF ReaderPc, Seeking, SegIInv, SegTypes, WorkerTypes, ReaderSet
    <2> QED
      BY <1>1, <2>1 DEF ReaderSet
  <1>4. errand' \in [what : {"read", "size"}, off : Nat, stop : Nat] /\ errand'.what = "read"
    BY <1>1 DEF SegIInv, SegTypes, WorkerTypes, ReaderSet
  <1> QED
    BY <1>1, <1>2, <1>3, <1>4, SeeksKeep

LEMMA GuessKeeps == ASSUME SegIInv, Guess PROVE SegIInv'
  <1> DEFINE guess == IF typ > 0 THEN errand.off \div typ ELSE 0
             to == IF guess >= Parts THEN Parts - 1 ELSE guess
  <1>1. /\ UNCHANGED <<lost, chunks, order, typ, padTotal, worker, errand>>
        /\ readAt' = [readAt EXCEPT !.pc = "seg", !.rounds = 1, !.seg = to]
        /\ readAt.stack = <<>> /\ errand.what = "read" /\ readAt.pc = "guess"
    BY DEF Guess, cacheVars, holeVars, SegIInv, SegPlace, Seeking
  <1>2. guess \in Nat
    <2>1. errand.off \in Nat /\ typ \in Nat
      BY SegNats DEF SegIInv, SegTypes, WorkerTypes, ReaderSet, Part
    <2>2. CASE typ > 0
      BY <2>1, <2>2
    <2>3. CASE ~(typ > 0)
      BY <2>3
    <2> QED
      BY <2>2, <2>3
  <1> HIDE DEF guess
  <1>3. to \in Part /\ to \in Int
    BY <1>2, SegNats DEF Part
  <1> HIDE DEF to
  <1>4. /\ readAt'.pc = "seg" /\ readAt'.seg = to /\ readAt'.stack = <<>>
        /\ readAt' \in ReaderSet
    BY <1>1, <1>3 DEF ReaderPc, Seeking, SegIInv, SegTypes, WorkerTypes, ReaderSet
  <1>5. errand' \in [what : {"read", "size"}, off : Nat, stop : Nat]
    BY <1>1 DEF SegIInv, SegTypes, WorkerTypes, ReaderSet
  <1>6. 0 \notin lost => typ # 0
    BY <1>1 DEF SegIInv, FirstInv, EarlyInv
  <1> QED
    BY <1>1, <1>3, <1>4, <1>5, <1>6, SeeksKeep

\* A step that changes only how far the reader is with its segment.
LEMMA SameSegmentKeeps ==
  ASSUME SegIInv, UNCHANGED <<lost, chunks, order, typ, padTotal, worker, errand>>, readAt.pc \in Seeking,
         NEW label \in Seeking \ {"woken"}, NEW c \in SegChunk, readAt' = [readAt EXCEPT !.pc = label, !.chunk = c],
         label = "hole" => readAt.seg \in lost,
         0 \notin lost /\ label = "have" => Good(readAt.seg, c) /\ (typ = 0 => readAt.seg # 0)
  PROVE  SegIInv'
  <1>1. /\ readAt'.pc = label /\ readAt'.seg = readAt.seg /\ readAt'.stack = readAt.stack /\ readAt'.chunk = c
        /\ readAt' \in ReaderSet
    BY DEF ReaderPc, SegIInv, SegTypes, WorkerTypes, ReaderSet
  <1>2. SegTypes'
    BY <1>1 DEF SegIInv, SegTypes, WorkerTypes, ReaderSet
  <1>3. label \notin {"pad", "first", "guess", "prefetch", "closed", "woken"}
    BY DEF Seeking
  <1>4. SegPlace'
    BY <1>1, <1>3 DEF SegIInv, SegPlace
  <1>5. 0 \notin lost => EarlyInv' /\ TrailOf(readAt'.stack, readAt'.seg)
    BY <1>1, <1>3 DEF SegIInv, FirstInv, EarlyInv
  <1> QED
    BY <1>1, <1>2, <1>3, <1>4, <1>5, ReaderMoves

LEMMA SeekKeeps == ASSUME SegIInv, Seek PROVE SegIInv'
  <1>1. /\ UNCHANGED <<lost, chunks, order, typ, padTotal, worker, errand>> /\ readAt.pc = "seg"
        /\ readAt.pc \in Seeking /\ readAt.seg \in Part
    BY DEF Seek, holeVars, Seeking, SegIInv, SegPlace
  <1>2. readAt = [readAt EXCEPT !.chunk = readAt.chunk] /\ readAt.chunk \in SegChunk /\ chunks[readAt.seg] \in SegChunk
    BY <1>1 DEF SegIInv, SegTypes, WorkerTypes, ReaderSet
  <1>3. CASE Cached(readAt.seg)
    <2>1. readAt' = [readAt EXCEPT !.pc = "have", !.chunk = chunks[readAt.seg]]
      BY <1>3 DEF Seek
    <2>2. 0 \notin lost => Good(readAt.seg, chunks[readAt.seg]) /\ (typ = 0 => readAt.seg # 0)
      BY <1>1, <1>3 DEF SegIInv, FirstInv, ChunkInv
    <2>3. "have" \in Seeking \ {"woken"} /\ "have" # "hole"
      BY DEF Seeking
    <2> QED
      BY <1>1, <1>2, <2>1, <2>2, <2>3, SameSegmentKeeps
  <1>4. CASE ~Cached(readAt.seg)
    <2>1. PICK label \in {"wait", "fetch"} : readAt' = [readAt EXCEPT !.pc = label]
      BY <1>4 DEF Seek
    <2>2. readAt' = [readAt EXCEPT !.pc = label, !.chunk = readAt.chunk]
      BY <2>1 DEF SegIInv, SegTypes, WorkerTypes, ReaderSet
    <2>3. label \in Seeking \ {"woken"} /\ label # "hole" /\ label # "have"
      BY DEF Seeking
    <2> QED
      BY <1>1, <1>2, <2>2, <2>3, SameSegmentKeeps
  <1> QED
    BY <1>3, <1>4

LEMMA SeekMissingKeeps == ASSUME SegIInv, SeekMissing PROVE SegIInv'
  <1>1. /\ UNCHANGED <<lost, chunks, order, typ, padTotal, worker, errand>> /\ readAt.pc \in Seeking
        /\ readAt.seg \in lost /\ readAt.chunk \in SegChunk
        /\ "hole" \in Seeking \ {"woken"} /\ "hole" # "have"
    BY DEF SeekMissing, holeVars, Seeking, SegIInv, SegTypes, WorkerTypes, ReaderSet
  <1>2. readAt' = [readAt EXCEPT !.pc = "hole", !.chunk = readAt.chunk]
    BY DEF SeekMissing, SegIInv, SegTypes, WorkerTypes, ReaderSet
  <1> QED
    BY <1>1, <1>2, SameSegmentKeeps

LEMMA SeekFailsKeeps == ASSUME SegIInv, SeekFails PROVE SegIInv'
  <1>1. WorkerTypes'
    BY DEF SeekFails, SegIInv, SegTypes, WorkerTypes
  <1> QED
    BY <1>1, GoesIdle DEF SeekFails, Idle, holeVars

\* The chunk somebody else has fetched is still there.
LEMMA WokenKeeps == ASSUME SegIInv, Woken PROVE SegIInv'
  <1>1. /\ UNCHANGED <<lost, chunks, order, typ, padTotal, worker, errand>> /\ readAt.pc = "woken"
        /\ readAt.pc \in Seeking /\ readAt.seg \in Part
    BY DEF Woken, cacheVars, holeVars, Seeking, SegIInv, SegPlace
  <1>2. chunks[readAt.seg] \in SegChunk
    BY <1>1 DEF SegIInv, SegTypes, WorkerTypes, ReaderSet
  <1>3. Cached(readAt.seg) \/ readAt.failed
    <2>1. Cardinality(Storing) \in Nat
      <3>1. Storing \subseteq Fetcher
        BY DEF Storing
      <3> QED
        BY <3>1, SegNats, FS_Subset, FS_CardinalityType
    <2> QED
      BY <1>1, <2>1, FreshIsCached DEF SegIInv, FreshInv
  <1> DEFINE label == IF Cached(readAt.seg) THEN "have" ELSE IF readAt.failed THEN "hole" ELSE "nil"
  <1>4. readAt' = [readAt EXCEPT !.pc = label, !.chunk = chunks[readAt.seg]]
    BY DEF Woken, SegIInv, SegTypes, WorkerTypes, ReaderSet
  <1>5. label \in Seeking \ {"woken"} /\ (label = "hole" => readAt.seg \in lost) /\ (label = "have" => Cached(readAt.seg))
    BY <1>1, <1>3 DEF Seeking, SegIInv, SegPlace
  <1>6. 0 \notin lost /\ label = "have" => Good(readAt.seg, chunks[readAt.seg]) /\ (typ = 0 => readAt.seg # 0)
    BY <1>1, <1>5 DEF SegIInv, FirstInv, ChunkInv
  <1> HIDE DEF label
  <1> QED
    BY <1>1, <1>2, <1>4, <1>5, <1>6, SameSegmentKeeps

LEMMA HoleKeeps == ASSUME SegIInv, Hole PROVE SegIInv'
  <1> DEFINE here == [seg |-> readAt.seg, size |-> HoleSize(readAt.seg)]
             trail == Append(readAt.stack, here)
  <1>1. /\ UNCHANGED <<lost, chunks, order, typ, padTotal, worker, errand>> /\ readAt.pc = "hole"
        /\ readAt.pc \in Seeking /\ readAt.seg \in Part /\ readAt.seg \in lost
    BY DEF Hole, cacheVars, holeVars, Seeking, SegIInv, SegPlace
  <1>2. /\ readAt' = IF readAt.seg > 0 THEN [readAt EXCEPT !.pc = "seg", !.seg = readAt.seg - 1, !.stack = trail]
                     ELSE [readAt EXCEPT !.pc = "pad", !.stack = trail]
        /\ errand.what \in {"read", "size"}
    BY <1>1 DEF Hole, SegIInv, SegPlace
  <1>3. here \in Waiting /\ here.seg = readAt.seg /\ (here.size = RealSize[0] \/ typ = 0)
    <2>1. typ \in Nat /\ typ \in {0, RealSize[0]} /\ NzbSize[readAt.seg] \in Nat
      BY <1>1, SegNats DEF SegIInv, SegTypes, WorkerTypes, ReaderSet, Part
    <2>2. HoleSize(readAt.seg) \in Nat /\ (HoleSize(readAt.seg) = RealSize[0] \/ typ = 0)
      BY <2>1 DEF HoleSize
    <2> QED
      BY <1>1, <2>2 DEF Waiting
  <1> HIDE DEF here
  <1>4. /\ readAt.stack \in Seq(Waiting) /\ Len(readAt.stack) \in Nat
        /\ trail \in Seq(Waiting) /\ Len(trail) = Len(readAt.stack) + 1 /\ trail # <<>>
        /\ \A n \in 1 .. Len(trail) : trail[n] = IF n = Len(trail) THEN here ELSE readAt.stack[n]
    <2>1. readAt.stack \in Seq(Waiting)
      BY DEF SegIInv, SegTypes, WorkerTypes, ReaderSet
    <2>2. /\ trail \in Seq(Waiting) /\ Len(trail) = Len(readAt.stack) + 1 /\ trail # <<>>
          /\ trail[Len(readAt.stack) + 1] = here
          /\ \A n \in 1 .. Len(readAt.stack) : trail[n] = readAt.stack[n]
      BY <1>3, <2>1, AppendProperties
    <2>3. Len(readAt.stack) \in Nat
      BY <2>1, LenProperties
    <2> HIDE DEF trail
    <2> QED
      BY <2>1, <2>2, <2>3
  <1> HIDE DEF trail
  <1>5. readAt.seg \in Nat /\ readAt.seg < Parts
    BY <1>1, SegNats DEF Part
  <1>6. CASE readAt.seg > 0
    <2>1. readAt.seg - 1 \in Part /\ readAt.seg - 1 \in Int
      BY <1>5, <1>6, SegNats DEF Part
    <2>2. /\ readAt'.pc = "seg" /\ readAt'.seg = readAt.seg - 1 /\ readAt'.stack = trail
          /\ readAt' \in ReaderSet
      BY <1>2, <1>4, <1>6, <2>1 DEF ReaderPc, Seeking, SegIInv, SegTypes, WorkerTypes, ReaderSet
    <2>3. SegTypes'
      BY <1>1, <2>2 DEF SegIInv, SegTypes, WorkerTypes, ReaderSet
    <2>4. SegPlace'
      BY <1>1, <1>2, <2>1, <2>2 DEF SegPlace, Seeking
    <2>5. ASSUME 0 \notin lost PROVE EarlyInv' /\ TrailOf(readAt'.stack, readAt'.seg)
      <3>1. typ = 0 => errand.what = "size" /\ (readAt.seg + 1) .. (Parts - 1) \subseteq lost
        BY <1>1, <1>2, <2>5 DEF SegIInv, FirstInv, EarlyInv
      <3>2. typ = 0 => readAt.seg .. (Parts - 1) \subseteq lost
        BY <1>1, <1>5, <3>1, SegNats
      <3>3. EarlyInv'
        <4>1. readAt'.seg + 1 = readAt.seg
          BY <1>5, <2>2
        <4> QED
          BY <1>1, <2>2, <3>1, <3>2, <4>1 DEF EarlyInv
      <3>4. TrailOf(readAt.stack, readAt.seg)
        BY <1>1, <2>5 DEF SegIInv, FirstInv
      <3>5. ASSUME NEW n \in 1 .. Len(trail)
            PROVE  /\ trail[n].seg = readAt'.seg + (Len(trail) - n) + 1 /\ trail[n].seg \in lost
                   /\ trail[n].size = RealSize[0] \/ trail[n].seg .. (Parts - 1) \subseteq lost
        <4>1. CASE n = Len(trail)
          <5>1. trail[n] = here
            BY <1>4, <4>1
          <5>2. readAt'.seg + (Len(trail) - n) + 1 = readAt.seg
            BY <1>4, <1>5, <2>2, <4>1
          <5> QED
            BY <1>1, <1>3, <3>2, <5>1, <5>2
        <4>2. CASE n # Len(trail)
          <5>1. n \in 1 .. Len(readAt.stack) /\ trail[n] = readAt.stack[n]
            BY <1>4, <4>2
          <5>2. readAt'.seg + (Len(trail) - n) + 1 = readAt.seg + (Len(readAt.stack) - n) + 1
            <6>1. Len(trail) = Len(readAt.stack) + 1 /\ Len(readAt.stack) \in Nat /\ n \in Int
              BY <1>4
            <6>2. readAt'.seg = readAt.seg - 1 /\ readAt.seg \in Nat
              BY <1>5, <2>2
            <6>3. \A x, y, z \in Int : (x - 1) + ((y + 1) - z) + 1 = x + (y - z) + 1
              OBVIOUS
            <6>4. (readAt.seg - 1) + ((Len(readAt.stack) + 1) - n) + 1 = readAt.seg + (Len(readAt.stack) - n) + 1
              <7>1. readAt.seg \in Int /\ Len(readAt.stack) \in Int /\ n \in Int
                BY <6>1, <6>2
              <7> QED
                BY <6>3, <7>1, Zenon
            <6> QED
              BY <6>1, <6>2, <6>4
          <5> QED
            BY <3>4, <5>1, <5>2 DEF TrailOf
        <4> QED
          BY <4>1, <4>2
      <3> QED
        BY <2>2, <3>3, <3>5 DEF TrailOf
    <2> QED
      BY <1>1, <2>2, <2>3, <2>4, <2>5, ReaderMoves
  <1>7. CASE ~(readAt.seg > 0)
    <2>1. readAt.seg = 0
      BY <1>5, <1>7
    <2>2. /\ readAt'.pc = "pad" /\ readAt'.seg = 0 /\ readAt'.stack = trail
          /\ readAt' \in ReaderSet
      BY <1>2, <1>4, <1>7, <2>1 DEF ReaderPc, Seeking, SegIInv, SegTypes, WorkerTypes, ReaderSet
    <2>3. SegTypes'
      BY <1>1, <2>2 DEF SegIInv, SegTypes, WorkerTypes, ReaderSet
    <2>4. SegPlace'
      BY <1>1, <1>2, <1>4, <2>1, <2>2 DEF SegPlace, Seeking
    <2>5. 0 \in lost
      BY <1>1, <2>1
    <2> QED
      BY <1>1, <2>2, <2>3, <2>4, <2>5, ReaderMoves
  <1> QED
    BY <1>6, <1>7

\* A hole that follows a chunk in its place is in its place.
LEMMA PadGood ==
  ASSUME NEW i \in Part, i + 1 \in Part, i + 1 \in lost, lost \subseteq Part, NEW prev \in SegChunk, Good(i, prev),
         NEW size \in Nat, size = RealSize[0] \/ (i + 1) .. (Parts - 1) \subseteq lost,
         NEW c, c.hole, c.begin = prev.end, c.end = prev.end + size
  PROVE  Good(i + 1, c)
  <1>1. /\ i \in Nat /\ Parts \in Nat /\ i + 1 <= Parts - 1 /\ i + 1 \in 0 .. Parts /\ i + 2 \in 0 .. Parts
        /\ prev.begin \in Nat /\ prev.end \in Nat
    BY SegNats DEF Part, SegChunk
  <1>2. Off(i + 1) \in Nat /\ Off(i + 2) \in Nat /\ RealSize[i + 1] \in Nat /\ RealSize[0] \in Nat
    BY <1>1, OffNat, SegNats DEF Part
  <1>3. Off(i + 2) = Off(i + 1) + RealSize[i + 1]
    <2>1. Off((i + 1) + 1) = Off(i + 1) + RealSize[i + 1]
      BY OffFacts
    <2>2. (i + 1) + 1 = i + 2
      BY <1>1
    <2> QED
      BY <2>1, <2>2
  <1>4. c.begin <= c.end /\ c.begin \in Nat /\ c.end \in Nat
    BY <1>1
  <1>5. size <= RealSize[i + 1] \/ (i + 1) .. (Parts - 1) \subseteq lost
    <2>1. CASE i + 1 < Parts - 1
      BY <2>1, SegNats
    <2>2. CASE ~(i + 1 < Parts - 1)
      <3>1. (i + 1) .. (Parts - 1) = {i + 1}
        BY <1>1, <2>2
      <3> QED
        BY <3>1
    <2> QED
      BY <2>1, <2>2
  <1>6. (i + 1) + 1 = i + 2
    BY <1>1
  <1>7. CASE ~prev.hole
    <2>1. c.begin = Off(i + 1) /\ c.end = Off(i + 1) + size
      BY <1>7 DEF Good
    <2>2. c.end <= Off(i + 2) \/ (i + 1) .. (Parts - 1) \subseteq lost
      BY <1>2, <1>3, <1>5, <2>1
    <2>3. i + 1 \in 1 .. i + 1 /\ (i + 1) .. (i + 1) = {i + 1} /\ Off(i + 1) <= c.begin
      BY <1>1, <1>2, <2>1
    <2> QED
      BY <1>4, <1>6, <2>2, <2>3 DEF Good, GoodHole
  <1>8. CASE prev.hole
    <2>1. PICK k \in 1 .. i : /\ k .. i \subseteq lost /\ Off(k) <= prev.begin
                              /\ prev.end <= Off(i + 1) \/ i .. (Parts - 1) \subseteq lost
      BY <1>8 DEF Good, GoodHole
    <2>2. prev.begin <= prev.end
      BY <1>8 DEF Good, GoodHole
    <2>3. k \in 1 .. i + 1 /\ k .. (i + 1) \subseteq lost
      <3>1. ASSUME NEW x \in k .. (i + 1) PROVE x \in lost
        <4>1. x = i + 1 \/ x \in k .. i
          BY <1>1, <3>1
        <4> QED
          BY <2>1, <4>1
      <3> QED
        BY <1>1, <3>1
    <2>4. Off(k) \in Nat
      <3>1. k \in 0 .. Parts
        BY <1>1
      <3> QED
        BY <3>1, OffNat
    <2>5. Off(k) <= c.begin
      BY <1>1, <2>1, <2>2, <2>4
    <2>6. c.end <= Off(i + 2) \/ (i + 1) .. (Parts - 1) \subseteq lost
      <3>1. CASE prev.end <= Off(i + 1)
        BY <1>1, <1>2, <1>3, <1>5, <3>1
      <3>2. CASE i .. (Parts - 1) \subseteq lost
        <4>1. (i + 1) .. (Parts - 1) \subseteq i .. (Parts - 1)
          BY <1>1
        <4> QED
          BY <3>2, <4>1
      <3> QED
        BY <2>1, <3>1, <3>2
    <2> QED
      BY <1>4, <1>6, <2>3, <2>5, <2>6 DEF Good, GoodHole
  <1> QED
    BY <1>7, <1>8

\* What a store leaves of the chunks' places.
LEMMA StoreChunkInv ==
  ASSUME SegTypes, ChunkInv, NEW i \in Part, NEW c \in SegChunk, Store(i, c), Good(i, c), lost' = lost,
         typ = 0 => typ' = 0 \/ i = 0, typ # 0 => typ' # 0, i = 0 => typ' # 0
  PROVE  /\ (\A j \in Part : Cached(j) => Good(j, chunks[j]))'
         /\ (Cached(0) => typ # 0)'
  <1>1. \A j, d : Good(j, d)' <=> Good(j, d)
    BY DEF Good, GoodHole
  <1>2. ASSUME NEW j \in Part, Cached(j)' PROVE Good(j, chunks'[j])
    BY <1>2, StoreChunks DEF ChunkInv
  <1>3. (\A j \in Part : Cached(j) => Good(j, chunks[j]))'
    BY <1>2 DEF Good, GoodHole
  <1>4. Cached(0)' => typ' # 0
    <2>1. 0 \in Part
      BY SegNats DEF Part
    <2> QED
      BY <2>1, StoreChunks DEF ChunkInv
  <1> QED
    BY <1>3, <1>4

LEMMA FrontLast ==
  ASSUME NEW S, NEW s \in Seq(S), s # <<>>
  PROVE  /\ Len(s) \in Nat \ {0} /\ Last(s) \in S /\ Last(s) = s[Len(s)]
         /\ Front(s) \in Seq(S) /\ Len(Front(s)) = Len(s) - 1
         /\ \A n \in 1 .. Len(s) - 1 : Front(s)[n] = s[n]
  <1>1. Len(s) \in Nat \ {0} /\ \A n \in 1 .. Len(s) : s[n] \in S
    BY EmptySeq, ElementOfSeq
  <1>2. /\ Front(s) \in Seq(S)
        /\ Len(Front(s)) = IF 1 <= Len(s) - 1 THEN (Len(s) - 1) - 1 + 1 ELSE 0
        /\ \A n \in 1 .. (Len(s) - 1) - 1 + 1 : Front(s)[n] = s[1 + n - 1]
    <2>1. 1 \in Int /\ Len(s) - 1 \in Int
      BY <1>1
    <2>2. \A n \in 1 .. (Len(s) - 1) : s[n] \in S
      BY <1>1
    <2> QED
      BY <2>1, <2>2, SubSeqProperties DEF Front
  <1>3. Len(Front(s)) = Len(s) - 1
    <2>1. CASE 1 <= Len(s) - 1
      <3>1. Len(Front(s)) = (Len(s) - 1) - 1 + 1
        BY <1>2, <2>1
      <3> QED
        BY <1>1, <3>1
    <2>2. CASE ~(1 <= Len(s) - 1)
      <3>1. Len(Front(s)) = 0
        BY <1>2, <2>2
      <3>2. Len(s) = 1
        BY <1>1, <2>2
      <3> QED
        BY <3>1, <3>2
    <2> QED
      BY <2>1, <2>2
  <1>4. \A n \in 1 .. Len(s) - 1 : Front(s)[n] = s[n]
    <2>1. (Len(s) - 1) - 1 + 1 = Len(s) - 1
      BY <1>1
    <2>2. \A n \in 1 .. Len(s) - 1 : Front(s)[n] = s[1 + n - 1]
      BY <1>2, <2>1
    <2>3. \A n \in 1 .. Len(s) - 1 : 1 + n - 1 = n
      BY <1>1
    <2> QED
      BY <2>2, <2>3
  <1>5. Last(s) = s[Len(s)] /\ Len(s) \in 1 .. Len(s)
    BY <1>1 DEF Last
  <1> QED
    BY <1>1, <1>2, <1>3, <1>4, <1>5

LEMMA PadKeeps == ASSUME SegIInv, Pad PROVE SegIInv'
  <1> DEFINE waits == Last(readAt.stack)
             begin == IF waits.seg = 0 THEN 0 ELSE readAt.chunk.end
             pad == [begin |-> begin, end |-> begin + waits.size, hole |-> TRUE]
  <1>1. /\ UNCHANGED <<lost, typ, worker>>
        /\ padTotal' = IF padTotal > PadMost THEN padTotal ELSE padTotal + 1
        /\ \/ TooManyHoles /\ Idle /\ UNCHANGED <<chunks, order>>
           \/ /\ ~TooManyHoles /\ Store(waits.seg, pad) /\ UNCHANGED errand
              /\ readAt' = [readAt EXCEPT !.pc = "have", !.seg = waits.seg, !.chunk = pad, !.stack = Front(readAt.stack)]
    BY DEF Pad
  <1>2. /\ readAt.pc = "pad" \/ (readAt.pc = "have" /\ readAt.stack # <<>>)
        /\ errand.what \in {"read", "size"} /\ readAt.seg \in Part
    BY DEF Pad, SegIInv, SegPlace, Seeking
  <1>3. readAt.stack # <<>>
    BY <1>2 DEF SegIInv, SegPlace
  <1>4. /\ readAt.stack \in Seq(Waiting) /\ Len(readAt.stack) \in Nat \ {0} /\ waits \in Waiting
        /\ waits = readAt.stack[Len(readAt.stack)]
        /\ Front(readAt.stack) \in Seq(Waiting) /\ Len(Front(readAt.stack)) = Len(readAt.stack) - 1
        /\ \A n \in 1 .. Len(readAt.stack) - 1 : Front(readAt.stack)[n] = readAt.stack[n]
    <2>1. readAt.stack \in Seq(Waiting)
      BY DEF SegIInv, SegTypes, WorkerTypes, ReaderSet
    <2> QED
      BY <1>3, <2>1, FrontLast
  <1>5. padTotal \in Nat /\ padTotal' \in Nat /\ PadMost \in Nat /\ CountInv
    BY <1>1, SegNats DEF SegIInv, SegTypes, WorkerTypes, ReaderSet
  <1>6. CASE TooManyHoles /\ Idle /\ UNCHANGED <<chunks, order>>
    <2>1. readAt' = Rest /\ errand' = NoErrand
      BY <1>6 DEF Idle
    <2>2. SegTypes'
      BY <1>1, <1>5, <1>6, <2>1, RestIs DEF SegIInv, SegTypes, WorkerTypes, ReaderSet
    <2>3. SegPlace' /\ FreshInv'
      BY <2>1, RestIs DEF SegPlace, FreshInv, Seeking
    <2>4. CountInv'
      <3>1. CachedHoles' = CachedHoles
        BY <1>6 DEF CachedHoles, Cached
      <3>2. CachedHoles \in SUBSET Part
        BY DEF CachedHoles
      <3>3. Cardinality(CachedHoles) \in Nat
        BY <3>2, HolesFinite
      <3>4. padTotal <= padTotal'
        BY <1>1, <1>5
      <3> QED
        BY <1>5, <3>1, <3>3, <3>4 DEF CountInv
    <2>5. FirstInv'
      <3>1. readAt'.pc = "idle" /\ EarlyInv'
        BY <2>1, RestIs DEF EarlyInv, Seeking
      <3>2. ChunkInv => ChunkInv'
        BY <1>1, <1>6, <3>1 DEF ChunkInv, Cached, Good, GoodHole
      <3> QED
        BY <1>1, <3>1, <3>2 DEF SegIInv, FirstInv, Seeking
    <2> QED
      BY <2>2, <2>3, <2>4, <2>5 DEF SegIInv
  <1>7. CASE /\ ~TooManyHoles /\ Store(waits.seg, pad) /\ UNCHANGED errand
             /\ readAt' = [readAt EXCEPT !.pc = "have", !.seg = waits.seg, !.chunk = pad, !.stack = Front(readAt.stack)]
    <2>1. waits.seg \in Part /\ waits.seg \in Int /\ waits.size \in Nat /\ begin \in Nat
      <3>1. readAt.chunk.end \in Nat
        BY DEF SegIInv, SegTypes, SegChunk, ReaderSet
      <3> HIDE DEF waits
      <3> QED
        BY <1>4, <3>1, SegNats DEF Waiting, Part
    <2>2. pad \in SegChunk /\ pad.begin = begin /\ pad.end = begin + waits.size /\ pad.hole = TRUE
      BY <2>1 DEF SegChunk
    <2> DEFINE rest == Front(readAt.stack)
    <2> HIDE DEF pad, rest
    <2>3. /\ readAt'.pc = "have" /\ readAt'.seg = waits.seg /\ readAt'.chunk = pad /\ readAt'.stack = rest
          /\ readAt' \in ReaderSet
      <3>1. rest \in Seq(Waiting) /\ "have" \in ReaderPc
        BY <1>4 DEF rest, ReaderPc, Seeking
      <3>2. readAt' = [readAt EXCEPT !.pc = "have", !.seg = waits.seg, !.chunk = pad, !.stack = rest]
        BY <1>7 DEF rest
      <3> HIDE DEF waits
      <3> QED
        BY <2>1, <2>2, <3>1, <3>2 DEF SegIInv, SegTypes, WorkerTypes, ReaderSet
    <2>4. SegTypes'
      <3>1. SegTypes /\ order' \in Seq(Part) /\ Len(order') <= CacheMost /\ chunks' \in [Part -> SegChunk]
        BY <1>7, <2>1, <2>2, StoreOrder, StoreChunks DEF SegIInv
      <3> QED
        BY <1>1, <1>5, <1>7, <2>3, <3>1 DEF SegTypes, WorkerTypes, ReaderSet
    <2>5. SegPlace' /\ FreshInv'
      BY <1>2, <1>7, <2>1, <2>3 DEF SegPlace, FreshInv, Seeking
    <2>6. CountInv'
      <3>1. padTotal' <= PadMost /\ padTotal' = padTotal + 1
        BY <1>1, <1>5, <1>7 DEF TooManyHoles
      <3>2. Cardinality(CachedHoles') <= Cardinality(CachedHoles) + 1
        BY <1>7, <2>1, <2>2, StoreCounts DEF SegIInv
      <3>3. CachedHoles \in SUBSET Part /\ CachedHoles' \in SUBSET Part
        BY DEF CachedHoles
      <3>4. Cardinality(CachedHoles) \in Nat /\ Cardinality(CachedHoles') \in Nat
        BY <3>3, HolesFinite
      <3> QED
        BY <1>5, <3>1, <3>2, <3>4 DEF CountInv
    <2>7. FirstInv'
      <3> SUFFICES ASSUME 0 \notin lost'
                   PROVE  ChunkInv' /\ EarlyInv' /\ (readAt'.pc \in Seeking => TrailOf(readAt.stack, readAt.seg)')
        BY DEF FirstInv
      <3>1. 0 \notin lost
        BY <1>1
      <3>2. readAt.pc = "have" /\ readAt.pc \in Seeking
        BY <1>2, <3>1 DEF Seeking, SegIInv, SegPlace
      <3>3. ChunkInv /\ EarlyInv /\ TrailOf(readAt.stack, readAt.seg) /\ SegTypes
        BY <3>1, <3>2 DEF SegIInv, FirstInv
      <3>4. /\ waits.seg = readAt.seg + 1 /\ waits.seg \in lost
            /\ waits.size = RealSize[0] \/ waits.seg .. (Parts - 1) \subseteq lost
        <4>1. Len(readAt.stack) \in 1 .. Len(readAt.stack) /\ readAt.seg \in Int
          BY <1>2, <1>4, SegNats DEF Part
        <4>2. readAt.seg + (Len(readAt.stack) - Len(readAt.stack)) + 1 = readAt.seg + 1
          BY <1>4, <4>1
        <4> HIDE DEF waits
        <4> QED
          BY <1>4, <3>3, <4>1, <4>2 DEF TrailOf
      <3>5. begin = readAt.chunk.end /\ waits.seg # 0
        BY <3>1, <3>4
      <3>6. Good(waits.seg, pad)
        <4>1. lost \subseteq Part /\ readAt.chunk \in SegChunk /\ Good(readAt.seg, readAt.chunk)
          BY <3>2, <3>3 DEF SegTypes, WorkerTypes, ReaderSet, ChunkInv
        <4> HIDE DEF waits, begin
        <4> QED
          BY <1>2, <2>1, <2>2, <3>4, <3>5, <4>1, PadGood
      <3>7. /\ (\A j \in Part : Cached(j) => Good(j, chunks[j]))'
            /\ (Cached(0) => typ # 0)'
        <4> HIDE DEF waits
        <4> QED
          BY <1>1, <1>7, <2>1, <2>2, <3>3, <3>5, <3>6, StoreChunkInv
      <3>8. ChunkInv'
        <4>1. (readAt.pc = "have" => Good(readAt.seg, readAt.chunk))'
          BY <1>1, <2>3, <3>6 DEF Good, GoodHole
        <4>2. (readAt.pc = "have" /\ typ = 0 => readAt.seg # 0)'
          BY <2>3, <3>5
        <4> QED
          BY <3>7, <4>1, <4>2 DEF ChunkInv
      <3>9. EarlyInv'
        <4>1. typ = 0 => errand.what = "size" /\ (readAt.seg + 1) .. (Parts - 1) \subseteq lost
          BY <1>2, <3>2, <3>3 DEF EarlyInv, ChunkInv
        <4>2. (waits.seg + 1) .. (Parts - 1) \subseteq waits.seg .. (Parts - 1)
          BY <2>1, SegNats
        <4>3. typ' = 0 => (readAt'.seg + 1) .. (Parts - 1) \subseteq lost'
          BY <1>1, <2>3, <3>4, <4>1, <4>2
        <4> QED
          BY <1>1, <1>7, <2>3, <4>1, <4>3 DEF EarlyInv
      <3>10. TrailOf(rest, waits.seg)
        <4>1. ASSUME NEW n \in 1 .. Len(rest)
              PROVE  /\ rest[n].seg = waits.seg + (Len(rest) - n) + 1 /\ rest[n].seg \in lost
                     /\ rest[n].size = RealSize[0] \/ rest[n].seg .. (Parts - 1) \subseteq lost
          <5>1. n \in 1 .. Len(readAt.stack) /\ rest[n] = readAt.stack[n] /\ Len(rest) = Len(readAt.stack) - 1
            BY <1>4 DEF rest
          <5>2. waits.seg + (Len(rest) - n) + 1 = readAt.seg + (Len(readAt.stack) - n) + 1
            <6>1. readAt.seg \in Int
              BY <1>2, SegNats DEF Part
            <6> HIDE DEF waits
            <6> QED
              BY <1>4, <3>4, <5>1, <6>1
          <5> QED
            BY <3>3, <5>1, <5>2 DEF TrailOf
        <4> QED
          BY <4>1 DEF TrailOf
      <3>11. TrailOf(readAt.stack, readAt.seg)'
        BY <1>1, <2>3, <3>10 DEF TrailOf
      <3> QED
        BY <3>8, <3>9, <3>11
    <2> QED
      BY <2>4, <2>5, <2>6, <2>7 DEF SegIInv
  <1> QED
    BY <1>1, <1>6, <1>7

\* A reader that has a chunk to read from has had the first segment.
LEMMA FirstIsThere == ASSUME SegIInv, readAt.pc = "have", errand.what = "read" PROVE 0 \notin lost => typ # 0
  BY DEF SegIInv, FirstInv, EarlyInv, ChunkInv, Seeking

LEMMA HaveFirstKeeps == ASSUME SegIInv, HaveFirst PROVE SegIInv'
  <1>1. /\ UNCHANGED <<lost, chunks, order, typ, padTotal, worker, errand>> /\ readAt' = [readAt EXCEPT !.pc = "guess"]
        /\ readAt.pc = "have" /\ readAt.stack = <<>> /\ errand.what = "read"
    BY DEF HaveFirst, Have, cacheVars, holeVars
  <1>2. readAt'.pc = "guess" /\ readAt'.stack = <<>> /\ readAt' \in ReaderSet
    BY <1>1 DEF ReaderPc, SegIInv, SegTypes, ReaderSet
  <1>3. SegTypes'
    BY <1>1, <1>2 DEF SegIInv, SegTypes, WorkerTypes
  <1>4. SegPlace'
    BY <1>1, <1>2 DEF SegPlace, Seeking
  <1>5. 0 \notin lost => typ # 0
    BY <1>1, FirstIsThere
  <1> QED
    BY <1>1, <1>2, <1>3, <1>4, <1>5, ReaderMoves DEF EarlyInv, Seeking

LEMMA HaveSizeKeeps == ASSUME SegIInv, HaveSize PROVE SegIInv'
  <1>1. WorkerTypes'
    BY DEF HaveSize, SegIInv, SegTypes, WorkerTypes
  <1> QED
    BY <1>1, GoesIdle DEF HaveSize, Idle, cacheVars, holeVars

LEMMA HaveOtherKeeps == ASSUME SegIInv, HaveOther PROVE SegIInv'
  <1> DEFINE next == IF errand.off < readAt.chunk.begin THEN readAt.seg - 1 ELSE readAt.seg + 1
  <1>1. /\ UNCHANGED <<lost, chunks, order, typ, padTotal, worker>>
        /\ readAt.pc = "have" /\ readAt.stack = <<>> /\ errand.what = "read"
        /\ \/ Idle
           \/ /\ next \in Part /\ UNCHANGED errand
              /\ readAt' = [readAt EXCEPT !.pc = "seg", !.seg = next, !.rounds = @ + 1]
    BY DEF HaveOther, Have, cacheVars, holeVars
  <1> HIDE DEF next
  <1>2. CASE Idle
    <2>1. WorkerTypes'
      BY <1>1 DEF SegIInv, SegTypes, WorkerTypes
    <2> QED
      BY <1>1, <1>2, <2>1, GoesIdle DEF Idle
  <1>3. CASE /\ next \in Part /\ UNCHANGED errand
             /\ readAt' = [readAt EXCEPT !.pc = "seg", !.seg = next, !.rounds = @ + 1]
    <2>1. readAt'.pc = "seg" /\ readAt'.seg = next /\ readAt'.stack = <<>> /\ readAt' \in ReaderSet
      <3>1. readAt \in ReaderSet /\ "seg" \in ReaderPc /\ next \in Int
        BY <1>3, SegNats DEF ReaderPc, Seeking, Part, SegIInv, SegTypes
      <3> DEFINE round == readAt.rounds + 1
      <3>2. round \in Nat /\ readAt' = [readAt EXCEPT !.pc = "seg", !.seg = next, !.rounds = round]
        BY <1>3, <3>1 DEF ReaderSet
      <3> HIDE DEF round
      <3> QED
        BY <1>1, <3>1, <3>2 DEF ReaderSet
    <2>2. errand' \in [what : {"read", "size"}, off : Nat, stop : Nat]
      BY <1>1, <1>3 DEF SegIInv, SegTypes
    <2>3. 0 \notin lost => typ # 0
      BY <1>1, FirstIsThere
    <2> QED
      BY <1>1, <1>3, <2>1, <2>2, <2>3, SeeksKeep
  <1> QED
    BY <1>1, <1>2, <1>3

LEMMA CopyKeeps == ASSUME SegIInv, Copy PROVE SegIInv'
  <1> DEFINE copied == IF readAt.chunk.end < errand.stop THEN readAt.chunk.end ELSE errand.stop
             pc0 == IF typ = 0 THEN "first" ELSE "guess"
  <1>1. /\ UNCHANGED <<lost, chunks, order, typ, padTotal, worker>>
        /\ readAt.pc = "have" /\ readAt.stack = <<>> /\ errand.what = "read"
        /\ \/ /\ readAt' = [Rest EXCEPT !.pc = "prefetch", !.seg = readAt.seg + 1, !.rounds = readAt.seg + 1]
              /\ errand' = NoErrand
           \/ readAt' = [Rest EXCEPT !.pc = pc0] /\ errand' = [errand EXCEPT !.off = copied]
    BY DEF Copy, Have, cacheVars, holeVars
  <1>2. copied \in Nat
    BY DEF SegIInv, SegTypes, ReaderSet, SegChunk
  <1> HIDE DEF copied
  <1>3. readAt.seg \in Nat
    BY <1>1, SegNats DEF SegIInv, SegPlace, Seeking, Part
  <1>4. 0 \notin lost => typ # 0
    BY <1>1, FirstIsThere
  <1>5. /\ readAt' \in ReaderSet /\ readAt'.stack = <<>>
        /\ readAt'.pc \in {"prefetch", "first", "guess"} /\ (readAt'.pc = "prefetch" => readAt'.seg \in Nat)
        /\ readAt'.pc \in {"first", "guess"} => errand' = [errand EXCEPT !.off = copied]
        /\ errand' = NoErrand \/ errand' = [errand EXCEPT !.off = copied]
        /\ readAt'.pc = "first" => typ = 0
    <2>1. "prefetch" \in ReaderPc /\ pc0 \in ReaderPc /\ pc0 # "prefetch" /\ readAt.seg + 1 \in Nat
      BY <1>3 DEF ReaderPc
    <2>2. CASE /\ readAt' = [Rest EXCEPT !.pc = "prefetch", !.seg = readAt.seg + 1, !.rounds = readAt.seg + 1]
               /\ errand' = NoErrand
      <3>1. Rest \in ReaderSet /\ Rest.stack = <<>>
        BY RestIs
      <3> DEFINE after == readAt.seg + 1
      <3>2. after \in Int /\ after \in Nat /\ readAt' = [Rest EXCEPT !.pc = "prefetch", !.seg = after, !.rounds = after]
        BY <1>3, <2>2
      <3> HIDE DEF after
      <3>3. /\ readAt' \in ReaderSet /\ readAt'.stack = <<>> /\ readAt'.pc = "prefetch"
            /\ readAt'.seg = after
        BY <2>1, <3>1, <3>2 DEF ReaderSet
      <3> QED
        BY <2>1, <2>2, <3>2, <3>3
    <2>3. CASE readAt' = [Rest EXCEPT !.pc = pc0] /\ errand' = [errand EXCEPT !.off = copied]
      <3>1. Rest \in ReaderSet /\ Rest.stack = <<>>
        BY RestIs
      <3>2. readAt' \in ReaderSet /\ readAt'.stack = <<>> /\ readAt'.pc = pc0
        BY <2>1, <2>3, <3>1 DEF ReaderSet
      <3> QED
        BY <2>1, <2>3, <3>2
    <2> QED
      BY <1>1, <2>2, <2>3
  <1>6. /\ errand' \in [what : {"none", "read", "size"}, off : Nat, stop : Nat]
        /\ errand' = [errand EXCEPT !.off = copied] => errand'.what = "read"
    <2>1. errand \in [what : {"none", "read", "size"}, off : Nat, stop : Nat]
      BY DEF SegIInv, SegTypes
    <2> QED
      BY <1>1, <1>2, <1>5, <2>1, RestIs
  <1>7. SegTypes'
    BY <1>1, <1>5, <1>6 DEF SegIInv, SegTypes, WorkerTypes
  <1>8. SegPlace'
    BY <1>1, <1>5, <1>6 DEF SegPlace, Seeking
  <1> QED
    BY <1>1, <1>4, <1>5, <1>7, <1>8, ReaderMoves DEF EarlyInv, Seeking

LEMMA PrefetchKeeps == ASSUME SegIInv, Prefetch PROVE SegIInv'
  <1> DEFINE i == readAt.seg
             free == {f \in Fetcher : worker[f] = Free}
             next == [readAt EXCEPT !.seg = i + 1]
  <1>1. /\ UNCHANGED <<lost, chunks, order, typ, padTotal, errand>> /\ readAt.pc = "prefetch"
        /\ readAt' = Rest \/ readAt' = next
        /\ \/ UNCHANGED worker
           \/ /\ i < Parts /\ free # {} /\ worker' = [worker EXCEPT ![CHOOSE f \in free : TRUE] = [seg |-> i, does |-> "start"]]
              /\ ~(i >= Parts)
    <2>1. i \in Nat /\ Parts \in Nat
      BY SegNats DEF Prefetch, SegIInv, SegPlace
    <2> HIDE DEF next
    <2> QED
      BY <2>1 DEF Prefetch, cacheVars, holeVars, next
  <1>2. i \in Nat /\ (i < Parts => i \in Part)
    BY <1>1, SegNats DEF SegIInv, SegPlace, Part
  <1>3. readAt.stack = <<>>
    BY <1>1 DEF SegIInv, SegPlace, Seeking
  <1>4. WorkerTypes'
    <2>1. CASE UNCHANGED worker
      BY <2>1 DEF SegIInv, SegTypes, WorkerTypes
    <2>2. CASE /\ i < Parts /\ free # {}
               /\ worker' = [worker EXCEPT ![CHOOSE f \in free : TRUE] = [seg |-> i, does |-> "start"]]
      <3> DEFINE g == CHOOSE f \in free : TRUE
      <3>1. g \in Fetcher
        BY <2>2
      <3>2. worker' = [worker EXCEPT ![g] = [seg |-> i, does |-> "start"]] /\ i \in Part /\ i \in Int
        BY <1>2, <2>2
      <3> HIDE DEF g, i
      <3> QED
        BY <3>1, <3>2 DEF SegIInv, SegTypes, WorkerTypes
    <2> QED
      BY <1>1, <2>1, <2>2
  <1>5. CASE readAt' = Rest
    BY <1>1, <1>4, <1>5, GoesIdle
  <1>6. CASE readAt' = next
    <2>1. readAt'.pc = "prefetch" /\ readAt'.seg \in Nat /\ readAt'.stack = <<>> /\ readAt' \in ReaderSet
      <3>1. readAt \in ReaderSet /\ i + 1 \in Int /\ i + 1 \in Nat
        BY <1>2 DEF SegIInv, SegTypes
      <3> QED
        BY <1>1, <1>3, <1>6, <3>1 DEF ReaderSet
    <2>2. SegTypes'
      BY <1>1, <1>4, <2>1 DEF SegIInv, SegTypes
    <2>3. SegPlace'
      BY <1>1, <2>1 DEF SegPlace, Seeking
    <2>4. 0 \notin lost => typ # 0
      BY <1>1 DEF SegIInv, FirstInv, EarlyInv
    <2> QED
      BY <1>1, <2>1, <2>2, <2>3, <2>4, ReaderMoves DEF EarlyInv, Seeking
  <1> QED
    BY <1>1, <1>5, <1>6

-----------------------------------------------------------------------------
(* The fetches.                                                            *)

\* A segment that has been fetched is in its place.
LEMMA FetchedLeaves ==
  ASSUME SegIInv, NEW i \in Part, i \notin lost, Fetched(i), UNCHANGED <<lost, padTotal>>
  PROVE  /\ order' \in Seq(Part) /\ Len(order') <= CacheMost /\ chunks' \in [Part -> SegChunk]
         /\ typ' \in {0, RealSize[0]} /\ (typ' = 0 => typ = 0 /\ i # 0)
         /\ Store(i, Data(i)) /\ Data(i) \in SegChunk /\ Good(i, Data(i))
         /\ CountInv'
         /\ 0 \notin lost => /\ (\A j \in Part : Cached(j) => Good(j, chunks[j]))'
                             /\ (Cached(0) => typ # 0)'
  <1>1. Data(i) \in SegChunk /\ ~Data(i).hole /\ Good(i, Data(i))
    <2>1. i \in 0 .. Parts /\ i + 1 \in 0 .. Parts
      BY SegNats DEF Part
    <2>2. Off(i) \in Nat /\ Off(i + 1) \in Nat
      BY <2>1, OffNat
    <2> QED
      BY <2>2 DEF Data, SegChunk, Good
  <1>2. Store(i, Data(i)) /\ typ' = IF i = 0 THEN RealSize[0] ELSE typ
    BY DEF Fetched
  <1>3. SegTypes /\ CountInv
    BY DEF SegIInv
  <1>4. RealSize[0] # 0
    <2>1. 0 \in Part
      BY SegNats DEF Part
    <2> QED
      BY <2>1, SegNats
  <1>5. typ' \in {0, RealSize[0]} /\ (typ' = 0 => typ = 0 /\ i # 0) /\ (typ # 0 => typ' # 0) /\ (i = 0 => typ' # 0)
    BY <1>2, <1>3, <1>4 DEF SegTypes
  <1>6. CountInv'
    <2>1. CachedHoles \in SUBSET Part /\ CachedHoles' \in SUBSET Part
      BY DEF CachedHoles
    <2>2. Cardinality(CachedHoles) \in Nat /\ Cardinality(CachedHoles') \in Nat
      BY <2>1, HolesFinite
    <2>3. Cardinality(CachedHoles') <= Cardinality(CachedHoles)
      BY <1>1, <1>2, <1>3, StoreCounts
    <2>4. padTotal' = padTotal /\ padTotal \in Nat /\ PadMost \in Nat
      BY <1>3, SegNats DEF SegTypes
    <2> QED
      BY <1>3, <2>2, <2>3, <2>4 DEF CountInv
  <1>7. 0 \notin lost => /\ (\A j \in Part : Cached(j) => Good(j, chunks[j]))'
                         /\ (Cached(0) => typ # 0)'
    <2> SUFFICES ASSUME 0 \notin lost
                 PROVE  /\ (\A j \in Part : Cached(j) => Good(j, chunks[j]))'
                        /\ (Cached(0) => typ # 0)'
      OBVIOUS
    <2>1. ChunkInv
      BY DEF SegIInv, FirstInv
    <2> QED
      BY <1>1, <1>2, <1>3, <1>5, <2>1, StoreChunkInv
  <1> QED
    BY <1>1, <1>2, <1>3, <1>5, <1>6, <1>7, StoreOrder, StoreChunks

LEMMA SeekArrivesKeeps == ASSUME SegIInv, SeekArrives PROVE SegIInv'
  <1> DEFINE i == readAt.seg
  <1>1. /\ readAt.pc = "fetch" /\ i \in Part /\ i \notin lost /\ Fetched(i)
        /\ UNCHANGED <<lost, padTotal, errand, worker>>
        /\ readAt' = [readAt EXCEPT !.pc = "have", !.chunk = Data(i)]
        /\ readAt.pc \in Seeking /\ errand.what \in {"read", "size"}
    BY DEF SeekArrives, holeVars, Seeking, SegIInv, SegPlace
  <1>2. /\ order' \in Seq(Part) /\ Len(order') <= CacheMost /\ chunks' \in [Part -> SegChunk]
        /\ typ' \in {0, RealSize[0]} /\ (typ' = 0 => typ = 0 /\ i # 0)
        /\ Data(i) \in SegChunk /\ Good(i, Data(i)) /\ CountInv'
        /\ 0 \notin lost => /\ (\A j \in Part : Cached(j) => Good(j, chunks[j]))'
                            /\ (Cached(0) => typ # 0)'
    BY <1>1, FetchedLeaves
  <1>3. /\ readAt'.pc = "have" /\ readAt'.seg = i /\ readAt'.stack = readAt.stack /\ readAt'.chunk = Data(i)
        /\ readAt' \in ReaderSet
    <2>1. readAt \in ReaderSet /\ "have" \in ReaderPc
      BY DEF ReaderPc, Seeking, SegIInv, SegTypes
    <2> QED
      BY <1>1, <1>2, <2>1 DEF ReaderSet
  <1> HIDE DEF i
  <1>4. SegTypes'
    BY <1>1, <1>2, <1>3 DEF SegIInv, SegTypes, WorkerTypes
  <1>5. SegPlace' /\ FreshInv'
    BY <1>1, <1>3 DEF SegPlace, FreshInv, Seeking
  <1>6. FirstInv'
    <2> SUFFICES ASSUME 0 \notin lost
                 PROVE  ChunkInv' /\ EarlyInv' /\ TrailOf(readAt.stack, readAt.seg)'
      BY <1>1 DEF FirstInv
    <2>1. (readAt.pc = "have" => Good(readAt.seg, readAt.chunk))'
      BY <1>1, <1>2, <1>3 DEF Good, GoodHole
    <2>2. ChunkInv'
      BY <1>2, <1>3, <2>1 DEF ChunkInv
    <2>3. EarlyInv /\ TrailOf(readAt.stack, readAt.seg)
      BY <1>1 DEF SegIInv, FirstInv
    <2>4. EarlyInv'
      BY <1>1, <1>2, <1>3, <2>3 DEF EarlyInv, Seeking, i
    <2>5. TrailOf(readAt.stack, readAt.seg)'
      BY <1>1, <1>3, <2>3 DEF TrailOf, i
    <2> QED
      BY <2>2, <2>4, <2>5
  <1> QED
    BY <1>2, <1>4, <1>5, <1>6 DEF SegIInv

LEMMA StoringFinite ==
  IsFiniteSet(Storing) /\ Cardinality(Storing) \in Nat /\ Cardinality(Storing) <= Cardinality(Fetcher)
  <1>1. Storing \subseteq Fetcher
    BY DEF Storing
  <1>2. IsFiniteSet(Storing) /\ Cardinality(Storing) <= Cardinality(Fetcher)
    BY <1>1, SegNats, FS_Subset
  <1> QED
    BY <1>2, FS_CardinalityType

\* A move of a goroutine that leaves the reader and the cache as they are.
LEMMA WorkersMove ==
  ASSUME SegIInv, UNCHANGED <<lost, chunks, order, typ, padTotal, readAt, errand>>, WorkerTypes',
         Storing' \subseteq Storing, readAt.pc = "closed" => UNCHANGED worker
  PROVE  SegIInv'
  <1>1. SegTypes'
    BY DEF SegIInv, SegTypes
  <1>2. SegPlace'
    BY DEF SegIInv, SegPlace
  <1>3. FreshInv'
    <2>1. Cardinality(Storing') <= Cardinality(Storing) /\ Cardinality(Storing') \in Nat /\ Cardinality(Storing) \in Nat
      <3>1. IsFiniteSet(Storing')
        BY StoringFinite, FS_Subset
      <3> QED
        BY <3>1, StoringFinite, FS_Subset, FS_CardinalityType
    <2> SUFFICES ASSUME readAt.pc = "woken" /\ ~readAt.failed
                 PROVE  StillCached(readAt.seg, order, Cardinality(Storing'))
      BY DEF FreshInv, StillCached
    <2>2. StillCached(readAt.seg, order, Cardinality(Storing))
      BY DEF SegIInv, FreshInv
    <2>3. PICK p \in 1 .. Len(order) : order[p] = readAt.seg /\ Len(order) - p + Cardinality(Storing) < Cardinality(Fetcher)
      BY <2>2 DEF StillCached
    <2>4. Len(order) \in Nat /\ Cardinality(Fetcher) \in Nat
      BY SegNats DEF SegIInv, SegTypes
    <2>5. Len(order) - p + Cardinality(Storing') < Cardinality(Fetcher)
      BY <2>1, <2>3, <2>4
    <2> QED
      BY <2>3, <2>5 DEF StillCached
  <1>4. CountInv'
    BY DEF SegIInv, CountInv, CachedHoles, Cached
  <1>5. FirstInv'
    BY DEF SegIInv, FirstInv, ChunkInv, EarlyInv, TrailOf, Cached, Good, GoodHole
  <1> QED
    BY <1>1, <1>2, <1>3, <1>4, <1>5 DEF SegIInv

\* A goroutine that ends stores nothing any more.
LEMMA WorkerFree ==
  ASSUME SegIInv, NEW f \in Fetcher, worker' = [worker EXCEPT ![f] = Free]
  PROVE  WorkerTypes' /\ Storing' = Storing \ {f}
  <1>1. WorkerTypes'
    BY DEF SegIInv, SegTypes, WorkerTypes, Free, NotYet
  <1>2. Storing' = Storing \ {f}
    BY DEF SegIInv, SegTypes, WorkerTypes, Free, Storing
  <1> QED
    BY <1>1, <1>2

LEMMA WorkerStartsKeeps == ASSUME SegIInv, NEW f \in Fetcher, WorkerStarts(f) PROVE SegIInv'
  <1>1. /\ UNCHANGED <<lost, chunks, order, typ, padTotal, readAt, errand>> /\ worker[f].does = "start"
        /\ \/ worker' = [worker EXCEPT ![f] = Free]
           \/ worker' = [worker EXCEPT ![f].does = "wait"]
           \/ worker' = [worker EXCEPT ![f].does = "fetch"]
    BY DEF WorkerStarts, holeVars, readerVars
  <1>2. readAt.pc # "closed"
    BY <1>1 DEF SegIInv, SegPlace
  <1>3. WorkerTypes' /\ Storing' \subseteq Storing
    <2>1. CASE worker' = [worker EXCEPT ![f] = Free]
      BY <2>1, WorkerFree
    <2>2. CASE worker' = [worker EXCEPT ![f].does = "wait"]
      BY <1>1, <2>2 DEF SegIInv, SegTypes, WorkerTypes, Storing
    <2>3. CASE worker' = [worker EXCEPT ![f].does = "fetch"]
      BY <1>1, <2>3 DEF SegIInv, SegTypes, WorkerTypes, Storing
    <2> QED
      BY <1>1, <2>1, <2>2, <2>3
  <1> QED
    BY <1>1, <1>2, <1>3, WorkersMove

LEMMA WorkerDoneKeeps == ASSUME SegIInv, NEW f \in Fetcher, WorkerDone(f) PROVE SegIInv'
  <1>1. /\ UNCHANGED <<lost, chunks, order, typ, padTotal, readAt, errand>> /\ worker[f].does = "wait"
        /\ worker' = [worker EXCEPT ![f] = Free]
    BY DEF WorkerDone, cacheVars, holeVars, readerVars
  <1>2. readAt.pc # "closed"
    BY <1>1 DEF SegIInv, SegPlace
  <1>3. WorkerTypes' /\ Storing' \subseteq Storing
    BY <1>1, WorkerFree
  <1> QED
    BY <1>1, <1>2, <1>3, WorkersMove

\* Who waits for the segment is woken where it stands.
LEMMA Wakes ==
  ASSUME SegIInv, NEW i \in Part, NEW b \in BOOLEAN, Wake(i, b), readAt.pc = "wait", readAt.seg = i
  PROVE  /\ readAt' \in ReaderSet /\ readAt'.pc = "woken" /\ readAt'.seg = i /\ readAt'.failed = b
         /\ readAt'.stack = readAt.stack /\ readAt'.chunk = readAt.chunk
  <1>1. readAt \in ReaderSet /\ "woken" \in ReaderPc
    BY DEF ReaderPc, Seeking, SegIInv, SegTypes
  <1>2. readAt' = [readAt EXCEPT !.pc = "woken", !.failed = b]
    BY DEF Wake
  <1> QED
    BY <1>1, <1>2 DEF ReaderSet

LEMMA WorkerFailsKeeps == ASSUME SegIInv, NEW f \in Fetcher, WorkerFails(f) PROVE SegIInv'
  <1> DEFINE i == worker[f].seg
  <1>1. /\ UNCHANGED <<lost, chunks, order, typ, padTotal>> /\ worker[f].does = "fetch"
        /\ worker' = [worker EXCEPT ![f] = Free]
        /\ \/ i \in lost /\ Wake(i, TRUE) /\ UNCHANGED errand
           \/ i \notin lost /\ readAt' = Rest /\ errand' = NoErrand
           \/ i \notin lost /\ UNCHANGED <<readAt, errand>>
    BY DEF WorkerFails, holeVars, Idle
  <1>2. readAt.pc # "closed" /\ i \in Part
    BY <1>1 DEF SegIInv, SegPlace, SegTypes, WorkerTypes
  <1>3. WorkerTypes' /\ Storing' \subseteq Storing
    BY <1>1, WorkerFree
  <1>4. CASE UNCHANGED <<readAt, errand>>
    BY <1>1, <1>2, <1>3, <1>4, WorkersMove
  <1>5. CASE readAt' = Rest /\ errand' = NoErrand
    BY <1>1, <1>3, <1>5, GoesIdle
  <1>6. CASE i \in lost /\ Wake(i, TRUE) /\ UNCHANGED errand /\ readAt.pc = "wait" /\ readAt.seg = i
    <2>1. /\ readAt' \in ReaderSet /\ readAt'.pc = "woken" /\ readAt'.seg = i /\ readAt'.failed = TRUE
          /\ readAt'.stack = readAt.stack /\ readAt'.chunk = readAt.chunk
      BY <1>2, <1>6, Wakes
    <2> HIDE DEF i
    <2>2. SegTypes'
      BY <1>1, <1>3, <1>6, <2>1 DEF SegIInv, SegTypes
    <2>3. SegPlace' /\ FreshInv'
      <3>1. errand.what \in {"read", "size"}
        BY <1>6 DEF SegIInv, SegPlace, Seeking
      <3> QED
        BY <1>1, <1>2, <1>6, <2>1, <3>1 DEF SegPlace, FreshInv, Seeking
    <2>4. CountInv'
      BY <1>1 DEF SegIInv, CountInv, CachedHoles, Cached
    <2>5. FirstInv'
      <3> SUFFICES ASSUME 0 \notin lost
                   PROVE  ChunkInv' /\ EarlyInv' /\ TrailOf(readAt.stack, readAt.seg)'
        BY <1>1 DEF FirstInv
      <3>1. ChunkInv /\ EarlyInv /\ TrailOf(readAt.stack, readAt.seg)
        BY <1>6 DEF SegIInv, FirstInv, Seeking
      <3>2. ChunkInv'
        BY <1>1, <2>1, <3>1 DEF ChunkInv, Cached, Good, GoodHole
      <3>3. EarlyInv'
        BY <1>1, <1>6, <2>1, <3>1 DEF EarlyInv, Seeking
      <3>4. TrailOf(readAt.stack, readAt.seg)'
        BY <1>1, <1>6, <2>1, <3>1 DEF TrailOf
      <3> QED
        BY <3>2, <3>3, <3>4
    <2> QED
      BY <2>2, <2>3, <2>4, <2>5 DEF SegIInv
  <1>7. CASE i \in lost /\ Wake(i, TRUE) /\ UNCHANGED errand /\ ~(readAt.pc = "wait" /\ readAt.seg = i)
    BY <1>4, <1>7 DEF Wake
  <1> QED
    BY <1>1, <1>4, <1>5, <1>6, <1>7

LEMMA WorkerArrivesKeeps == ASSUME SegIInv, NEW f \in Fetcher, WorkerArrives(f) PROVE SegIInv'
  <1> DEFINE i == worker[f].seg
  <1>1. /\ UNCHANGED <<lost, padTotal, errand>> /\ worker[f].does = "fetch" /\ i \notin lost
        /\ worker' = [worker EXCEPT ![f] = Free]
        /\ Fetched(i) /\ Wake(i, FALSE)
    BY DEF WorkerArrives, holeVars
  <1>2. readAt.pc # "closed" /\ i \in Part /\ SegTypes
    BY <1>1 DEF SegIInv, SegPlace, SegTypes, WorkerTypes
  <1>3. WorkerTypes' /\ Storing' = Storing \ {f} /\ f \in Storing
    BY <1>1, WorkerFree DEF Storing
  <1>4. /\ order' \in Seq(Part) /\ Len(order') <= CacheMost /\ chunks' \in [Part -> SegChunk]
        /\ typ' \in {0, RealSize[0]} /\ (typ' = 0 => typ = 0 /\ i # 0)
        /\ Store(i, Data(i)) /\ CountInv'
        /\ 0 \notin lost => /\ (\A j \in Part : Cached(j) => Good(j, chunks[j]))'
                            /\ (Cached(0) => typ # 0)'
    BY <1>1, <1>2, FetchedLeaves
  <1> HIDE DEF i
  <1>5. readAt \in ReaderSet /\ readAt.seg \in Int
    BY <1>2 DEF SegTypes, ReaderSet
  <1>6. /\ readAt' \in ReaderSet /\ readAt'.seg = readAt.seg /\ readAt'.stack = readAt.stack
        /\ readAt'.chunk = readAt.chunk
        /\ \/ readAt' = readAt
           \/ readAt.pc = "wait" /\ readAt'.pc = "woken" /\ readAt'.seg = i /\ readAt'.failed = FALSE
    <2>1. CASE readAt.pc = "wait" /\ readAt.seg = i
      BY <1>1, <1>2, <2>1, Wakes
    <2>2. CASE ~(readAt.pc = "wait" /\ readAt.seg = i)
      BY <1>1, <1>5, <2>2 DEF Wake
    <2> QED
      BY <2>1, <2>2
  <1>7. SegTypes'
    BY <1>1, <1>2, <1>3, <1>4, <1>6 DEF SegTypes
  <1>8. SegPlace'
    <2>1. CASE readAt' = readAt
      BY <1>1, <1>2, <2>1 DEF SegIInv, SegPlace
    <2>2. CASE readAt.pc = "wait" /\ readAt'.pc = "woken" /\ readAt'.seg = i /\ readAt'.failed = FALSE
      <3>1. errand.what \in {"read", "size"}
        BY <2>2 DEF SegIInv, SegPlace, Seeking
      <3> QED
        BY <1>1, <1>2, <2>2, <3>1 DEF SegPlace, Seeking
    <2> QED
      BY <1>6, <2>1, <2>2
  <1>9. FreshInv'
    <2>1. /\ Cardinality(Storing) \in Nat /\ Cardinality(Storing') \in Nat
          /\ Cardinality(Storing') + 1 <= Cardinality(Storing) /\ Cardinality(Storing') < Cardinality(Fetcher)
      <3>1. IsFiniteSet(Storing) /\ Cardinality(Storing \ {f}) = Cardinality(Storing) - 1
        BY <1>3, StoringFinite, FS_RemoveElement
      <3>2. Cardinality(Storing) \in Nat /\ Cardinality(Storing) <= Cardinality(Fetcher) /\ Cardinality(Fetcher) \in Nat
        BY StoringFinite, SegNats
      <3>3. IsFiniteSet(Storing \ {f})
        BY <3>1, FS_Subset
      <3>4. Cardinality(Storing \ {f}) \in Nat
        BY <3>3, FS_CardinalityType
      <3> QED
        BY <1>3, <3>1, <3>2, <3>4
    <2> SUFFICES ASSUME readAt'.pc = "woken", ~readAt'.failed
                 PROVE  StillCached(readAt'.seg, order', Cardinality(Storing'))
      BY DEF FreshInv, StillCached
    <2>2. CASE readAt' = readAt
      <3>1. StillCached(readAt.seg, order, Cardinality(Storing)) /\ readAt.seg \in Part
        BY <2>2 DEF SegIInv, FreshInv, SegPlace, Seeking
      <3>2. StillCached(readAt.seg, order', Cardinality(Storing'))
        BY <1>2, <1>4, <2>1, <3>1, StoreFresh
      <3> QED
        BY <2>2, <3>2
    <2>3. CASE readAt'.seg = i
      <3>1. StillCached(i, order', Cardinality(Storing'))
        BY <1>2, <1>4, <2>1, StoreNew
      <3> QED
        BY <2>3, <3>1
    <2> QED
      BY <1>6, <2>2, <2>3
  <1>10. FirstInv'
    <2> SUFFICES ASSUME 0 \notin lost
                 PROVE  ChunkInv' /\ EarlyInv' /\ (readAt'.pc \in Seeking => TrailOf(readAt.stack, readAt.seg)')
      BY <1>1 DEF FirstInv
    <2>1. ChunkInv /\ EarlyInv /\ (readAt.pc \in Seeking => TrailOf(readAt.stack, readAt.seg))
      BY DEF SegIInv, FirstInv
    <2>2. (readAt'.pc \in Seeking <=> readAt.pc \in Seeking) /\ (readAt'.pc = "have" => readAt.pc = "have")
      BY <1>6 DEF Seeking
    <2>3. ChunkInv'
      <3>1. (readAt.pc = "have" => Good(readAt.seg, readAt.chunk))'
        BY <1>1, <1>6, <2>1, <2>2 DEF ChunkInv, Good, GoodHole
      <3>2. (readAt.pc = "have" /\ typ = 0 => readAt.seg # 0)'
        BY <1>4, <1>6, <2>1, <2>2 DEF ChunkInv
      <3> QED
        BY <1>4, <3>1, <3>2 DEF ChunkInv
    <2>4. EarlyInv'
      <3> SUFFICES ASSUME typ' = 0 PROVE EarlyInv'
        BY DEF EarlyInv
      <3>1. typ = 0
        BY <1>4
      <3>2. readAt'.pc \notin {"guess", "prefetch"}
        BY <1>6, <2>1, <3>1 DEF EarlyInv
      <3> QED
        BY <1>1, <1>6, <2>1, <2>2, <3>1, <3>2 DEF EarlyInv
    <2>5. readAt'.pc \in Seeking => TrailOf(readAt.stack, readAt.seg)'
      BY <1>1, <1>6, <2>1, <2>2 DEF TrailOf
    <2> QED
      BY <2>3, <2>4, <2>5
  <1> QED
    BY <1>4, <1>7, <1>8, <1>9, <1>10 DEF SegIInv

LEMMA SegInitially == ASSUME SegmentInit PROVE SegIInv
  <1>1. /\ lost = {} /\ chunks = [i \in Part |-> Absent] /\ order = <<>> /\ typ = 0 /\ padTotal = 0
        /\ errand = NoErrand /\ readAt = [Rest EXCEPT !.pc = "closed"] /\ worker = [f \in Fetcher |-> Free]
    BY DEF SegmentInit
  <1>2. readAt \in ReaderSet /\ readAt.pc = "closed" /\ readAt.stack = <<>>
    <2>1. "closed" \in ReaderPc /\ Rest \in ReaderSet /\ Rest.stack = <<>>
      BY RestIs DEF ReaderPc
    <2> QED
      BY <1>1, <2>1 DEF ReaderSet
  <1>3. order \in Seq(Part) /\ Len(order) = 0 /\ CacheMost \in Nat
    BY <1>1, SegNats
  <1>4. WorkerTypes /\ \A f \in Fetcher : worker[f].does = "free"
    BY <1>1 DEF WorkerTypes, Free, NotYet
  <1>5. SegTypes
    BY <1>1, <1>2, <1>3, <1>4, RestIs DEF SegTypes
  <1>6. SegPlace /\ FreshInv
    BY <1>1, <1>2, <1>4 DEF SegPlace, FreshInv, Seeking
  <1>7. \A i : ~Cached(i)
    BY <1>1 DEF Cached, ToSet
  <1>8. CountInv
    <2>1. CachedHoles = {}
      BY <1>7 DEF CachedHoles
    <2>2. Cardinality(CachedHoles) = 0
      BY <2>1, FS_EmptySet
    <2> QED
      BY <1>1, <2>2, SegNats DEF CountInv
  <1>9. FirstInv
    BY <1>2, <1>7 DEF FirstInv, ChunkInv, EarlyInv, Seeking
  <1> QED
    BY <1>5, <1>6, <1>8, <1>9 DEF SegIInv

LEMMA SegStepKeeps == ASSUME SegIInv, [SegmentNext]_segmentVars PROVE SegIInv'
  <1>1. CASE UNCHANGED segmentVars
    <2>1. UNCHANGED <<lost, chunks, order, typ, padTotal, readAt, errand, worker>>
      BY <1>1 DEF segmentVars, cacheVars, holeVars, readerVars
    <2>2. WorkerTypes' /\ Storing' \subseteq Storing
      BY <2>1 DEF SegIInv, SegTypes, WorkerTypes, Storing
    <2> QED
      BY <2>1, <2>2, WorkersMove
  <1>2. CASE \E gone \in LostSets : OpenReader(gone)
    BY <1>2, OpenKeeps
  <1>3. CASE \E off \in 0..TrueSize, len \in ReadLens : ReadAt(off, off + len)
    BY <1>3, ReadAtKeeps
  <1>4. CASE SegSize
    BY <1>4, SegSizeKeeps
  <1>5. CASE ReaderStep
    BY <1>5, FirstSegmentKeeps, GuessKeeps, SeekKeeps, SeekArrivesKeeps, SeekMissingKeeps, SeekFailsKeeps, WokenKeeps,
       HoleKeeps, PadKeeps, HaveFirstKeeps, HaveSizeKeeps, HaveOtherKeeps, CopyKeeps, PrefetchKeeps DEF ReaderStep
  <1>6. CASE \E f \in Fetcher : WorkerStep(f)
    BY <1>6, WorkerStartsKeeps, WorkerArrivesKeeps, WorkerFailsKeeps, WorkerDoneKeeps DEF WorkerStep
  <1> QED
    BY <1>1, <1>2, <1>3, <1>4, <1>5, <1>6 DEF SegmentNext

\* A byte of a hole in its place is a byte of a lost article, or past the end.
LEMMA HoleIsLost ==
  ASSUME lost \subseteq Part, NEW i \in Part, NEW c \in SegChunk, GoodHole(i, c), NEW off \in Nat,
         c.begin <= off, off < c.end
  PROVE  off >= TrueSize \/ \E j \in lost : Off(j) <= off /\ off < Off(j + 1)
  <1>1. PICK k \in 1 .. i : /\ k .. i \subseteq lost /\ Off(k) <= c.begin
                            /\ c.end <= Off(i + 1) \/ i .. (Parts - 1) \subseteq lost
    BY DEF GoodHole
  <1>2. /\ i \in Nat /\ i < Parts /\ Parts \in Nat /\ k \in 0 .. Parts /\ i + 1 \in 0 .. Parts /\ Parts \in 0 .. Parts
        /\ k <= i + 1 /\ k <= Parts
    BY SegNats DEF Part
  <1>3. Off(k) \in Nat /\ Off(i + 1) \in Nat /\ Off(Parts) \in Nat /\ c.begin \in Nat /\ c.end \in Nat
    BY <1>2, OffNat DEF SegChunk
  <1>4. Off(k) <= off
    BY <1>1, <1>3
  <1>5. CASE c.end <= Off(i + 1)
    <2>1. off < Off(i + 1)
      BY <1>3, <1>5
    <2>2. PICK j \in k .. ((i + 1) - 1) : Off(j) <= off /\ off < Off(j + 1)
      BY <1>2, <1>4, <2>1, ByteIsIn
    <2>3. j \in k .. i
      BY <1>2
    <2> QED
      BY <1>1, <2>2, <2>3
  <1>6. CASE i .. (Parts - 1) \subseteq lost
    <2>1. CASE off < Off(Parts)
      <3>1. PICK j \in k .. (Parts - 1) : Off(j) <= off /\ off < Off(j + 1)
        BY <1>2, <1>4, <2>1, ByteIsIn
      <3>2. j \in k .. i \/ j \in i .. (Parts - 1)
        BY <1>2
      <3> QED
        BY <1>1, <1>6, <3>1, <3>2
    <2>2. CASE ~(off < Off(Parts))
      BY <1>3, <2>2 DEF TrueSize
    <2> QED
      BY <2>1, <2>2
  <1> QED
    BY <1>1, <1>5, <1>6

LEMMA SegIsSafe == ASSUME SegIInv PROVE NoNilChunk /\ ZerosOnlyLost /\ HolesLimited
  <1>1. NoNilChunk
    BY DEF SegIInv, SegTypes, ReaderSet, ReaderPc, Seeking, NoNilChunk
  <1>2. HolesLimited
    BY DEF SegIInv, CountInv, CachedHoles, HolesLimited
  <1>3. ZerosOnlyLost
    <2> SUFFICES ASSUME 0 \notin lost, Have, readAt.chunk.hole, readAt.chunk.begin <= errand.off,
                        errand.off < readAt.chunk.end
                 PROVE  errand.off >= TrueSize \/ \E i \in lost : Off(i) <= errand.off /\ errand.off < Off(i + 1)
      BY DEF ZerosOnlyLost
    <2>1. readAt.pc = "have" /\ readAt.seg \in Part
      BY DEF Have, SegIInv, SegPlace, Seeking
    <2>2. GoodHole(readAt.seg, readAt.chunk)
      BY <2>1 DEF SegIInv, FirstInv, ChunkInv, Good
    <2>3. errand.off \in Nat /\ readAt.chunk \in SegChunk /\ lost \subseteq Part
      BY DEF SegIInv, SegTypes, ReaderSet
    <2> QED
      BY <2>1, <2>2, <2>3, HoleIsLost
  <1> QED
    BY <1>1, <1>2, <1>3

(* The reader of a file with holes (FileReaderAt): who waited for a fetch  *)
(* finds the chunk or the error, zeros are sent only for what is lost or   *)
(* past the end when the first article is there, and a file is padded at   *)
(* no more places than the limit.                                          *)
THEOREM SegmentHolds == SegmentSpec => [](NoNilChunk /\ ZerosOnlyLost /\ HolesLimited)
  <1>1. SegmentInit => SegIInv
    BY SegInitially
  <1>2. SegIInv /\ [SegmentNext]_segmentVars => SegIInv'
    BY SegStepKeeps
  <1>3. SegIInv => NoNilChunk /\ ZerosOnlyLost /\ HolesLimited
    BY SegIsSafe
  <1> QED
    BY <1>1, <1>2, <1>3, PTL DEF SegmentSpec

-----------------------------------------------------------------------------
(* Things laid one after another.                                          *)

\* The first m + 1 offsets of things of these lengths.
OffsetTable(g, lens, m) == g = [i \in 1 .. m + 1 |-> IF i = 1 THEN 0 ELSE g[i - 1] + lens[i - 1]]

LEMMA OffsetTables ==
  ASSUME NEW lens, NEW m \in Nat
  PROVE  \E g : OffsetTable(g, lens, m)
  <1> DEFINE Bad == {n \in Nat : ~\E g : OffsetTable(g, lens, n)}
  <1> SUFFICES ASSUME Bad # {} PROVE FALSE
    OBVIOUS
  <1>1. PICK n \in Bad : \A k \in Bad : n <= k
    <2>1. Bad \subseteq Nat
      OBVIOUS
    <2> HIDE DEF Bad
    <2> QED
      BY <2>1, LeastOf
  <1>2. n # 0
    <2>1. OffsetTable([i \in 1 .. 0 + 1 |-> 0], lens, 0)
      BY DEF OffsetTable
    <2> QED
      BY <1>1, <2>1
  <1>3. n \in Nat /\ n - 1 \in Nat /\ n - 1 \notin Bad
    BY <1>1, <1>2
  <1>4. PICK g : OffsetTable(g, lens, n - 1)
    BY <1>3
  <1> DEFINE h == [i \in 1 .. n + 1 |-> IF i = n + 1 THEN g[n] + lens[n] ELSE g[i]]
  <1>5. g = [i \in 1 .. n |-> IF i = 1 THEN 0 ELSE g[i - 1] + lens[i - 1]]
    BY <1>3, <1>4 DEF OffsetTable
  <1>6. ASSUME NEW i \in 1 .. n + 1 PROVE h[i] = IF i = 1 THEN 0 ELSE h[i - 1] + lens[i - 1]
    <2>1. CASE i = n + 1
      <3>1. i # 1 /\ i - 1 = n /\ n \in 1 .. n + 1 /\ n # n + 1
        BY <1>2, <1>3, <2>1
      <3> QED
        BY <2>1, <3>1
    <2>2. CASE i # n + 1
      <3>1. i \in 1 .. n /\ (i # 1 => i - 1 \in 1 .. n + 1 /\ i - 1 # n + 1)
        BY <1>3, <2>2
      <3>2. g[i] = IF i = 1 THEN 0 ELSE g[i - 1] + lens[i - 1]
        BY <1>5, <3>1
      <3> QED
        BY <2>2, <3>1, <3>2
    <2> QED
      BY <2>1, <2>2
  <1>7. h = [i \in 1 .. n + 1 |-> h[i]]
    OBVIOUS
  <1> HIDE DEF h
  <1>8. OffsetTable(h, lens, n)
    BY <1>6, <1>7 DEF OffsetTable
  <1> QED
    BY <1>1, <1>8

Lengths(lens, n) == n \in Nat /\ Len(lens) = n /\ \A i \in 1 .. n : lens[i] \in Nat

LEMMA OffsetsAre ==
  ASSUME NEW lens, NEW n, Lengths(lens, n)
  PROVE  /\ Offsets(lens) = [i \in 1 .. n + 1 |-> Offsets(lens)[i]]
         /\ Offsets(lens)[1] = 0
         /\ \A i \in 1 .. n : Offsets(lens)[i + 1] = Offsets(lens)[i] + lens[i]
         /\ \A i \in 1 .. n + 1 : Offsets(lens)[i] \in Nat
  <1> USE DEF Lengths
  <1> DEFINE at == Offsets(lens)
  <1>1. at = CHOOSE g : OffsetTable(g, lens, n)
    BY DEF Offsets, OffsetTable
  <1>2. OffsetTable(at, lens, n)
    BY <1>1, OffsetTables
  <1> HIDE DEF at
  <1>3. at = [i \in 1 .. n + 1 |-> IF i = 1 THEN 0 ELSE at[i - 1] + lens[i - 1]]
    BY <1>2 DEF OffsetTable
  <1>4. at[1] = 0
    BY <1>3
  <1>5. ASSUME NEW i \in 1 .. n PROVE at[i + 1] = at[i] + lens[i]
    <2>1. i + 1 \in 1 .. n + 1 /\ i + 1 # 1 /\ (i + 1) - 1 = i
      OBVIOUS
    <2>2. at[i + 1] = at[(i + 1) - 1] + lens[(i + 1) - 1]
      BY <1>3, <2>1
    <2> QED
      BY <2>1, <2>2
  <1>6. \A i \in 1 .. n + 1 : at[i] \in Nat
    <2> DEFINE Bad == {i \in 1 .. n + 1 : at[i] \notin Nat}
    <2> SUFFICES ASSUME Bad # {} PROVE FALSE
      OBVIOUS
    <2>1. PICK i \in Bad : \A k \in Bad : i <= k
      <3>1. Bad \subseteq Nat
        OBVIOUS
      <3> HIDE DEF Bad
      <3> QED
        BY <3>1, LeastOf
    <2>2. i # 1 /\ i \in 1 .. n + 1
      BY <1>4, <2>1
    <2>3. i - 1 \in 1 .. n /\ (i - 1) + 1 = i /\ i - 1 \in 1 .. n + 1
      BY <2>2
    <2>4. at[i - 1] \in Nat
      BY <2>1, <2>3
    <2>5. at[(i - 1) + 1] = at[i - 1] + lens[i - 1]
      BY <1>5, <2>3
    <2> QED
      BY <2>1, <2>3, <2>4, <2>5
  <1>7. at = [i \in 1 .. n + 1 |-> at[i]]
    BY <1>3
  <1> QED
    BY <1>4, <1>5, <1>6, <1>7 DEF at

\* The first m steps of FlattenSeq.
FlattenTable(g, ss, m) == g = [i \in 1 .. m |-> IF i = 1 THEN ss[i] ELSE g[i - 1] \o ss[i]]

LEMMA FlattenTables ==
  ASSUME NEW ss, NEW m \in Nat
  PROVE  \E g : FlattenTable(g, ss, m)
  <1> DEFINE Bad == {n \in Nat : ~\E g : FlattenTable(g, ss, n)}
  <1> SUFFICES ASSUME Bad # {} PROVE FALSE
    OBVIOUS
  <1>1. PICK n \in Bad : \A k \in Bad : n <= k
    <2>1. Bad \subseteq Nat
      OBVIOUS
    <2> HIDE DEF Bad
    <2> QED
      BY <2>1, LeastOf
  <1>2. n # 0
    <2> DEFINE e == [i \in 1 .. 0 |-> <<>>]
    <2>1. e = [i \in 1 .. 0 |-> IF i = 1 THEN ss[i] ELSE e[i - 1] \o ss[i]]
      OBVIOUS
    <2> HIDE DEF e
    <2>2. FlattenTable(e, ss, 0)
      BY <2>1 DEF FlattenTable
    <2> QED
      BY <1>1, <2>2
  <1>3. n \in Nat /\ n - 1 \in Nat /\ n - 1 \notin Bad
    BY <1>1, <1>2
  <1>4. PICK g : FlattenTable(g, ss, n - 1)
    BY <1>3
  <1> DEFINE h == [i \in 1 .. n |-> IF i # n THEN g[i] ELSE IF n = 1 THEN ss[n] ELSE g[n - 1] \o ss[n]]
  <1>5. g = [i \in 1 .. n - 1 |-> IF i = 1 THEN ss[i] ELSE g[i - 1] \o ss[i]]
    BY <1>4 DEF FlattenTable
  <1>6. ASSUME NEW i \in 1 .. n PROVE h[i] = IF i = 1 THEN ss[i] ELSE h[i - 1] \o ss[i]
    <2>0. i # 1 => i - 1 \in 1 .. n /\ i - 1 # n
      BY <1>3
    <2>1. CASE i = n
      BY <2>0, <2>1
    <2>2. CASE i # n
      <3>1. i \in 1 .. n - 1
        BY <1>3, <2>2
      <3>2. g[i] = IF i = 1 THEN ss[i] ELSE g[i - 1] \o ss[i]
        BY <1>5, <3>1
      <3> QED
        BY <2>0, <2>2, <3>1, <3>2
    <2> QED
      BY <2>1, <2>2
  <1>7. h = [i \in 1 .. n |-> h[i]]
    OBVIOUS
  <1> HIDE DEF h
  <1>8. FlattenTable(h, ss, n)
    BY <1>6, <1>7 DEF FlattenTable
  <1> QED
    BY <1>1, <1>8

\* FlattenSeq by its steps.
LEMMA FlattenSteps ==
  ASSUME NEW ss, NEW n \in Nat \ {0}, Len(ss) = n
  PROVE  \E g : /\ FlattenSeq(ss) = g[n]
                /\ g[1] = ss[1]
                /\ \A i \in 2 .. n : g[i] = g[i - 1] \o ss[i]
  <1> DEFINE g == CHOOSE x : FlattenTable(x, ss, n)
  <1>1. FlattenSeq(ss) = g[n]
    BY DEF FlattenSeq, FlattenTable
  <1>2. FlattenTable(g, ss, n)
    BY FlattenTables
  <1> HIDE DEF g
  <1>3. g = [i \in 1 .. n |-> IF i = 1 THEN ss[i] ELSE g[i - 1] \o ss[i]]
    BY <1>2 DEF FlattenTable
  <1>4. g[1] = ss[1]
    <2>1. 1 \in 1 .. n
      OBVIOUS
    <2> QED
      BY <1>3, <2>1
  <1>5. ASSUME NEW i \in 2 .. n PROVE g[i] = g[i - 1] \o ss[i]
    <2>1. i \in 1 .. n /\ i # 1
      OBVIOUS
    <2> QED
      BY <1>3, <2>1
  <1> QED
    BY <1>1, <1>4, <1>5

\* Cuts of a sequence, one after another, flatten to it.
CutsOf(T, n, ss, off) ==
  /\ n \in Nat /\ Len(ss) = n /\ (n = 0 => ss = <<>>)
  /\ off[0] = 0 /\ off[n] = Len(T)
  /\ \A i \in 0 .. n : off[i] \in 0 .. Len(T)
  /\ \A i \in 1 .. n : off[i - 1] <= off[i] /\ ss[i] = SubSeq(T, off[i - 1] + 1, off[i])

LEMMA FlattenCuts ==
  ASSUME NEW S, NEW T \in Seq(S), NEW n, NEW ss, NEW off, CutsOf(T, n, ss, off)
  PROVE  FlattenSeq(ss) = T
  <1> USE DEF CutsOf
  <1>1. CASE n = 0
    <2>1. Len(T) = 0
      BY <1>1
    <2>2. T = <<>>
      BY <2>1, EmptySeq
    <2>3. FlattenSeq(ss) = ss
      BY <1>1 DEF FlattenSeq
    <2> QED
      BY <1>1, <2>2, <2>3
  <1>2. CASE n # 0
    <2>1. PICK g : /\ FlattenSeq(ss) = g[n]
                   /\ g[1] = ss[1]
                   /\ \A i \in 2 .. n : g[i] = g[i - 1] \o ss[i]
      <3>1. n \in Nat \ {0}
        BY <1>2
      <3> QED
        BY <3>1, FlattenSteps, Zenon
    <2> DEFINE Bad == {i \in 1 .. n : g[i] # SubSeq(T, 1, off[i])}
    <2>2. Bad = {}
      <3> SUFFICES ASSUME Bad # {} PROVE FALSE
        OBVIOUS
      <3>1. PICK i \in Bad : \A k \in Bad : i <= k
        <4>1. Bad \subseteq Nat
          OBVIOUS
        <4> HIDE DEF Bad
        <4> QED
          BY <4>1, LeastOf
      <3>2. i # 1
        <4>1. 1 \in 1 .. n /\ 1 - 1 = 0 /\ 0 + 1 = 1
          BY <1>2
        <4>3. ss[1] = SubSeq(T, off[1 - 1] + 1, off[1]) /\ off[0] = 0
          BY <4>1
        <4>2. ss[1] = SubSeq(T, 1, off[1])
          BY <4>1, <4>3
        <4> QED
          BY <2>1, <3>1, <4>2
      <3>3. i \in 2 .. n /\ i - 1 \in 1 .. n /\ i - 1 \in 0 .. n /\ i \in 1 .. n /\ i \in 0 .. n
        BY <3>1, <3>2
      <3>4. g[i - 1] = SubSeq(T, 1, off[i - 1])
        BY <3>1, <3>3
      <3>5. g[i] = SubSeq(T, 1, off[i - 1]) \o SubSeq(T, off[i - 1] + 1, off[i])
        BY <2>1, <3>3, <3>4
      <3> DEFINE a == off[i - 1]
                 b == off[i]
      <3>6. a \in 0 .. Len(T) /\ b \in 0 .. Len(T) /\ a <= b /\ Len(T) \in Nat
        BY <3>3
      <3> HIDE DEF a, b
      <3>7. SubSeq(T, 1, a) \o SubSeq(T, a + 1, b) = SubSeq(T, 1, b)
        <4>1. 1 \in 1 .. Len(T) + 1 /\ a \in 1 - 1 .. Len(T) /\ b \in a .. Len(T)
          BY <3>6
        <4> QED
          BY <4>1, ConcatAdjacentSubSeq
      <3> QED
        BY <3>1, <3>5, <3>7 DEF a, b
    <2>3. n \in 1 .. n
      BY <1>2
    <2>4. g[n] = SubSeq(T, 1, Len(T))
      BY <2>2, <2>3
    <2> QED
      BY <2>1, <2>4, SubSeqFull
  <1> QED
    BY <1>1, <1>2

\* What is flattened is found again, each piece at its offset.
LaidOut(S, n, ss, off) ==
  /\ n \in Nat /\ Len(ss) = n /\ (n = 0 => ss = <<>>)
  /\ \A i \in 1 .. n : ss[i] \in Seq(S)
  /\ off[0] = 0
  /\ \A i \in 1 .. n : off[i - 1] \in Nat /\ off[i] = off[i - 1] + Len(ss[i])

LEMMA FlattenFinds ==
  ASSUME NEW S, NEW n, NEW ss, NEW off, LaidOut(S, n, ss, off)
  PROVE  /\ FlattenSeq(ss) \in Seq(S)
         /\ Len(FlattenSeq(ss)) = off[n]
         /\ \A i \in 1 .. n : \A j \in 1 .. Len(ss[i]) :
              off[i - 1] + j \in 1 .. off[n] /\ FlattenSeq(ss)[off[i - 1] + j] = ss[i][j]
  <1> USE DEF LaidOut
  <1>1. CASE n = 0
    <2>1. FlattenSeq(ss) = <<>>
      BY <1>1 DEF FlattenSeq
    <2>2. <<>> \in Seq(S) /\ Len(<<>>) = 0
      BY EmptySeq
    <2> QED
      BY <1>1, <2>1, <2>2
  <1>2. CASE n # 0
    <2>1. PICK g : /\ FlattenSeq(ss) = g[n]
                   /\ g[1] = ss[1]
                   /\ \A i \in 2 .. n : g[i] = g[i - 1] \o ss[i]
      <3>1. n \in Nat \ {0}
        BY <1>2
      <3> QED
        BY <3>1, FlattenSteps, Zenon
    <2> DEFINE Fine(m) == /\ g[m] \in Seq(S)
                          /\ Len(g[m]) = off[m]
                          /\ \A i \in 1 .. m : \A j \in 1 .. Len(ss[i]) :
                               off[i - 1] + j \in 1 .. off[m] /\ g[m][off[i - 1] + j] = ss[i][j]
               Bad == {m \in 1 .. n : ~Fine(m)}
    <2>2. Fine(1)
      <3>1. ss[1] \in Seq(S) /\ off[1 - 1] = 0 /\ off[1] = off[1 - 1] + Len(ss[1]) /\ Len(ss[1]) \in Nat
        BY <1>2
      <3>2. \A i \in 1 .. 1 : i = 1
        OBVIOUS
      <3> QED
        BY <2>1, <3>1, <3>2
    <2>3. ASSUME NEW m \in 2 .. n, Fine(m - 1) PROVE Fine(m)
      <3> DEFINE s == g[m - 1]
                 t == ss[m]
      <3>1. m \in 1 .. n /\ m - 1 \in 1 .. n /\ off[m - 1] \in Nat
        <4>1. m \in 1 .. n /\ m - 1 \in 1 .. n
          OBVIOUS
        <4> QED
          BY <4>1
      <3>2. s \in Seq(S) /\ t \in Seq(S) /\ g[m] = s \o t /\ Len(s) = off[m - 1] /\ off[m] = Len(s) + Len(t)
        BY <2>1, <2>3, <3>1
      <3>2a. \A i \in 1 .. (m - 1) : \A j \in 1 .. Len(ss[i]) :
               off[i - 1] + j \in 1 .. off[m - 1] /\ s[off[i - 1] + j] = ss[i][j]
        BY <2>3
      <3> HIDE DEF s, Fine
      <3>3. /\ s \o t \in Seq(S) /\ Len(s \o t) = Len(s) + Len(t)
            /\ \A k \in 1 .. Len(s) + Len(t) : (s \o t)[k] = IF k <= Len(s) THEN s[k] ELSE t[k - Len(s)]
        <4> HIDE DEF t
        <4> QED
          BY <3>2, ConcatProperties
      <3>4. Len(s) \in Nat /\ Len(t) \in Nat
        <4> HIDE DEF t
        <4> QED
          BY <3>2
      <3>5. ASSUME NEW i \in 1 .. m, NEW j \in 1 .. Len(ss[i])
            PROVE  off[i - 1] + j \in 1 .. off[m] /\ g[m][off[i - 1] + j] = ss[i][j]
        <4>0. i \in 1 .. n /\ off[i - 1] \in Nat /\ Len(ss[i]) \in Nat /\ j \in Nat
          BY <3>1
        <4>1. CASE i = m
          <5>1. j \in 1 .. Len(t) /\ off[i - 1] = Len(s)
            BY <3>2, <4>1
          <5>2. Len(s) + j \in 1 .. Len(s) + Len(t) /\ ~(Len(s) + j <= Len(s)) /\ (Len(s) + j) - Len(s) = j
            <6> DEFINE a == Len(s)
                       b == Len(t)
            <6>1. a \in Nat /\ b \in Nat /\ j \in 1 .. b
              BY <3>4, <5>1
            <6> HIDE DEF a, b
            <6>2. a + j \in 1 .. a + b /\ ~(a + j <= a) /\ (a + j) - a = j
              BY <6>1
            <6> QED
              BY <6>2 DEF a, b
          <5>3. (s \o t)[Len(s) + j] = t[j]
            BY <3>3, <5>2
          <5> QED
            BY <3>2, <4>1, <5>1, <5>2, <5>3
        <4>2. CASE i # m
          <5>1. i \in 1 .. (m - 1)
            BY <4>2
          <5>2. off[i - 1] + j \in 1 .. Len(s) /\ s[off[i - 1] + j] = ss[i][j]
            BY <3>2, <3>2a, <5>1
          <5>3. (s \o t)[off[i - 1] + j] = s[off[i - 1] + j] /\ off[i - 1] + j \in 1 .. Len(s) + Len(t)
            <6> DEFINE a == Len(s)
                       b == Len(t)
                       k == off[i - 1] + j
            <6>1. a \in Nat /\ b \in Nat /\ k \in 1 .. a
              BY <3>4, <5>2
            <6> HIDE DEF k
            <6>2. k \in 1 .. a + b /\ k <= a
              BY <6>1
            <6>3. (s \o t)[k] = s[k]
              BY <3>3, <6>2
            <6> QED
              BY <6>2, <6>3 DEF k
          <5> QED
            BY <3>2, <5>2, <5>3
        <4> QED
          BY <4>1, <4>2
      <3> QED
        BY <3>2, <3>3, <3>5 DEF Fine
    <2> HIDE DEF Fine
    <2>4. Bad = {}
      <3> SUFFICES ASSUME Bad # {} PROVE FALSE
        OBVIOUS
      <3>1. PICK m \in Bad : \A k \in Bad : m <= k
        <4>1. Bad \subseteq Nat
          OBVIOUS
        <4> HIDE DEF Bad
        <4> QED
          BY <4>1, LeastOf
      <3>2. m \in 2 .. n /\ m - 1 \in 1 .. n
        BY <2>2, <3>1
      <3>3. Fine(m - 1)
        BY <3>1, <3>2
      <3> QED
        BY <2>3, <3>1, <3>2, <3>3
    <2>5. Fine(n)
      BY <1>2, <2>4
    <2> QED
      BY <2>1, <2>5 DEF Fine
  <1> QED
    BY <1>1, <1>2

\* Offsets lo to hi are offsets of k things, or none.
Within(lo, hi, k) == lo \in Nat /\ hi \in Int /\ k \in Nat /\ hi < k /\ lo <= hi + 1

LEMMA SliceIs ==
  ASSUME NEW S, NEW W \in Seq(S), NEW lo, NEW hi, Within(lo, hi, Len(W))
  PROVE  /\ Slice(W, lo, hi) \in Seq(S)
         /\ Len(Slice(W, lo, hi)) = hi - lo + 1
         /\ \A i \in 1 .. (hi - lo + 1) : Slice(W, lo, hi)[i] = W[lo + i]
  <1> USE DEF Within
  <1> DEFINE m == lo + 1
             n == hi + 1
  <1>1. m \in Int /\ n \in Int /\ Len(W) \in Nat
    OBVIOUS
  <1>2. \A i \in m .. n : W[i] \in S
    <2>1. \A i \in m .. n : i \in 1 .. Len(W)
      BY <1>1
    <2> QED
      BY <2>1, ElementOfSeq
  <1> HIDE DEF m, n
  <1>3. /\ SubSeq(W, m, n) \in Seq(S)
        /\ Len(SubSeq(W, m, n)) = IF m <= n THEN n - m + 1 ELSE 0
        /\ \A i \in 1 .. n - m + 1 : SubSeq(W, m, n)[i] = W[m + i - 1]
    BY <1>1, <1>2, SubSeqProperties
  <1>4. (IF m <= n THEN n - m + 1 ELSE 0) = hi - lo + 1
    BY DEF m, n
  <1>5. ASSUME NEW i \in 1 .. (hi - lo + 1) PROVE SubSeq(W, m, n)[i] = W[lo + i]
    <2>1. i \in 1 .. n - m + 1 /\ m + i - 1 = lo + i
      BY DEF m, n
    <2> QED
      BY <1>3, <2>1
  <1> QED
    BY <1>3, <1>4, <1>5 DEF Slice, m, n

\* A part of a part, by the offsets in the first.
LEMMA SliceOfSlice ==
  ASSUME NEW S, NEW W \in Seq(S), NEW lo, NEW hi, Within(lo, hi, Len(W)),
         NEW c, NEW d, Within(c, d, hi - lo + 1)
  PROVE  Slice(Slice(W, lo, hi), c, d) = Slice(W, lo + c, lo + d)
  <1> DEFINE V == Slice(W, lo, hi)
             A == Slice(V, c, d)
             B == Slice(W, lo + c, lo + d)
  <1>0. Within(lo + c, lo + d, Len(W)) /\ lo \in Int /\ hi \in Int /\ c \in Int /\ d \in Int
    BY DEF Within
  <1>1. V \in Seq(S) /\ Len(V) = hi - lo + 1 /\ \A i \in 1 .. (hi - lo + 1) : V[i] = W[lo + i]
    BY SliceIs
  <1> HIDE DEF V
  <1>2. Within(c, d, Len(V))
    BY <1>1
  <1>3. A \in Seq(S) /\ Len(A) = d - c + 1 /\ \A i \in 1 .. (d - c + 1) : A[i] = V[c + i]
    <2>1. V \in Seq(S)
      BY <1>1
    <2> QED
      BY <1>2, <2>1, SliceIs
  <1>4. /\ B \in Seq(S) /\ Len(B) = (lo + d) - (lo + c) + 1
        /\ \A i \in 1 .. ((lo + d) - (lo + c) + 1) : B[i] = W[(lo + c) + i]
    <2> DEFINE x == lo + c
               y == lo + d
    <2>1. Within(x, y, Len(W))
      BY <1>0
    <2> HIDE DEF x, y
    <2>2. /\ Slice(W, x, y) \in Seq(S) /\ Len(Slice(W, x, y)) = y - x + 1
          /\ \A i \in 1 .. (y - x + 1) : Slice(W, x, y)[i] = W[x + i]
      BY <2>1, SliceIs
    <2> QED
      BY <2>2 DEF x, y
  <1> HIDE DEF A, B
  <1>5. Len(A) = Len(B)
    BY <1>0, <1>3, <1>4
  <1>6. ASSUME NEW i \in 1 .. Len(A) PROVE A[i] = B[i]
    <2>0. i \in 1 .. (d - c + 1) /\ c \in Nat /\ d < hi - lo + 1
      BY <1>3 DEF Within
    <2>1. i \in 1 .. (d - c + 1) /\ c + i \in 1 .. (hi - lo + 1) /\ lo + (c + i) = (lo + c) + i
      BY <1>0, <2>0
    <2>2. A[i] = V[c + i] /\ V[c + i] = W[lo + (c + i)]
      BY <1>1, <1>3, <2>1
    <2>3. i \in 1 .. ((lo + d) - (lo + c) + 1)
      BY <1>0, <2>1
    <2> QED
      BY <1>4, <2>1, <2>2, <2>3
  <1>7. A = B
    BY <1>3, <1>4, <1>5, <1>6, SeqEqual
  <1> QED
    BY <1>7 DEF A, B, V

LEMMA SliceNone ==
  ASSUME NEW W, NEW lo \in Int, NEW hi \in Int, hi < lo
  PROVE  Slice(W, lo, hi) = <<>>
  <1>1. lo + 1 \in Int /\ hi + 1 \in Int /\ hi + 1 < lo + 1
    OBVIOUS
  <1> QED
    BY <1>1, SubSeqEmpty DEF Slice

LEMMA SliceAll ==
  ASSUME NEW S, NEW W \in Seq(S)
  PROVE  Slice(W, 0, Len(W) - 1) = W
  <1>1. 0 + 1 = 1 /\ (Len(W) - 1) + 1 = Len(W)
    OBVIOUS
  <1> QED
    BY <1>1, SubSeqFull DEF Slice

\* The parts that the pieces of a row have in a range are the range.
PieceIn(W, from, next, start, end) ==
  IF next - 1 < start \/ from > end THEN <<>>
  ELSE Slice(W, IF start > from THEN start ELSE from, Least(end, next - 1))

\* Pieces of a sequence, one after another, up to its end.
PiecesOf(W, n, at) ==
  /\ n \in Nat \ {0} /\ at[0] = 0 /\ at[n] = Len(W)
  /\ \A i \in 0 .. n : at[i] \in 0 .. Len(W)
  /\ \A i \in 1 .. n : at[i - 1] <= at[i]

LEMMA PiecesOfRange ==
  ASSUME NEW S, NEW W \in Seq(S), NEW n, NEW at, PiecesOf(W, n, at),
         NEW end \in 0 .. (Len(W) - 1), NEW start \in 0 .. end,
         NEW parts, Len(parts) = n,
         \A i \in 1 .. n : parts[i] = PieceIn(W, at[i - 1], at[i], start, end)
  PROVE  FlattenSeq(parts) = Slice(W, start, end)
  <1> USE DEF PiecesOf
  <1> DEFINE T == Slice(W, start, end)
             CutAt(x) == IF x <= start THEN 0 ELSE IF x > end THEN end - start + 1 ELSE x - start
             off == [i \in 0 .. n |-> CutAt(at[i])]
  <1>1. Within(start, end, Len(W)) /\ Len(W) \in Nat /\ start \in Nat /\ end \in Nat /\ start <= end
    BY DEF Within
  <1>2. T \in Seq(S) /\ Len(T) = end - start + 1
    BY <1>1, SliceIs
  <1>3. \A i \in 0 .. n : off[i] = CutAt(at[i])
    OBVIOUS
  <1> HIDE DEF off
  <1>4. off[0] = 0 /\ off[n] = Len(T)
    <2>1. 0 \in 0 .. n /\ n \in 0 .. n
      OBVIOUS
    <2> HIDE DEF T
    <2> QED
      BY <1>1, <1>2, <1>3, <2>1
  <1>5. \A i \in 0 .. n : off[i] \in 0 .. Len(T)
    <2> TAKE i \in 0 .. n
    <2> DEFINE x == at[i]
               k == Len(T)
    <2>1. x \in Nat /\ off[i] = CutAt(x) /\ k = end - start + 1
      BY <1>2, <1>3
    <2> HIDE DEF x, k
    <2>2. CutAt(x) \in 0 .. k
      BY <1>1, <2>1
    <2> QED
      BY <2>1, <2>2 DEF k
  <1>6. ASSUME NEW i \in 1 .. n
        PROVE  off[i - 1] <= off[i] /\ parts[i] = SubSeq(T, off[i - 1] + 1, off[i])
    <2> DEFINE x == at[i - 1]
               y == at[i]
               a == IF start > x THEN start ELSE x
               b == Least(end, y - 1)
    <2>0. i - 1 \in 0 .. n /\ i \in 0 .. n
      OBVIOUS
    <2>1. x \in 0 .. Len(W) /\ y \in 0 .. Len(W) /\ x <= y
      BY <2>0
    <2>2. off[i - 1] = CutAt(x) /\ off[i] = CutAt(y)
      BY <1>3, <2>0
    <2>3. parts[i] = PieceIn(W, x, y, start, end)
      OBVIOUS
    <2> HIDE DEF x, y
    <2>4. CutAt(x) <= CutAt(y)
      BY <1>1, <2>1
    <2>5. PieceIn(W, x, y, start, end) = SubSeq(T, CutAt(x) + 1, CutAt(y))
      <3>1. CASE y - 1 < start
        <4>1. CutAt(x) = 0 /\ CutAt(y) = 0
          BY <1>1, <2>1, <3>1
        <4>2. PieceIn(W, x, y, start, end) = <<>>
          BY <3>1 DEF PieceIn
        <4>3. SubSeq(T, 0 + 1, 0) = <<>>
          <5>1. 0 + 1 \in Int /\ 0 \in Int /\ 0 < 0 + 1
            OBVIOUS
          <5> QED
            BY <5>1, SubSeqEmpty
        <4> QED
          BY <4>1, <4>2, <4>3
      <3>2. CASE x > end
        <4> DEFINE k == end - start + 1
        <4>1. CutAt(x) = k /\ CutAt(y) = k
          BY <1>1, <2>1, <3>2
        <4>2. PieceIn(W, x, y, start, end) = <<>>
          BY <3>2 DEF PieceIn
        <4>3. SubSeq(T, k + 1, k) = <<>>
          <5>1. k + 1 \in Int /\ k \in Int /\ k < k + 1
            BY <1>1
          <5> HIDE DEF k
          <5> QED
            BY <5>1, SubSeqEmpty
        <4> QED
          BY <4>1, <4>2, <4>3
      <3>3. CASE ~(y - 1 < start) /\ ~(x > end)
        <4>1. PieceIn(W, x, y, start, end) = Slice(W, a, b)
          BY <3>3 DEF PieceIn
        <4> DEFINE c == a - start
                   d == b - start
        <4>2. /\ a \in Nat /\ b \in Int /\ a <= b + 1 /\ start <= a /\ b <= end
              /\ CutAt(x) = c /\ CutAt(y) = d + 1
          BY <1>1, <2>1, <3>3 DEF Least
        <4> HIDE DEF a, b
        <4>3. Within(c, d, end - start + 1) /\ start + c = a /\ start + d = b
          BY <1>1, <4>2 DEF Within
        <4> HIDE DEF c, d
        <4>4. Slice(T, c, d) = Slice(W, start + c, start + d)
          BY <1>1, <4>3, SliceOfSlice
        <4> QED
          BY <4>1, <4>2, <4>3, <4>4 DEF Slice
      <3> QED
        BY <1>1, <2>1, <3>1, <3>2, <3>3
    <2> QED
      BY <2>2, <2>3, <2>4, <2>5
  <1> HIDE DEF T
  <1>7. FlattenSeq(parts) = T
    <2>1. CutsOf(T, n, parts, off)
      BY <1>2, <1>4, <1>5, <1>6 DEF CutsOf
    <2> QED
      BY <1>2, <2>1, FlattenCuts
  <1> QED
    BY <1>7 DEF T

-----------------------------------------------------------------------------
(* Packages.                                                               *)

LEMMA RangeNats ==
  /\ MaxSize \in Nat \ {0} /\ RangeMost \in Nat \ {0} /\ Package \in Nat \ {0} /\ Overhead \in Nat \ {0}
  /\ HeaderLen \in Nat \ {0} /\ ExtraLen \in Nat \ {0} /\ Marker \in Nat \ {0}
  BY RangeAssumption

LEMMA Times ==
  ASSUME NEW i \in Int, NEW j \in Int, NEW c \in Nat, i <= j
  PROVE  i * c <= j * c
  OBVIOUS

LEMMA TimesLess ==
  ASSUME NEW i \in Int, NEW j \in Int, NEW c \in Nat \ {0}, i * c < j * c
  PROVE  i < j
  OBVIOUS

LEMMA Division ==
  ASSUME NEW a \in Nat, NEW b \in Nat \ {0}
  PROVE  /\ a \div b \in Nat /\ a % b \in 0 .. b - 1
         /\ a = (a \div b) * b + (a % b)
  OBVIOUS

LEMMA DivisionIs ==
  ASSUME NEW a \in Nat, NEW q \in Int, NEW b \in Nat \ {0}, q * b <= a, a < (q + 1) * b
  PROVE  a \div b = q /\ a % b = a - q * b
  <1> DEFINE d == a \div b
             r == a % b
  <1>1. d \in Nat /\ r \in 0 .. b - 1 /\ a = d * b + r
    BY Division
  <1> HIDE DEF d, r
  <1>2. d * b < (q + 1) * b
    BY <1>1
  <1>3. q * b < (d + 1) * b
    BY <1>1
  <1>4. d < q + 1 /\ q < d + 1
    BY <1>1, <1>2, <1>3, TimesLess
  <1>5. d = q
    BY <1>1, <1>4
  <1>6. r = a - q * b
    BY <1>1, <1>5
  <1> QED
    BY <1>5, <1>6 DEF d, r

LEMMA PackagesAre ==
  ASSUME NEW n \in Nat
  PROVE  /\ Packages(n) \in Nat
         /\ n <= Packages(n) * Package
         /\ (Packages(n) - 1) * Package < n
  <1> DEFINE a == n + Package - 1
             d == a \div Package
             r == a % Package
  <1>0. Package \in Nat \ {0}
    BY RangeNats
  <1>1. a \in Nat /\ a = n + Package - 1
    BY <1>0
  <1> HIDE DEF a
  <1>2. d \in Nat /\ r \in 0 .. Package - 1 /\ a = d * Package + r
    BY <1>0, <1>1, Division
  <1>3. Packages(n) = d
    BY DEF Packages, a
  <1> HIDE DEF d, r
  <1>4. (d - 1) * Package = d * Package - Package
    BY <1>0, <1>2
  <1>5. d * Package \in Int
    BY <1>0, <1>2
  <1> DEFINE m == d * Package
  <1> HIDE DEF m
  <1>6. n <= m /\ m - Package < n
    BY <1>0, <1>1, <1>2, <1>5 DEF m
  <1> QED
    BY <1>2, <1>3, <1>4, <1>6 DEF m

LEMMA PackagesIs ==
  ASSUME NEW n \in Nat, NEW k \in Int, n <= k * Package, (k - 1) * Package < n
  PROVE  Packages(n) = k
  <1> DEFINE d == Packages(n)
  <1>0. Package \in Nat \ {0}
    BY RangeNats
  <1>1. d \in Nat /\ n <= d * Package /\ (d - 1) * Package < n
    BY PackagesAre
  <1> HIDE DEF d
  <1>2. (d - 1) * Package < k * Package /\ (k - 1) * Package < d * Package
    BY <1>0, <1>1
  <1>3. d - 1 < k /\ k - 1 < d
    BY <1>0, <1>1, <1>2, TimesLess
  <1>4. d = k
    BY <1>1, <1>3
  <1> QED
    BY <1>4 DEF d

\* What is decrypted has the size that was encrypted.
LEMMA PlainSizeIs ==
  ASSUME NEW n \in Nat
  PROVE  EncryptedSize(n) \in Nat /\ PlainSize(EncryptedSize(n)) = n
  <1> DEFINE d == Packages(n)
             c == n + Overhead * d
  <1>0. Package \in Nat \ {0} /\ Overhead \in Nat \ {0} /\ EncPkg \in Nat \ {0} /\ EncPkg = Package + Overhead
    BY RangeNats DEF EncPkg
  <1>1. d \in Nat /\ n <= d * Package /\ (d - 1) * Package < n
    BY PackagesAre
  <1>2. EncryptedSize(n) = c
    BY DEF EncryptedSize
  <1> HIDE DEF d
  <1>3. c \in Nat
    BY <1>0, <1>1
  <1>4. d * EncPkg = d * Package + d * Overhead /\ Overhead * d = d * Overhead
    BY <1>0, <1>1
  <1>5. (d - 1) * EncPkg = d * EncPkg - EncPkg /\ (d - 1) * Package = d * Package - Package
    BY <1>0, <1>1
  <1>6. (d + 1) * EncPkg = d * EncPkg + EncPkg
    BY <1>0, <1>1
  <1> DEFINE dP == d * Package
             dO == d * Overhead
             dE == d * EncPkg
  <1>7. dP \in Nat /\ dO \in Nat /\ dE \in Nat /\ dE = dP + dO /\ c = n + dO /\ n <= dP /\ dP - Package < n
    BY <1>0, <1>1, <1>4, <1>5
  <1>8. CASE n = dP
    <2>1. c = dE /\ dE <= c /\ c < dE + EncPkg
      <3> HIDE DEF dP, dO, dE, c
      <3> QED
        BY <1>0, <1>7, <1>8
    <2>2. c \div EncPkg = d /\ c % EncPkg = c - d * EncPkg
      <3> HIDE DEF c
      <3> QED
        BY <1>0, <1>1, <1>3, <1>6, <2>1, DivisionIs
    <2>3. c % EncPkg = 0
      <3> HIDE DEF c
      <3> QED
        BY <1>7, <2>1, <2>2
    <2>4. PlainSize(c) = d * Package + 0
      <3> HIDE DEF c
      <3>1. ~(0 \in 1 .. Overhead)
        BY <1>0
      <3> QED
        BY <2>2, <2>3, <3>1 DEF PlainSize
    <2>5. dP + 0 = dP
      <3> HIDE DEF dP
      <3> QED
        BY <1>7
    <2> QED
      BY <1>2, <1>3, <1>8, <2>4, <2>5
  <1>9. CASE n # dP
    <2> DEFINE rest == c - (d - 1) * EncPkg
    <2>1. /\ dE - EncPkg <= c /\ c < dE /\ (d - 1) * EncPkg = dE - EncPkg
          /\ rest = n - dP + Package + Overhead /\ rest > Overhead /\ rest \in Nat
      <3>1. (d - 1) * EncPkg = dE - EncPkg
        BY <1>5
      <3>2. rest = c - (dE - EncPkg)
        BY <3>1
      <3> HIDE DEF dP, dO, dE, c, rest
      <3> QED
        BY <1>0, <1>7, <1>9, <3>1, <3>2
    <2>2. c \div EncPkg = d - 1 /\ c % EncPkg = rest
      <3>1. d - 1 \in Int /\ (d - 1) + 1 = d
        BY <1>1
      <3> HIDE DEF c
      <3> QED
        BY <1>0, <1>3, <2>1, <3>1, DivisionIs
    <2>3. PlainSize(c) = (d - 1) * Package + (rest - Overhead)
      <3>1. ~(rest \in 1 .. Overhead) /\ rest # 0
        <4> HIDE DEF rest
        <4> QED
          BY <1>0, <2>1
      <3> HIDE DEF c, rest
      <3> QED
        BY <2>2, <3>1 DEF PlainSize
    <2>4. (dP - Package) + (rest - Overhead) = n
      <3> HIDE DEF dP, rest
      <3> QED
        BY <1>0, <1>7, <2>1
    <2>5. (d - 1) * Package = dP - Package
      BY <1>5
    <2> QED
      BY <1>2, <1>3, <2>3, <2>4, <2>5
  <1> QED
    BY <1>8, <1>9

-----------------------------------------------------------------------------
(* Ranges.                                                                 *)

LEMMA ParseRangeIs ==
  ASSUME NEW h \in Bounds, NEW total \in Nat
  PROVE  LET p == ParseRange(h, total) IN
         /\ p = Refused => Wanted(h, total) = {}
         /\ p # Refused => /\ p.from \in Nat /\ p.to \in Int /\ p.to < total /\ p.from <= p.to + 1
                           /\ p.from .. p.to = Wanted(h, total)
  <1> DEFINE p == ParseRange(h, total)
             to == IF h.hi # Missing /\ h.hi < total - 1 THEN h.hi ELSE total - 1
  <1>0. h.lo \in Int /\ h.hi \in Int /\ h.lo >= Missing /\ h.hi >= Missing /\ Missing = 0 - 1
    BY RangeNats DEF Bounds, Missing
  <1>1. CASE h.lo = Missing /\ h.hi <= 0
    <2>1. p = Refused
      BY <1>0, <1>1 DEF ParseRange
    <2>2. Wanted(h, total) = {}
      BY <1>0, <1>1 DEF Wanted
    <2> QED
      BY <2>1, <2>2
  <1>2. CASE h.lo = Missing /\ h.hi > 0
    <2> DEFINE a == total - Least(h.hi, total)
    <2>1. p = [from |-> a, to |-> total - 1]
      BY <1>0, <1>2 DEF ParseRange, Suffix
    <2>2. a \in Nat /\ a <= total /\ (a = total - h.hi \/ (a = 0 /\ h.hi >= total))
      BY <1>0, <1>2 DEF Least
    <2> HIDE DEF a
    <2>3. a .. (total - 1) = Wanted(h, total)
      BY <1>0, <1>2, <2>2 DEF Wanted
    <2>4. p # Refused /\ p.from = a /\ p.to = total - 1
      BY <2>1 DEF Refused
    <2> HIDE DEF p
    <2> QED
      BY <2>2, <2>3, <2>4 DEF p
  <1>3. CASE h.lo # Missing /\ (h.lo >= total \/ to < h.lo)
    <2>1. p = Refused
      <3>1. ~(h.lo = Missing)
        BY <1>3
      <3>2. p = IF h.lo >= total \/ to < h.lo THEN Refused ELSE [from |-> h.lo, to |-> to]
        BY <3>1 DEF ParseRange
      <3> QED
        BY <1>3, <3>2
    <2>2. Wanted(h, total) = {}
      BY <1>0, <1>3 DEF Wanted
    <2> QED
      BY <2>1, <2>2
  <1>4. CASE h.lo # Missing /\ ~(h.lo >= total \/ to < h.lo)
    <2>1. p = [from |-> h.lo, to |-> to]
      BY <1>0, <1>4 DEF ParseRange
    <2>2. h.lo \in Nat /\ to \in Int /\ to < total /\ h.lo <= to
      BY <1>0, <1>4
    <2>3. h.lo .. to = Wanted(h, total)
      BY <1>0, <1>4 DEF Wanted
    <2>4. p # Refused /\ p.from = h.lo /\ p.to = to
      BY <2>1, <2>2 DEF Refused
    <2> HIDE DEF p, to
    <2> QED
      BY <2>2, <2>3, <2>4 DEF p
  <1> HIDE DEF p, to
  <1> QED
    BY <1>0, <1>1, <1>2, <1>3, <1>4 DEF p

LEMMA ParseByteRangeIs ==
  ASSUME NEW h \in Bounds, NEW total \in Nat
  PROVE  LET p == ParseByteRange(h, total) IN
         /\ p = Refused => Wanted(h, total) = {}
         /\ p # Refused => /\ p.from \in Nat /\ p.to \in Int /\ p.to < total /\ p.from <= p.to
                           /\ p.from .. p.to = Wanted(h, total)
  <1> DEFINE p == ParseByteRange(h, total)
             to == IF h.hi = Missing THEN total - 1 ELSE Least(h.hi, total - 1)
  <1>0. h.lo \in Int /\ h.hi \in Int /\ h.lo >= Missing /\ h.hi >= Missing /\ Missing = 0 - 1
    BY RangeNats DEF Bounds, Missing
  <1>1. CASE total = 0
    <2>1. p = Refused
      BY <1>1 DEF ParseByteRange
    <2>2. Wanted(h, total) = {}
      BY <1>1 DEF Wanted
    <2> QED
      BY <2>1, <2>2
  <1>2. CASE total # 0 /\ h.lo = Missing /\ h.hi <= 0
    <2>1. p = Refused
      BY <1>0, <1>2 DEF ParseByteRange
    <2>2. Wanted(h, total) = {}
      BY <1>0, <1>2 DEF Wanted
    <2> QED
      BY <2>1, <2>2
  <1>3. CASE total # 0 /\ h.lo = Missing /\ h.hi > 0
    <2> DEFINE a == total - Least(h.hi, total)
    <2>1. p = [from |-> a, to |-> total - 1]
      BY <1>0, <1>3 DEF ParseByteRange, Suffix
    <2>2. a \in Nat /\ a <= total - 1 /\ (a = total - h.hi \/ (a = 0 /\ h.hi >= total))
      BY <1>0, <1>3 DEF Least
    <2> HIDE DEF a
    <2>3. a .. (total - 1) = Wanted(h, total)
      BY <1>0, <1>3, <2>2 DEF Wanted
    <2>4. p # Refused /\ p.from = a /\ p.to = total - 1
      BY <2>1 DEF Refused
    <2> HIDE DEF p
    <2> QED
      BY <2>2, <2>3, <2>4 DEF p
  <1>4. CASE total # 0 /\ h.lo # Missing /\ (h.lo >= total \/ (h.hi # Missing /\ h.hi < h.lo))
    <2>1. p = Refused
      <3>1. ~(h.lo = Missing) /\ total # 0
        BY <1>4
      <3>2. p = IF h.lo >= total \/ (h.hi # Missing /\ h.hi < h.lo) THEN Refused
                ELSE [from |-> h.lo, to |-> to]
        BY <3>1 DEF ParseByteRange
      <3> QED
        BY <1>4, <3>2
    <2>2. Wanted(h, total) = {}
      BY <1>0, <1>4 DEF Wanted
    <2> QED
      BY <2>1, <2>2
  <1>5. CASE total # 0 /\ h.lo # Missing /\ ~(h.lo >= total \/ (h.hi # Missing /\ h.hi < h.lo))
    <2>1. p = [from |-> h.lo, to |-> to]
      BY <1>0, <1>5 DEF ParseByteRange
    <2>2. h.lo \in Nat /\ to \in Int /\ to < total /\ h.lo <= to
      BY <1>0, <1>5 DEF Least
    <2>3. h.lo .. to = Wanted(h, total)
      BY <1>0, <1>5 DEF Wanted, Least
    <2>4. p # Refused /\ p.from = h.lo /\ p.to = to
      BY <2>1, <2>2 DEF Refused
    <2> HIDE DEF p, to
    <2> QED
      BY <2>2, <2>3, <2>4 DEF p
  <1> HIDE DEF p, to
  <1> QED
    BY <1>0, <1>1, <1>2, <1>3, <1>4, <1>5 DEF p

\* A range inside of the file is answered with it.
LEMMA GetInner ==
  ASSUME NEW S, NEW W \in Seq(S), NEW hi \in Nat, hi < Len(W), NEW lo \in 0 .. hi
  PROVE  Get(W, [lo |-> lo, hi |-> hi]).body = Slice(W, lo, hi)
  <1> DEFINE h == [lo |-> lo, hi |-> hi]
             n == Len(W)
             p == ParseRange(h, n)
  <1>1. n \in Nat /\ lo \in Nat /\ lo <= hi /\ hi < n
    OBVIOUS
  <1>2. h # NoRange /\ h.lo = lo /\ h.hi = hi /\ h.lo # Missing /\ h.hi # Missing
    BY <1>1 DEF NoRange, Missing
  <1> HIDE DEF h, n
  <1>3. p = [from |-> lo, to |-> hi]
    BY <1>1, <1>2 DEF ParseRange
  <1>4. p # Refused
    BY <1>1, <1>3 DEF Refused
  <1>5. Get(W, h).body = Slice(W, p.from, p.to)
    BY <1>2, <1>4 DEF Get, n
  <1> QED
    BY <1>3, <1>5 DEF h

-----------------------------------------------------------------------------
(* Encrypted files.                                                        *)

\* The flattened pieces, cut again.
LEMMA FlattenSlices ==
  ASSUME NEW S, NEW n, NEW ss, NEW off, LaidOut(S, n, ss, off)
  PROVE  /\ FlattenSeq(ss) \in Seq(S)
         /\ Len(FlattenSeq(ss)) = off[n]
         /\ \A i \in 1 .. n : off[i] <= off[n] /\ Slice(FlattenSeq(ss), off[i - 1], off[i] - 1) = ss[i]
  <1> DEFINE W == FlattenSeq(ss)
  <1>1. /\ W \in Seq(S) /\ Len(W) = off[n]
        /\ \A i \in 1 .. n : \A j \in 1 .. Len(ss[i]) :
             off[i - 1] + j \in 1 .. off[n] /\ W[off[i - 1] + j] = ss[i][j]
    BY FlattenFinds
  <1> HIDE DEF W
  <1>2. ASSUME NEW i \in 1 .. n PROVE off[i] <= off[n] /\ Slice(W, off[i - 1], off[i] - 1) = ss[i]
    <2> DEFINE lo == off[i - 1]
               t == ss[i]
               m == Len(t)
               hi == off[i] - 1
    <2>1. lo \in Nat /\ t \in Seq(S) /\ off[i] = lo + m
      BY DEF LaidOut
    <2>2. m \in Nat
      <3> HIDE DEF t
      <3> QED
        BY <2>1
    <2>3. off[i] <= off[n] /\ Len(W) \in Nat /\ Len(W) = off[n]
      <3>0. Len(W) \in Nat /\ Len(W) = off[n]
        BY <1>1
      <3> DEFINE Bad == {k \in i .. n : ~(off[i] <= off[k])}
      <3>1. Bad = {}
        <4> SUFFICES ASSUME Bad # {} PROVE FALSE
          OBVIOUS
        <4>1. PICK k \in Bad : \A x \in Bad : k <= x
          <5>1. Bad \subseteq Nat
            BY DEF LaidOut
          <5> HIDE DEF Bad
          <5> QED
            BY <5>1, LeastOf
        <4>2. off[i] \in Nat
          BY <2>1, <2>2
        <4>3. k # i /\ k \in i .. n
          BY <4>1, <4>2
        <4>4. k - 1 \in i .. n /\ k \in 1 .. n
          BY <4>3 DEF LaidOut
        <4>5. off[i] <= off[k - 1]
          BY <4>1, <4>4
        <4>6. off[k - 1] \in Nat /\ off[k] = off[k - 1] + Len(ss[k]) /\ Len(ss[k]) \in Nat
          BY <4>4 DEF LaidOut
        <4> QED
          BY <4>1, <4>2, <4>5, <4>6
      <3>2. n \in i .. n
        BY DEF LaidOut
      <3> QED
        BY <3>0, <3>1, <3>2
    <2>4. Within(lo, hi, Len(W)) /\ hi - lo + 1 = m
      <3> HIDE DEF lo, m
      <3> QED
        BY <2>1, <2>2, <2>3 DEF Within
    <2>5. \A j \in 1 .. m : W[lo + j] = t[j]
      BY <1>1
    <2> DEFINE V == Slice(W, lo, hi)
    <2> HIDE DEF lo, t, hi
    <2>6. V \in Seq(S) /\ Len(V) = hi - lo + 1 /\ \A j \in 1 .. (hi - lo + 1) : V[j] = W[lo + j]
      <3>1. W \in Seq(S)
        BY <1>1
      <3> QED
        BY <2>4, <3>1, SliceIs
    <2> HIDE DEF V
    <2>7. V = t
      <3>1. Len(V) = Len(t)
        BY <2>4, <2>6
      <3>2. \A j \in 1 .. Len(V) : V[j] = t[j]
        BY <2>4, <2>5, <2>6
      <3> QED
        BY <2>1, <2>6, <3>1, <3>2, SeqEqual
    <2> QED
      BY <2>3, <2>7 DEF V, lo, hi, t
  <1> QED
    BY <1>1, <1>2 DEF W

\* Everything that is sent.
Cell ==
  {<<"byte", f, i>> : f \in Nat, i \in Nat} \cup {<<"package", k>> : k \in Int}
    \cup {<<"local", f>> : f \in Nat} \cup {<<"trailer", i>> : i \in Nat}

LEMMA CellsAre ==
  /\ \A f, i \in Nat : <<"byte", f, i>> \in Cell
  /\ \A k \in Int : <<"package", k>> \in Cell
  /\ \A f \in Nat : <<"local", f>> \in Cell
  /\ \A i \in Nat : <<"trailer", i>> \in Cell
  BY DEF Cell

LEMMA FileIs ==
  ASSUME NEW f \in Nat, NEW n \in Nat
  PROVE  /\ RangeFile(f, n) \in Seq(Cell) /\ Len(RangeFile(f, n)) = n
         /\ \A i \in 1 .. n : RangeFile(f, n)[i] = <<"byte", f, i - 1>>
  <1>1. \A i \in 1 .. n : <<"byte", f, i - 1>> \in Cell
    BY CellsAre
  <1> QED
    BY <1>1 DEF RangeFile

LEMMA SealIs ==
  ASSUME NEW k \in Int
  PROVE  Seal(k) \in Seq(Cell) /\ Len(Seal(k)) = Overhead
  <1>1. Overhead \in Nat /\ <<"package", k>> \in Cell
    BY CellsAre, RangeNats
  <1> QED
    BY <1>1 DEF Seal

\* Where package k of n bytes ends in the file and in its encryption.
PlainEnd(n, k) == Least(k * Package, n)
EncOff(n, k)   == k * Overhead + PlainEnd(n, k)

LEMMA PackageAt ==
  ASSUME NEW n \in Nat, NEW k \in 1 .. Packages(n)
  PROVE  /\ PlainEnd(n, k - 1) = (k - 1) * Package /\ PlainEnd(n, k - 1) \in Nat
         /\ PlainEnd(n, k) \in Nat /\ PlainEnd(n, k) <= n
         /\ PlainEnd(n, k - 1) < PlainEnd(n, k) /\ PlainEnd(n, k) <= PlainEnd(n, k - 1) + Package
         /\ k # Packages(n) => PlainEnd(n, k) = PlainEnd(n, k - 1) + Package
         /\ EncOff(n, k - 1) = (k - 1) * EncPkg /\ EncOff(n, k - 1) \in Nat
         /\ EncOff(n, k) = EncOff(n, k - 1) + Overhead + (PlainEnd(n, k) - PlainEnd(n, k - 1))
  <1> DEFINE d == Packages(n)
             a == (k - 1) * Package
             b == (d - 1) * Package
             o == (k - 1) * Overhead
  <1>0. Package \in Nat \ {0} /\ Overhead \in Nat \ {0} /\ EncPkg = Package + Overhead
    BY RangeNats DEF EncPkg
  <1>1. d \in Nat /\ n <= d * Package /\ b < n
    BY PackagesAre
  <1> HIDE DEF d
  <1>2. k \in 1 .. d
    BY DEF d
  <1>3. a <= b /\ a \in Nat /\ b \in Int /\ o \in Nat
    <2>1. k - 1 \in Int /\ d - 1 \in Int /\ k - 1 <= d - 1 /\ k - 1 \in Nat
      BY <1>1, <1>2
    <2> QED
      BY <1>0, <2>1, Times
  <1>4. k * Package = a + Package /\ k * Overhead = o + Overhead /\ (k - 1) * EncPkg = a + o
    BY <1>0, <1>2
  <1>5. k # d => a + Package < n
    <2>1. SUFFICES ASSUME k # d PROVE k * Package < n
      BY <1>4
    <2>2. k \in Int /\ d - 1 \in Int /\ k <= d - 1
      BY <1>1, <1>2, <2>1
    <2>3. k * Package <= b
      BY <1>0, <2>2, Times
    <2> QED
      BY <1>0, <1>1, <1>2, <1>3, <1>4, <2>3
  <1> HIDE DEF a, b, o
  <1>6. PlainEnd(n, k - 1) = a
    BY <1>1, <1>3 DEF PlainEnd, Least, a
  <1>7. PlainEnd(n, k) = IF a + Package < n THEN a + Package ELSE n
    BY <1>4 DEF PlainEnd, Least
  <1>8. EncOff(n, k - 1) = o + a
    BY <1>6 DEF EncOff, o
  <1>9. EncOff(n, k) = o + Overhead + PlainEnd(n, k)
    BY <1>4 DEF EncOff
  <1>10. a < n
    BY <1>1, <1>3
  <1> QED
    BY <1>0, <1>3, <1>4, <1>5, <1>6, <1>7, <1>8, <1>9, <1>10 DEF a, d

LEMMA PlainEndIs ==
  ASSUME NEW n \in Nat
  PROVE  /\ PlainEnd(n, 0) = 0 /\ EncOff(n, 0) = 0
         /\ PlainEnd(n, Packages(n)) = n /\ EncOff(n, Packages(n)) = EncryptedSize(n)
  <1> DEFINE d == Packages(n)
  <1>0. Package \in Nat \ {0} /\ Overhead \in Nat \ {0}
    BY RangeNats
  <1>1. d \in Nat /\ n <= d * Package
    BY PackagesAre
  <1>2. EncryptedSize(n) = n + Overhead * d
    BY DEF EncryptedSize
  <1> HIDE DEF d
  <1>3. 0 * Package = 0 /\ 0 * Overhead = 0 /\ d * Overhead = Overhead * d /\ d * Package \in Int
        /\ d * Overhead \in Int
    BY <1>0, <1>1
  <1>4. PlainEnd(n, 0) = 0
    BY <1>3 DEF PlainEnd, Least
  <1>5. PlainEnd(n, d) = n
    BY <1>1, <1>3 DEF PlainEnd, Least
  <1>6. EncOff(n, d) = n + Overhead * d
    BY <1>3, <1>5 DEF EncOff
  <1>7. EncOff(n, 0) = 0
    BY <1>3, <1>4 DEF EncOff
  <1> QED
    BY <1>2, <1>4, <1>5, <1>6, <1>7 DEF d

\* The package of number k - 1.
Sealed(bytes, k) == Seal(k - 1) \o Slice(bytes, (k - 1) * Package, PlainEnd(Len(bytes), k) - 1)

LEMMA SealedIs ==
  ASSUME NEW bytes \in Seq(Cell), NEW k \in 1 .. Packages(Len(bytes))
  PROVE  /\ Sealed(bytes, k) \in Seq(Cell)
         /\ Len(Sealed(bytes, k)) = Overhead + (PlainEnd(Len(bytes), k) - (k - 1) * Package)
         /\ SubSeq(Sealed(bytes, k), 1, Overhead) = Seal(k - 1)
         /\ SubSeq(Sealed(bytes, k), Overhead + 1, Len(Sealed(bytes, k)))
              = Slice(bytes, (k - 1) * Package, PlainEnd(Len(bytes), k) - 1)
  <1> DEFINE n == Len(bytes)
             a == (k - 1) * Package
             b == PlainEnd(n, k)
             s == Seal(k - 1)
             t == Slice(bytes, a, b - 1)
  <1>0. n \in Nat /\ Overhead \in Nat \ {0}
    BY RangeNats
  <1>1. a \in Nat /\ b \in Nat /\ a < b /\ b <= n
    <2> HIDE DEF n
    <2>1. k \in 1 .. Packages(n)
      BY DEF n
    <2> QED
      BY <1>0, <2>1, PackageAt
  <1>2. k - 1 \in Int
    <2>1. Packages(n) \in Nat
      BY <1>0, PackagesAre
    <2> QED
      BY <2>1
  <1> HIDE DEF a, b
  <1>3. t \in Seq(Cell) /\ Len(t) = b - a
    <2>1. Within(a, b - 1, Len(bytes)) /\ (b - 1) - a + 1 = b - a
      BY <1>1, <1>0 DEF Within
    <2> QED
      BY <2>1, SliceIs
  <1>4. s \in Seq(Cell) /\ Len(s) = Overhead
    BY <1>2, SealIs
  <1>5. Sealed(bytes, k) = s \o t
    BY DEF Sealed, a, b
  <1> HIDE DEF s, t
  <1>6. s \o t \in Seq(Cell) /\ Len(s \o t) = Len(s) + Len(t)
    BY <1>3, <1>4, ConcatProperties
  <1>7. SubSeq(s \o t, 1, Overhead) = s
    <2>1. 1 \in 1 .. Len(s) /\ Overhead \in 1 .. Len(s)
      BY <1>0, <1>4
    <2>2. SubSeq(s \o t, 1, Overhead) = SubSeq(s, 1, Overhead)
      BY <1>3, <1>4, <2>1, SubSeqOfConcat1
    <2> QED
      BY <1>4, <2>2, SubSeqFull
  <1>8. SubSeq(s \o t, Overhead + 1, Len(s \o t)) = t
    <2> DEFINE l == Len(s \o t)
    <2>0. l = Overhead + (b - a) /\ Len(s) = Overhead /\ Len(t) = b - a
      BY <1>3, <1>4, <1>6
    <2> HIDE DEF l
    <2>1. Overhead + 1 \in Len(s) + 1 .. Len(s) + Len(t) /\ l \in Len(s) + 1 .. Len(s) + Len(t)
      BY <1>0, <1>1, <2>0
    <2> DEFINE m == Overhead + 1
    <2>2. m - Len(s) = 1 /\ l - Len(s) = Len(t)
      BY <1>0, <1>1, <2>0
    <2>3. m \in Len(s) + 1 .. Len(s) + Len(t)
      BY <2>1
    <2> HIDE DEF m
    <2>5. SubSeq(s \o t, m, l) = SubSeq(t, m - Len(s), l - Len(s))
      BY <1>3, <1>4, <2>1, <2>3, SubSeqOfConcat2
    <2>4. SubSeq(t, 1, Len(t)) = t
      BY <1>3, SubSeqFull
    <2> QED
      BY <2>2, <2>4, <2>5 DEF l, m
  <1> QED
    BY <1>3, <1>4, <1>5, <1>6, <1>7, <1>8 DEF t, s, a, b

LEMMA EncryptIs ==
  ASSUME NEW bytes \in Seq(Cell)
  PROVE  /\ Encrypt(bytes) \in Seq(Cell)
         /\ Len(Encrypt(bytes)) = EncryptedSize(Len(bytes))
         /\ \A k \in 1 .. Packages(Len(bytes)) :
              /\ EncOff(Len(bytes), k) <= Len(Encrypt(bytes))
              /\ Slice(Encrypt(bytes), EncOff(Len(bytes), k - 1), EncOff(Len(bytes), k) - 1) = Sealed(bytes, k)
  <1> DEFINE n == Len(bytes)
             d == Packages(n)
             ss == [k \in 1 .. d |-> Sealed(bytes, k)]
             off == [k \in 0 .. d |-> EncOff(n, k)]
  <1>0. n \in Nat /\ d \in Nat
    BY PackagesAre
  <1>1. Encrypt(bytes) = FlattenSeq(ss)
    BY DEF Encrypt, Sealed, PlainEnd
  <1>2. Len(ss) = d /\ (d = 0 => ss = <<>>) /\ \A k \in 1 .. d : ss[k] = Sealed(bytes, k)
    <2> HIDE DEF d, n
    <2> QED
      BY <1>0
  <1>3. \A k \in 0 .. d : off[k] = EncOff(n, k)
    OBVIOUS
  <1> HIDE DEF ss, off
  <1>4. \A k \in 1 .. d : ss[k] \in Seq(Cell)
    BY <1>2, SealedIs
  <1>5. off[0] = 0 /\ off[d] = EncryptedSize(n)
    <2> HIDE DEF n
    <2> QED
      BY <1>0, <1>3, PlainEndIs
  <1>6. ASSUME NEW k \in 1 .. d PROVE off[k - 1] \in Nat /\ off[k] = off[k - 1] + Len(ss[k])
    <2>1. k - 1 \in 0 .. d /\ k \in 0 .. d
      BY <1>0
    <2>2. Len(ss[k]) = Overhead + (PlainEnd(n, k) - (k - 1) * Package)
      BY <1>2, SealedIs
    <2>3. /\ PlainEnd(n, k - 1) = (k - 1) * Package /\ EncOff(n, k - 1) \in Nat
          /\ EncOff(n, k) = EncOff(n, k - 1) + Overhead + (PlainEnd(n, k) - PlainEnd(n, k - 1))
          /\ PlainEnd(n, k - 1) \in Nat /\ PlainEnd(n, k) \in Nat
      <3> HIDE DEF n
      <3> QED
        BY <1>0, PackageAt
    <2> HIDE DEF n, d
    <2>4. EncOff(n, k) = EncOff(n, k - 1) + (Overhead + (PlainEnd(n, k) - (k - 1) * Package))
      BY <2>3, RangeNats
    <2> QED
      BY <1>3, <2>1, <2>2, <2>3, <2>4
  <1>7. /\ FlattenSeq(ss) \in Seq(Cell) /\ Len(FlattenSeq(ss)) = off[d]
        /\ \A i \in 1 .. d : off[i] <= off[d] /\ Slice(FlattenSeq(ss), off[i - 1], off[i] - 1) = ss[i]
    <2> HIDE DEF n, d
    <2>1. LaidOut(Cell, d, ss, off)
      BY <1>0, <1>2, <1>4, <1>5, <1>6 DEF LaidOut
    <2> QED
      BY <2>1, FlattenSlices
  <1>8. ASSUME NEW k \in 1 .. d
        PROVE  /\ EncOff(n, k) <= Len(Encrypt(bytes))
               /\ Slice(Encrypt(bytes), EncOff(n, k - 1), EncOff(n, k) - 1) = Sealed(bytes, k)
    <2>1. k - 1 \in 0 .. d /\ k \in 0 .. d
      BY <1>0
    <2> QED
      BY <1>1, <1>2, <1>3, <1>7, <2>1
  <1> QED
    BY <1>1, <1>5, <1>7, <1>8

LEMMA PlainGrows ==
  ASSUME NEW n \in Nat, NEW i \in Nat, NEW j \in Nat, i <= j
  PROVE  PlainEnd(n, i) \in Nat /\ PlainEnd(n, j) \in Nat /\ PlainEnd(n, i) <= PlainEnd(n, j) /\ PlainEnd(n, j) <= n
  <1> DEFINE a == i * Package
             b == j * Package
  <1>1. a \in Nat /\ b \in Nat /\ a <= b
    <2>1. Package \in Nat
      BY RangeNats
    <2> QED
      BY <2>1, Times
  <1> HIDE DEF a, b
  <1> QED
    BY <1>1 DEF PlainEnd, Least, a, b

\* Packages A + 1 to B of a file, as they are sent.
Packed2(bytes, A, B) == Slice(Encrypt(bytes), EncOff(Len(bytes), A), EncOff(Len(bytes), B) - 1)

\* Where the packages lie in them.
LEMMA PackedParts ==
  ASSUME NEW bytes \in Seq(Cell), NEW A \in Nat, NEW B \in Nat, A < B, B <= Packages(Len(bytes))
  PROVE  LET L == Len(Packed2(bytes, A, B)) IN
         /\ L \in Nat /\ Packed2(bytes, A, B) \in Seq(Cell)
         /\ (L + EncPkg - 1) \div EncPkg = B - A
         /\ \A k \in 1 .. (B - A) :
              Slice(Packed2(bytes, A, B), (k - 1) * EncPkg, Least(k * EncPkg, L) - 1) = Sealed(bytes, A + k)
  <1> DEFINE n == Len(bytes)
             E == EncPkg
             N == Packages(n)
             W == Encrypt(bytes)
             m == B - A
             lo == EncOff(n, A)
             hi == EncOff(n, B) - 1
             V == Packed2(bytes, A, B)
             L == Len(V)
  <1>0. n \in Nat /\ N \in Nat /\ m \in Nat \ {0}
    <2>1. n \in Nat
      OBVIOUS
    <2>2. m \in Nat \ {0}
      OBVIOUS
    <2> HIDE DEF n
    <2> QED
      BY <2>1, <2>2, PackagesAre
  <1>1. E \in Nat \ {0} /\ E = Package + Overhead /\ Overhead \in Nat \ {0} /\ Package \in Nat \ {0}
    BY RangeNats DEF EncPkg
  <1>2. W \in Seq(Cell) /\ Len(W) \in Nat /\
        \A k \in 1 .. N : /\ EncOff(n, k) <= Len(W)
                          /\ Slice(W, EncOff(n, k - 1), EncOff(n, k) - 1) = Sealed(bytes, k)
    BY EncryptIs
  <1>3. V = Slice(W, lo, hi)
    BY DEF Packed2
  <1> HIDE DEF n, N, W, V, E
  <1>4. ASSUME NEW k \in 1 .. N
        PROVE  /\ EncOff(n, k - 1) = (k - 1) * E /\ EncOff(n, k - 1) \in Nat /\ EncOff(n, k) \in Nat
               /\ EncOff(n, k - 1) < EncOff(n, k) /\ EncOff(n, k) <= EncOff(n, k - 1) + E
               /\ k # N => EncOff(n, k) = EncOff(n, k - 1) + E
    <2> DEFINE x == PlainEnd(n, k - 1)
               y == PlainEnd(n, k)
               u == EncOff(n, k - 1)
               v == EncOff(n, k)
    <2>1. /\ x \in Nat /\ y \in Nat /\ x < y /\ y <= x + Package
          /\ k # N => y = x + Package
          /\ u = (k - 1) * E /\ u \in Nat /\ v = u + Overhead + (y - x)
      BY <1>0, PackageAt DEF N, E
    <2> HIDE DEF x, y, u, v
    <2>2. v \in Nat /\ u < v /\ v <= u + E /\ (k # N => v = u + E)
      BY <1>1, <2>1
    <2> QED
      BY <2>1, <2>2 DEF u, v
  <1>5. /\ A + 1 \in 1 .. N /\ (A + 1) - 1 = A /\ B \in 1 .. N /\ B - 1 \in Nat
    BY <1>0 DEF N, n
  <1>6. lo = A * E /\ lo \in Nat /\ EncOff(n, B - 1) = (B - 1) * E
    BY <1>4, <1>5
  <1>7. hi \in Int /\ hi < Len(W) /\ (B - 1) * E <= hi /\ hi + 1 <= (B - 1) * E + E
    <2> DEFINE v == EncOff(n, B)
               u == EncOff(n, B - 1)
    <2>1. v \in Nat /\ u \in Nat /\ u < v /\ v <= u + E /\ v <= Len(W)
      BY <1>2, <1>4, <1>5
    <2>2. u = (B - 1) * E
      BY <1>6
    <2> HIDE DEF u
    <2>3. hi = v - 1
      OBVIOUS
    <2> HIDE DEF v, hi
    <2>4. hi \in Int /\ hi < Len(W) /\ u <= hi /\ hi + 1 <= u + E
      BY <1>1, <1>2, <2>1, <2>3
    <2> QED
      BY <2>2, <2>4
  <1> HIDE DEF lo, hi
  <1> DEFINE mE == m * E
  <1>8. (B - 1) * E = lo + (mE - E) /\ mE \in Nat /\ (m - 1) * E = mE - E /\ (m + 1) * E = mE + E
    <2>1. (B - 1) * E = B * E - E /\ mE = B * E - A * E
      BY <1>1
    <2>2. (m - 1) * E = mE - E /\ (m + 1) * E = mE + E
      BY <1>0, <1>1
    <2>3. mE \in Nat
      BY <1>0, <1>1
    <2>4. B * E \in Int /\ A * E \in Int
      BY <1>1
    <2> QED
      BY <1>1, <1>6, <2>1, <2>2, <2>3, <2>4
  <1> HIDE DEF mE
  <1>9. Within(lo, hi, Len(W)) /\ lo \in Int /\ hi \in Int
    <2>1. mE - E >= 0
      <3>1. 1 * E <= m * E
        BY <1>0, <1>1, Times
      <3> QED
        BY <1>1, <1>8, <3>1 DEF mE
    <2>2. (B - 1) * E \in Int /\ lo <= (B - 1) * E
      BY <1>1, <1>6, <1>8, <2>1
    <2> QED
      BY <1>1, <1>2, <1>6, <1>7, <2>2 DEF Within
  <1>10. V \in Seq(Cell) /\ L = hi - lo + 1 /\ L \in Nat /\ mE - E < L /\ L <= mE
    <2>1. V \in Seq(Cell) /\ L = hi - lo + 1
      BY <1>2, <1>3, <1>9, SliceIs
    <2>2. L \in Nat
      BY <2>1
    <2>3. mE - E < hi - lo + 1 /\ hi - lo + 1 <= mE
      BY <1>1, <1>7, <1>8, <1>9
    <2> QED
      BY <2>1, <2>2, <2>3
  <1> HIDE DEF L
  <1>11. (L + E - 1) \div E = m
    <2>1. L + E - 1 \in Nat /\ m * E <= L + E - 1 /\ L + E - 1 < (m + 1) * E
      BY <1>1, <1>8, <1>10 DEF mE
    <2> DEFINE a == L + E - 1
    <2> HIDE DEF a, m
    <2>2. a \div E = m
      <3>1. m \in Int
        BY DEF m
      <3> QED
        BY <1>1, <2>1, <3>1, DivisionIs DEF a
    <2> QED
      BY <2>2 DEF a
  <1>12. ASSUME NEW k \in 1 .. m
         PROVE  Slice(V, (k - 1) * E, Least(k * E, L) - 1) = Sealed(bytes, A + k)
    <2> DEFINE x == EncOff(n, (A + k) - 1)
               y == EncOff(n, A + k)
               c == (k - 1) * E
               kE == k * E
               d == y - lo - 1
    <2>1. A + k \in 1 .. N /\ A + k <= B /\ (k # m => A + k # N) /\ (k = m => A + k = B)
      BY <1>0, <1>5
    <2>2. x = ((A + k) - 1) * E /\ x \in Nat /\ y \in Nat /\ x < y /\ y <= x + E /\ (k # m => y = x + E)
      BY <1>4, <2>1
    <2>3. c \in Nat /\ kE = c + E /\ x = lo + c
      <3>1. c \in Nat /\ kE = c + E
        BY <1>0, <1>1
      <3>2. ((A + k) - 1) * E = A * E + (k - 1) * E
        BY <1>0, <1>1
      <3> QED
        BY <1>6, <2>2, <3>1, <3>2
    <2>4. k # m => kE < L
      <3>1. SUFFICES ASSUME k # m PROVE kE < L
        OBVIOUS
      <3>2. k * E <= (m - 1) * E
        <4>1. k \in Int /\ m - 1 \in Int /\ k <= m - 1
          BY <1>0, <3>1
        <4> QED
          BY <1>1, <4>1, Times
      <3>3. kE <= mE - E
        BY <1>8, <3>2
      <3> HIDE DEF kE
      <3> QED
        BY <1>1, <1>8, <1>10, <2>3, <3>3
    <2>5. k = m => y - lo = L
      <3>1. SUFFICES ASSUME k = m PROVE y - lo = L
        OBVIOUS
      <3>2. y = EncOff(n, B) /\ hi = EncOff(n, B) - 1
        BY <2>1, <3>1 DEF hi
      <3> HIDE DEF y
      <3> QED
        BY <1>9, <1>10, <2>2, <3>2
    <2>6. k = m => kE = mE
      BY DEF mE
    <2> HIDE DEF x, y, c, kE
    <2>7. Least(kE, L) = y - lo
      BY <1>1, <1>9, <1>10, <2>2, <2>3, <2>4, <2>5, <2>6 DEF Least
    <2>8. y - lo <= L
      BY <1>1, <1>9, <1>10, <2>2, <2>3, <2>4, <2>5
    <2>9. Within(c, d, hi - lo + 1) /\ lo + c = x /\ lo + d = y - 1
      BY <1>9, <1>10, <2>2, <2>3, <2>8 DEF Within
    <2> HIDE DEF d
    <2>10. Slice(V, c, d) = Slice(W, lo + c, lo + d)
      BY <1>2, <1>3, <1>9, <2>9, SliceOfSlice
    <2>11. Slice(W, x, y - 1) = Sealed(bytes, A + k)
      BY <1>2, <2>1 DEF x, y
    <2>12. Least(kE, L) - 1 = d
      BY <2>7 DEF d
    <2>13. Slice(V, c, Least(kE, L) - 1) = Sealed(bytes, A + k)
      BY <2>9, <2>10, <2>11, <2>12
    <2> QED
      BY <2>13 DEF c, kE
  <1> QED
    BY <1>10, <1>11, <1>12 DEF V, E, L

LEMMA DecryptNothing ==
  ASSUME NEW seq
  PROVE  Decrypt(<<>>, seq) = <<>>
  <1> DEFINE count == (Len(<<>>) + EncPkg - 1) \div EncPkg
             Piece(k) == Slice(<<>>, (k - 1) * EncPkg, Least(k * EncPkg, Len(<<>>)) - 1)
             Right(k) == Len(Piece(k)) > Overhead /\ SubSeq(Piece(k), 1, Overhead) = Seal(seq + k - 1)
             good == {n \in 0 .. count : \A k \in 1 .. n : Right(k)}
             last == CHOOSE n \in good : \A m \in good : m <= n
             ss == [k \in 1 .. last |-> SubSeq(Piece(k), Overhead + 1, Len(Piece(k)))]
  <1>1. Decrypt(<<>>, seq) = FlattenSeq(ss)
    BY DEF Decrypt
  <1>2. count = 0
    <2>0. EncPkg \in Nat \ {0}
      BY RangeNats DEF EncPkg
    <2>1. Len(<<>>) + EncPkg - 1 \in Nat /\ 0 * EncPkg <= Len(<<>>) + EncPkg - 1
          /\ Len(<<>>) + EncPkg - 1 < (0 + 1) * EncPkg
      BY <2>0
    <2> DEFINE a == Len(<<>>) + EncPkg - 1
    <2> HIDE DEF a
    <2>2. a \div EncPkg = 0
      BY <2>0, <2>1, DivisionIs DEF a
    <2> QED
      BY <2>2 DEF a
  <1> HIDE DEF count
  <1>3. good = {0}
    <2> HIDE DEF Right
    <2> QED
      BY <1>2
  <1> HIDE DEF good
  <1>4. last = 0
    BY <1>3
  <1> HIDE DEF last
  <1>5. ss = <<>> /\ Len(ss) = 0
    <2> HIDE DEF Piece
    <2> QED
      BY <1>4
  <1> HIDE DEF ss
  <1> QED
    BY <1>1, <1>5 DEF FlattenSeq

LEMMA DecryptIs ==
  ASSUME NEW bytes \in Seq(Cell), NEW A \in Nat, NEW B \in Nat, A <= B, B <= Packages(Len(bytes))
  PROVE  Decrypt(Packed2(bytes, A, B), A)
           = Slice(bytes, PlainEnd(Len(bytes), A), PlainEnd(Len(bytes), B) - 1)
  <1> DEFINE n == Len(bytes)
             cells == Packed2(bytes, A, B)
             a == PlainEnd(n, A)
             b == PlainEnd(n, B)
  <1>0. n \in Nat
    OBVIOUS
  <1>1. a \in Nat /\ b \in Nat /\ a <= b /\ b <= n
    <2> HIDE DEF n
    <2> QED
      BY <1>0, PlainGrows
  <1>2. CASE A = B
    <2>1. cells = <<>>
      <3> DEFINE e == EncOff(n, A)
      <3>1. e \in Int
        <4>1. Overhead \in Nat
          BY RangeNats
        <4> HIDE DEF n
        <4> QED
          BY <1>1, <4>1 DEF EncOff
      <3> HIDE DEF e
      <3>2. e - 1 \in Int /\ e - 1 < e
        BY <3>1
      <3>3. cells = Slice(Encrypt(bytes), e, e - 1)
        BY <1>2 DEF Packed2, e
      <3> HIDE DEF cells
      <3> QED
        BY <3>1, <3>2, <3>3, SliceNone
    <2>2. Slice(bytes, a, b - 1) = <<>>
      <3>1. a = b
        BY <1>2
      <3> HIDE DEF a, b
      <3>2. a \in Int /\ b - 1 \in Int /\ b - 1 < a
        BY <1>1, <3>1
      <3> QED
        BY <3>2, SliceNone
    <2> QED
      BY <2>1, <2>2, DecryptNothing
  <1>3. CASE A < B
    <2> DEFINE m == B - A
               L == Len(cells)
               count == (L + EncPkg - 1) \div EncPkg
               Piece(k) == Slice(cells, (k - 1) * EncPkg, Least(k * EncPkg, L) - 1)
               Right(k) == Len(Piece(k)) > Overhead /\ SubSeq(Piece(k), 1, Overhead) = Seal(A + k - 1)
               good == {i \in 0 .. count : \A k \in 1 .. i : Right(k)}
               last == CHOOSE i \in good : \A j \in good : j <= i
               ss == [k \in 1 .. last |-> SubSeq(Piece(k), Overhead + 1, Len(Piece(k)))]
    <2>1. Decrypt(cells, A) = FlattenSeq(ss)
      BY DEF Decrypt
    <2>2. m \in Nat \ {0} /\ count = m /\ \A k \in 1 .. m : Piece(k) = Sealed(bytes, A + k)
      BY <1>3, PackedParts
    <2> HIDE DEF Piece, count, cells
    <2>3. ASSUME NEW k \in 1 .. m
          PROVE  /\ Right(k)
                 /\ SubSeq(Piece(k), Overhead + 1, Len(Piece(k)))
                      = Slice(bytes, PlainEnd(n, (A + k) - 1), PlainEnd(n, A + k) - 1)
      <3> DEFINE K == A + k
                 x == (K - 1) * Package
                 y == PlainEnd(n, K)
      <3>1. K \in 1 .. Packages(n) /\ K - 1 = A + k - 1
        <4>1. Packages(n) \in Nat
          <5> HIDE DEF n
          <5> QED
            BY <1>0, PackagesAre
        <4> QED
          BY <4>1
      <3>2. PlainEnd(n, K - 1) = x /\ x \in Nat /\ y \in Nat /\ x < y
        <4> HIDE DEF n, K
        <4> QED
          BY <1>0, <3>1, PackageAt
      <3>3. Piece(k) = Sealed(bytes, K)
        BY <2>2
      <3> HIDE DEF K
      <3>4. /\ Len(Sealed(bytes, K)) = Overhead + (y - x)
            /\ SubSeq(Sealed(bytes, K), 1, Overhead) = Seal(K - 1)
            /\ SubSeq(Sealed(bytes, K), Overhead + 1, Len(Sealed(bytes, K))) = Slice(bytes, x, y - 1)
        BY <3>1, SealedIs
      <3> HIDE DEF x, y, n
      <3>5. Overhead + (y - x) > Overhead
        BY <3>2, RangeNats
      <3>6. Right(k)
        BY <3>1, <3>3, <3>4, <3>5
      <3> QED
        BY <3>2, <3>3, <3>4, <3>6 DEF K, y
    <2> HIDE DEF Right
    <2>4. good = 0 .. m
      BY <2>2, <2>3
    <2> HIDE DEF good
    <2>5. last = m
      <3>1. m \in good /\ \A j \in good : j <= m
        BY <2>2, <2>4
      <3>2. last \in good /\ \A j \in good : j <= last
        BY <3>1
      <3> HIDE DEF last
      <3>3. m \in Int /\ last \in Int /\ m <= last /\ last <= m
        BY <2>2, <2>4, <3>1, <3>2
      <3> QED
        BY <3>3
    <2> HIDE DEF last
    <2> DEFINE T == Slice(bytes, a, b - 1)
               off == [k \in 0 .. m |-> PlainEnd(n, A + k) - a]
    <2>6. Within(a, b - 1, n)
      BY <1>0, <1>1 DEF Within
    <2>7. T \in Seq(Cell) /\ Len(T) = b - a
      <3>1. (b - 1) - a + 1 = b - a
        BY <1>1
      <3> HIDE DEF a, b
      <3> QED
        BY <2>6, <3>1, SliceIs
    <2>8. /\ Len(ss) = m /\ (m = 0 => ss = <<>>)
          /\ \A k \in 1 .. m : ss[k] = SubSeq(Piece(k), Overhead + 1, Len(Piece(k)))
      <3>1. m \in Nat \ {0}
        BY <2>2
      <3> HIDE DEF m
      <3>2. \A k \in 1 .. m : ss[k] = SubSeq(Piece(k), Overhead + 1, Len(Piece(k)))
        BY <2>5
      <3>3. Len(ss) = m
        BY <2>5, <3>1
      <3> QED
        BY <3>1, <3>2, <3>3
    <2>9. \A k \in 0 .. m : off[k] = PlainEnd(n, A + k) - a
      OBVIOUS
    <2> HIDE DEF ss, off
    <2>10. off[0] = 0 /\ off[m] = b - a
      <3>1. 0 \in 0 .. m /\ m \in 0 .. m /\ A + 0 = A /\ A + m = B
        BY <2>2
      <3>2. off[0] = a - a /\ off[m] = b - a
        BY <2>9, <3>1
      <3> HIDE DEF a
      <3> QED
        BY <1>1, <3>2
    <2>11. ASSUME NEW k \in 0 .. m
           PROVE  PlainEnd(n, A + k) \in Nat /\ a <= PlainEnd(n, A + k) /\ PlainEnd(n, A + k) <= b
      <3>1. A + k \in Nat /\ A <= A + k /\ A + k <= B
        BY <2>2
      <3> HIDE DEF n
      <3> QED
        BY <1>0, <3>1, PlainGrows
    <2>12. \A k \in 0 .. m : off[k] \in 0 .. Len(T)
      <3> TAKE k \in 0 .. m
      <3> DEFINE x == PlainEnd(n, A + k)
      <3>1. x \in Nat /\ a <= x /\ x <= b /\ off[k] = x - a
        BY <2>9, <2>11
      <3> HIDE DEF x, T, a, b
      <3>2. x - a \in 0 .. b - a
        BY <1>1, <3>1
      <3> QED
        BY <2>7, <3>1, <3>2
    <2>13. ASSUME NEW k \in 1 .. m
           PROVE  off[k - 1] <= off[k] /\ ss[k] = SubSeq(T, off[k - 1] + 1, off[k])
      <3> DEFINE x == PlainEnd(n, (A + k) - 1)
                 y == PlainEnd(n, A + k)
                 c == x - a
                 d == y - a - 1
      <3>1. k - 1 \in 0 .. m /\ k \in 0 .. m /\ A + (k - 1) = (A + k) - 1
        BY <2>2
      <3>2. x \in Nat /\ y \in Nat /\ a <= x /\ y <= b /\ off[k - 1] = x - a /\ off[k] = y - a
        BY <2>9, <2>11, <3>1
      <3>3. x <= y
        <4>1. (A + k) - 1 \in Nat /\ A + k \in Nat /\ (A + k) - 1 <= A + k
          BY <3>1
        <4> HIDE DEF n
        <4> QED
          BY <1>0, <4>1, PlainGrows
      <3>4. ss[k] = Slice(bytes, x, y - 1)
        BY <2>3, <2>8
      <3> HIDE DEF x, y, a, b
      <3>5. /\ Within(c, d, (b - 1) - a + 1) /\ a + c = x /\ a + d = y - 1
            /\ off[k - 1] <= off[k] /\ off[k - 1] = c /\ off[k] = d + 1
        BY <1>1, <3>2, <3>3 DEF Within
      <3> HIDE DEF c, d
      <3>6. Slice(T, c, d) = Slice(bytes, a + c, a + d)
        BY <2>6, <3>5, SliceOfSlice
      <3> HIDE DEF T
      <3>7. Slice(T, c, d) = SubSeq(T, off[k - 1] + 1, off[k])
        BY <3>5 DEF Slice
      <3> QED
        BY <3>4, <3>5, <3>6, <3>7
    <2>14. CutsOf(T, m, ss, off)
      <3> HIDE DEF T, m
      <3> QED
        BY <2>2, <2>7, <2>8, <2>10, <2>12, <2>13 DEF CutsOf
    <2>15. FlattenSeq(ss) = T
      <3> HIDE DEF T
      <3> QED
        BY <2>7, <2>14, FlattenCuts
    <2> QED
      BY <2>1, <2>15 DEF cells
  <1> QED
    BY <1>2, <1>3

-----------------------------------------------------------------------------
(* The answers.                                                            *)

\* A reply that is right for this object and this range.
RightReply(whole, h, a) ==
  \/ /\ a.status = 200 /\ a.body = whole
     /\ h # NoRange => Wanted(h, Len(whole)) = {}
  \/ /\ a.status = 206 /\ h # NoRange
     /\ a.range.from .. a.range.to = Wanted(h, Len(whole))
     /\ a.body = Slice(whole, a.range.from, a.range.to)
  \/ a.status = 416 /\ h # NoRange /\ Wanted(h, Len(whole)) = {}

FileReply(size, h) ==
  LET got == Get(RangeFile(1, size), h) IN
  RangeReply(IF got.range = Refused THEN 200 ELSE 206, got.body, got.range)

LEMMA FileReplyIs ==
  ASSUME NEW n \in Nat, NEW h \in Bounds \cup {NoRange}
  PROVE  RightReply(RangeFile(1, n), h, FileReply(n, h))
  <1> DEFINE W == RangeFile(1, n)
             p == ParseRange(h, n)
  <1>1. W \in Seq(Cell) /\ Len(W) = n
    BY FileIs
  <1> HIDE DEF W
  <1>2. CASE h = NoRange \/ p = Refused
    <2>1. Get(W, h) = [body |-> W, range |-> Refused]
      BY <1>1, <1>2 DEF Get
    <2>2. FileReply(n, h) = RangeReply(200, W, Refused)
      BY <2>1 DEF FileReply, W
    <2>3. h # NoRange => Wanted(h, n) = {}
      <3>1. SUFFICES ASSUME h # NoRange PROVE Wanted(h, n) = {}
        OBVIOUS
      <3>2. h \in Bounds /\ p = Refused
        BY <1>2, <3>1
      <3> QED
        BY <3>2, ParseRangeIs
    <2> QED
      BY <1>1, <2>2, <2>3 DEF RightReply, RangeReply, W
  <1>3. CASE h # NoRange /\ p # Refused
    <2>1. Get(W, h) = [body |-> Slice(W, p.from, p.to), range |-> p]
      BY <1>1, <1>3 DEF Get
    <2>2. FileReply(n, h) = RangeReply(206, Slice(W, p.from, p.to), p)
      BY <1>3, <2>1 DEF FileReply, W
    <2>3. p.from .. p.to = Wanted(h, n)
      BY <1>3, ParseRangeIs
    <2> HIDE DEF p
    <2> QED
      BY <1>1, <1>3, <2>2, <2>3 DEF RightReply, RangeReply, W
  <1> QED
    BY <1>2, <1>3

\* The bytes a plan of an encrypted range leads to.
LEMMA PlanLeads ==
  ASSUME NEW bytes \in Seq(Cell), NEW to \in Nat, to < Len(bytes), NEW from \in 0 .. to
  PROVE  LET plan  == PlanRange(from, to + 1, Len(bytes))
             cells == Get(Encrypt(bytes), [lo |-> plan.encStart, hi |-> plan.encEnd - 1]).body
         IN DecryptRange(cells, plan) = Slice(bytes, from, to)
  <1> DEFINE n == Len(bytes)
             N == Packages(n)
             A == from \div Package
             C == to \div Package
             B == C + 1
             W == Encrypt(bytes)
             plan == PlanRange(from, to + 1, n)
             lo == EncOff(n, A)
             hi == EncOff(n, B) - 1
  <1>0. n \in Nat /\ from \in Nat /\ from <= to /\ to < n /\ Package \in Nat \ {0} /\ EncPkg \in Nat \ {0}
    BY RangeNats DEF EncPkg
  <1> HIDE DEF n
  <1>1. A \in Nat /\ A * Package <= from /\ from < (A + 1) * Package
    <2> DEFINE q == A
               r == from % Package
    <2>1. q \in Nat /\ r \in 0 .. Package - 1 /\ from = q * Package + r
      BY <1>0, Division
    <2> HIDE DEF q, r
    <2>2. (q + 1) * Package = q * Package + Package /\ q * Package \in Int
      BY <1>0, <2>1
    <2>3. q * Package <= from /\ from < q * Package + Package
      BY <1>0, <2>1, <2>2
    <2> QED
      BY <2>1, <2>2, <2>3 DEF q
  <1>2. C \in Nat /\ C * Package <= to /\ to < (C + 1) * Package
    <2> DEFINE q == C
               r == to % Package
    <2>1. q \in Nat /\ r \in 0 .. Package - 1 /\ to = q * Package + r
      BY <1>0, Division
    <2> HIDE DEF q, r
    <2>2. (q + 1) * Package = q * Package + Package /\ q * Package \in Int
      BY <1>0, <2>1
    <2>3. q * Package <= to /\ to < q * Package + Package
      BY <1>0, <2>1, <2>2
    <2> QED
      BY <2>1, <2>2, <2>3 DEF q
  <1> HIDE DEF A, C
  <1>3. N \in Nat /\ n <= N * Package
    BY <1>0, PackagesAre
  <1> HIDE DEF N
  <1>4. A < B
    <2>1. A * Package < (C + 1) * Package
      <3>1. A * Package \in Int /\ (C + 1) * Package \in Int
        BY <1>0, <1>1, <1>2
      <3> QED
        BY <1>0, <1>1, <1>2, <3>1
    <2> QED
      BY <1>0, <1>1, <1>2, <2>1, TimesLess
  <1>5. B <= N
    <2>1. C * Package < N * Package
      <3>1. C * Package \in Int /\ N * Package \in Int
        BY <1>0, <1>2, <1>3
      <3> QED
        BY <1>0, <1>2, <1>3, <3>1
    <2>2. C < N
      BY <1>0, <1>2, <1>3, <2>1, TimesLess
    <2> QED
      BY <1>2, <1>3, <2>2
  <1>6. B \in 1 .. N /\ B \in Nat /\ A + 1 \in 1 .. N /\ (A + 1) - 1 = A /\ B - 1 = C
    BY <1>1, <1>2, <1>3, <1>4, <1>5
  <1> DEFINE a == PlainEnd(n, A)
             b == PlainEnd(n, B)
  <1>7. a = A * Package /\ a \in Nat /\ lo = A * EncPkg /\ lo \in Nat
    <2>1. PlainEnd(n, (A + 1) - 1) = ((A + 1) - 1) * Package /\ PlainEnd(n, (A + 1) - 1) \in Nat
          /\ EncOff(n, (A + 1) - 1) = ((A + 1) - 1) * EncPkg /\ EncOff(n, (A + 1) - 1) \in Nat
      BY <1>0, <1>6, PackageAt DEF N
    <2> QED
      BY <1>6, <2>1
  <1>8. b \in Nat /\ b <= n /\ C * Package < b /\ b <= B * Package
    <2>1. PlainEnd(n, B - 1) = (B - 1) * Package /\ PlainEnd(n, B - 1) < b /\ b \in Nat /\ b <= n
      BY <1>0, <1>6, PackageAt DEF N
    <2>2. b <= B * Package
      <3>1. B * Package \in Int
        BY <1>0, <1>6
      <3> QED
        BY <1>0, <3>1 DEF PlainEnd, Least
    <2> QED
      BY <1>6, <2>1, <2>2
  <1>9. plan.encEnd = EncOff(n, B)
    <2>1. ((to + 1) - 1) \div Package = C
      <3>1. (to + 1) - 1 = to
        OBVIOUS
      <3> QED
        BY <3>1 DEF C
    <2>2. plan.encEnd = EncryptedSize(b)
      BY <2>1 DEF PlanRange, PlainEnd
    <2> HIDE DEF b, plan
    <2>3. Packages(b) = B
      BY <1>6, <1>8, PackagesIs
    <2>4. EncryptedSize(b) = b + Overhead * B
      BY <2>3 DEF EncryptedSize
    <2>5. b + Overhead * B = B * Overhead + b
      BY <1>6, <1>8, RangeNats
    <2> QED
      BY <2>2, <2>4, <2>5 DEF EncOff, b
  <1>10. plan.encStart = lo /\ plan.seq = A /\ plan.skip = from - a /\ plan.length = (to + 1) - from
    <2>1. plan.encStart = A * EncPkg /\ plan.seq = A /\ plan.skip = from - A * Package
          /\ plan.length = (to + 1) - from
      BY DEF PlanRange, A
    <2> HIDE DEF plan, lo, a
    <2> QED
      BY <1>7, <2>1
  <1> HIDE DEF plan
  <1>11. hi \in Nat /\ lo <= hi
    <2> DEFINE u == EncOff(n, C)
               v == EncOff(n, B)
    <2>1. u \in Nat /\ v = u + Overhead + (b - PlainEnd(n, C)) /\ PlainEnd(n, C) < b /\ PlainEnd(n, C) \in Nat
      BY <1>0, <1>6, PackageAt DEF N
    <2>2. lo <= u
      <3> DEFINE x == A * Overhead
                 y == C * Overhead
                 c == PlainEnd(n, C)
      <3>1. x <= y /\ x \in Int /\ y \in Int
        <4>1. Overhead \in Nat /\ A \in Int /\ C \in Int /\ A <= C
          BY <1>1, <1>2, <1>4, RangeNats
        <4> QED
          BY <4>1, Times
      <3>2. a <= c /\ c \in Nat /\ a \in Nat
        <4>1. A <= C
          BY <1>1, <1>2, <1>4
        <4> QED
          BY <1>0, <1>1, <1>2, <4>1, PlainGrows
      <3>3. lo = x + a /\ u = y + c
        BY DEF EncOff
      <3> HIDE DEF x, y, a, c, lo, u
      <3> QED
        BY <3>1, <3>2, <3>3
    <2>3. Overhead \in Nat
      BY RangeNats
    <2> HIDE DEF u, lo, b
    <2>4. v \in Nat /\ u <= v - 1 /\ v - 1 \in Nat
      <3> HIDE DEF v
      <3> QED
        BY <1>8, <2>1, <2>3
    <2> QED
      BY <1>7, <2>1, <2>2, <2>4
  <1>12. W \in Seq(Cell) /\ hi < Len(W)
    <2>1. W \in Seq(Cell) /\ EncOff(n, B) <= Len(W) /\ EncOff(n, B) \in Int
      <3>1. EncOff(n, B) \in Int
        BY <1>6, <1>8, RangeNats DEF EncOff
      <3> QED
        BY <1>6, <3>1, EncryptIs DEF n, N
    <2>2. Len(W) \in Nat
      BY <2>1
    <2> HIDE DEF W
    <2> QED
      BY <2>1, <2>2
  <1> DEFINE cells == Get(W, [lo |-> lo, hi |-> hi]).body
  <1>13. cells = Packed2(bytes, A, B)
    <2>1. lo \in 0 .. hi
      BY <1>7, <1>11
    <2> HIDE DEF W, lo, hi
    <2>2. cells = Slice(W, lo, hi)
      BY <1>11, <1>12, <2>1, GetInner
    <2> QED
      BY <2>2 DEF Packed2, W, lo, hi, n
  <1> HIDE DEF cells
  <1> DEFINE plain == Decrypt(cells, A)
  <1>14. plain = Slice(bytes, a, b - 1)
    <2>1. A <= B /\ B <= Packages(Len(bytes))
      BY <1>1, <1>4, <1>5, <1>6 DEF N, n
    <2> QED
      BY <1>1, <1>6, <1>13, <2>1, DecryptIs DEF n
  <1>15. a <= from /\ to + 1 <= b /\ to < b
    <2>1. B * Package \in Int /\ to < B * Package
      BY <1>0, <1>2
    <2>2. to < b
      BY <1>0, <2>1 DEF PlainEnd, Least
    <2> HIDE DEF a, b
    <2> QED
      BY <1>0, <1>1, <1>7, <1>8, <2>2
  <1> HIDE DEF a, b
  <1>16. Within(a, b - 1, Len(bytes))
    <2>1. Within(a, b - 1, n)
      BY <1>0, <1>7, <1>8, <1>15 DEF Within
    <2> QED
      BY <2>1 DEF n
  <1>17. plain \in Seq(Cell) /\ Len(plain) = b - a
    <2>1. (b - 1) - a + 1 = b - a
      BY <1>7, <1>8
    <2> HIDE DEF plain
    <2> QED
      BY <1>14, <1>16, <2>1, SliceIs
  <1> HIDE DEF plain
  <1> DEFINE c == from - a
             d == to - a
  <1>18. Within(c, d, (b - 1) - a + 1) /\ a + c = from /\ a + d = to
    <2>1. from \in Nat /\ to \in Nat /\ a \in Nat /\ b \in Nat /\ a <= from /\ from <= to /\ to < b
      BY <1>0, <1>7, <1>8, <1>15
    <2>2. c = from - a /\ d = to - a
      OBVIOUS
    <2> HIDE DEF c, d
    <2>3. c \in Nat /\ d \in Int /\ (b - 1) - a + 1 \in Nat /\ d < (b - 1) - a + 1 /\ c <= d + 1
      BY <2>1, <2>2
    <2> QED
      BY <2>1, <2>2, <2>3 DEF Within
  <1>19. DecryptRange(cells, plan) = Slice(plain, c, d)
    <2>1. DecryptRange(cells, plan) =
            SubSeq(plain, plan.skip + 1, Least(plan.skip + plan.length, Len(plain)))
      BY <1>10 DEF DecryptRange, plain
    <2>2. plan.skip + plan.length = d + 1 /\ plan.skip = c
      BY <1>0, <1>7, <1>10
    <2>3. Least(d + 1, b - a) = d + 1
      BY <1>0, <1>7, <1>8, <1>15 DEF Least
    <2> HIDE DEF c, d
    <2>4. DecryptRange(cells, plan) = SubSeq(plain, c + 1, d + 1)
      BY <1>17, <2>1, <2>2, <2>3
    <2> QED
      BY <2>4 DEF Slice
  <1> HIDE DEF c, d
  <1>20. Slice(plain, c, d) = Slice(bytes, a + c, a + d)
    BY <1>14, <1>16, <1>18, SliceOfSlice
  <1>21. DecryptRange(cells, plan) = Slice(bytes, from, to)
    BY <1>18, <1>19, <1>20
  <1>22. cells = Get(Encrypt(bytes), [lo |-> plan.encStart, hi |-> plan.encEnd - 1]).body
    BY <1>9, <1>10 DEF cells, hi
  <1> QED
    BY <1>21, <1>22 DEF plan, n

EncReply(size, h) ==
  LET cells == Encrypt(RangeFile(1, size))
      total == PlainSize(Len(cells))
      p     == IF h = NoRange THEN Refused ELSE ParseRange(h, total)
      plan  == PlanRange(p.from, p.to + 1, total)
  IN IF total = Undecodable THEN RangeReply(500, <<>>, Refused)
     ELSE IF h = NoRange THEN RangeReply(200, Decrypt(cells, 0), Refused)
     ELSE IF p = Refused \/ p.from > p.to THEN RangeReply(416, <<>>, Refused)
     ELSE RangeReply(206, DecryptRange(Get(cells, [lo |-> plan.encStart, hi |-> plan.encEnd - 1]).body, plan), p)

LEMMA EncReplyIs ==
  ASSUME NEW n \in Nat, NEW h \in Bounds \cup {NoRange}
  PROVE  RightReply(RangeFile(1, n), h, EncReply(n, h))
  <1> DEFINE bytes == RangeFile(1, n)
             cells == Encrypt(bytes)
             total == PlainSize(Len(cells))
             p == ParseRange(h, n)
  <1>1. bytes \in Seq(Cell) /\ Len(bytes) = n
    BY FileIs
  <1> HIDE DEF bytes
  <1>2. cells \in Seq(Cell) /\ Len(cells) = EncryptedSize(n)
    BY <1>1, EncryptIs
  <1>3. total = n /\ n # Undecodable
    BY <1>2, PlainSizeIs DEF Undecodable
  <1> HIDE DEF total
  <1>4. CASE h = NoRange
    <2>1. Decrypt(cells, 0) = bytes
      <3> DEFINE N == Packages(n)
      <3>1. N \in Nat /\ 0 <= N
        BY PackagesAre
      <3>2. PlainEnd(n, 0) = 0 /\ EncOff(n, 0) = 0 /\ PlainEnd(n, N) = n /\ EncOff(n, N) = EncryptedSize(n)
        BY PlainEndIs
      <3>3. Decrypt(Packed2(bytes, 0, N), 0) = Slice(bytes, PlainEnd(n, 0), PlainEnd(n, N) - 1)
        BY <1>1, <3>1, DecryptIs
      <3> HIDE DEF cells, N
      <3>4. Packed2(bytes, 0, N) = Slice(cells, 0, Len(cells) - 1)
        BY <1>1, <1>2, <3>2 DEF Packed2, cells
      <3>5. Packed2(bytes, 0, N) = cells
        BY <1>2, <3>4, SliceAll
      <3>6. Slice(bytes, 0, n - 1) = bytes
        BY <1>1, SliceAll
      <3> QED
        BY <3>2, <3>3, <3>5, <3>6
    <2> HIDE DEF cells
    <2>2. EncReply(n, h) = RangeReply(200, bytes, Refused)
      BY <1>3, <1>4, <2>1 DEF EncReply, cells, bytes, total
    <2> QED
      BY <1>1, <1>4, <2>2 DEF RightReply, RangeReply, bytes
  <1>5. CASE h # NoRange /\ (p = Refused \/ p.from > p.to)
    <2>1. EncReply(n, h) = RangeReply(416, <<>>, Refused)
      <3> HIDE DEF cells
      <3> QED
        BY <1>3, <1>5 DEF EncReply, cells, bytes, total
    <2>2. Wanted(h, n) = {}
      <3>1. h \in Bounds
        BY <1>5
      <3>2. CASE p = Refused
        BY <3>1, <3>2, ParseRangeIs
      <3>3. CASE p # Refused
        <4>1. p.from \in Nat /\ p.to \in Int /\ p.from .. p.to = Wanted(h, n)
          BY <3>1, <3>3, ParseRangeIs
        <4>2. p.from > p.to
          BY <1>5, <3>3
        <4> HIDE DEF p
        <4> QED
          BY <4>1, <4>2
      <3> QED
        BY <3>2, <3>3
    <2> QED
      BY <1>1, <1>5, <2>1, <2>2 DEF RightReply, RangeReply, bytes
  <1>6. CASE h # NoRange /\ ~(p = Refused \/ p.from > p.to)
    <2> DEFINE plan == PlanRange(p.from, p.to + 1, n)
               body == DecryptRange(Get(cells, [lo |-> plan.encStart, hi |-> plan.encEnd - 1]).body, plan)
    <2>1. p.from \in Nat /\ p.to \in Int /\ p.to < n /\ p.from .. p.to = Wanted(h, n)
      BY <1>6, ParseRangeIs
    <2>2. p.from <= p.to
      <3> HIDE DEF p
      <3> QED
        BY <1>6, <2>1
    <2>3. EncReply(n, h) = RangeReply(206, body, p)
      <3> HIDE DEF cells
      <3> QED
        BY <1>3, <1>6 DEF EncReply, cells, bytes, total
    <2> HIDE DEF p
    <2>4. body = Slice(bytes, p.from, p.to)
      <3>1. p.to \in Nat /\ p.from \in 0 .. p.to /\ p.to < Len(bytes)
        BY <1>1, <2>1, <2>2
      <3> QED
        BY <1>1, <3>1, PlanLeads
    <2> HIDE DEF body
    <2> QED
      BY <1>1, <1>6, <2>1, <2>3, <2>4 DEF RightReply, RangeReply, bytes
  <1> QED
    BY <1>4, <1>5, <1>6

-----------------------------------------------------------------------------
(* Zips.                                                                   *)

LEMMA SliceOfConcat ==
  ASSUME NEW S, NEW s \in Seq(S), NEW t \in Seq(S)
  PROVE  /\ Slice(s \o t, 0, Len(s) - 1) = s
         /\ Slice(s \o t, Len(s), Len(s) + Len(t) - 1) = t
  <1> DEFINE W == s \o t
             a == Len(s)
             b == Len(t)
             U == Slice(W, 0, a - 1)
             V == Slice(W, a, a + b - 1)
  <1>1. a \in Nat /\ b \in Nat
    OBVIOUS
  <1>2. W \in Seq(S) /\ Len(W) = a + b /\ \A i \in 1 .. a + b : W[i] = IF i <= a THEN s[i] ELSE t[i - a]
    BY ConcatProperties
  <1> HIDE DEF W
  <1>3. Within(0, a - 1, Len(W)) /\ Within(a, a + b - 1, Len(W))
    <2> HIDE DEF a, b
    <2> QED
      BY <1>1, <1>2 DEF Within
  <1>4. U \in Seq(S) /\ Len(U) = (a - 1) - 0 + 1 /\ \A i \in 1 .. ((a - 1) - 0 + 1) : U[i] = W[0 + i]
    <2> HIDE DEF a, b
    <2> QED
      BY <1>2, <1>3, SliceIs
  <1>5. V \in Seq(S) /\ Len(V) = (a + b - 1) - a + 1 /\ \A i \in 1 .. ((a + b - 1) - a + 1) : V[i] = W[a + i]
    <2> HIDE DEF a, b
    <2> QED
      BY <1>2, <1>3, SliceIs
  <1> HIDE DEF U, V
  <1>6. U = s
    <2>1. Len(U) = Len(s)
      BY <1>1, <1>4
    <2>2. ASSUME NEW i \in 1 .. Len(U) PROVE U[i] = s[i]
      <3> HIDE DEF a, b
      <3>1. i \in 1 .. ((a - 1) - 0 + 1) /\ 0 + i = i /\ i \in 1 .. a + b /\ i <= a
        BY <1>1, <1>4
      <3> QED
        BY <1>2, <1>4, <3>1
    <2> QED
      BY <1>4, <2>1, <2>2, SeqEqual
  <1>7. V = t
    <2>1. Len(V) = Len(t)
      BY <1>1, <1>5
    <2>2. ASSUME NEW i \in 1 .. Len(V) PROVE V[i] = t[i]
      <3> HIDE DEF a, b
      <3>1. /\ i \in 1 .. ((a + b - 1) - a + 1) /\ a + i \in 1 .. a + b /\ ~(a + i <= a) /\ (a + i) - a = i
        BY <1>1, <1>5
      <3> QED
        BY <1>2, <1>5, <3>1
    <2> QED
      BY <1>5, <2>1, <2>2, SeqEqual
  <1> QED
    BY <1>6, <1>7 DEF U, V, W

\* The parts of a zip: its trailer, and what comes before it.
CdOff(p)   == LocalOff(p)[Len(p) + 1]
CdSize(p)  == Offsets([f \in 1 .. Len(p) |-> CentralLen(CentralHeader(p[f], LocalOff(p)[f]))])[Len(p) + 1]
TrailerLen(p) == CdSize(p) + EndLen(EndRecords(CdSize(p), CdOff(p)))
Trailer(p) == [i \in 1 .. TrailerLen(p) |-> <<"trailer", i - 1>>]
FrontBytes(p)   == FlattenSeq([f \in 1 .. Len(p) |-> LocalHeader(f, p[f]) \o RangeFile(f, p[f])])
ZipBytes(p) == FrontBytes(p) \o Trailer(p)
HeadSize(size) == HeaderLen + IF Zip64(size) THEN ExtraLen ELSE 0
HeadSeg(p, f) == [off |-> LocalOff(p)[f], size |-> Len(LocalHeader(f, p[f])), hdr |-> LocalHeader(f, p[f]), file |-> 0]
BodySeg(p, f) == [off |-> LocalOff(p)[f] + Len(LocalHeader(f, p[f])), size |-> p[f], hdr |-> <<>>, file |-> f]
LastSeg(p)    == [off |-> CdOff(p), size |-> Len(Trailer(p)), hdr |-> Trailer(p), file |-> 0]
FrontSegs(p)  == FlattenSeq([f \in 1 .. Len(p) |-> <<HeadSeg(p, f), BodySeg(p, f)>>])

LEMMA LayoutIs ==
  ASSUME NEW p \in Packed
  PROVE  LET layout == BuildZipLayout(p) IN
         /\ layout.segs = FrontSegs(p) \o <<LastSeg(p)>>
         /\ layout.cdOff = CdOff(p) /\ layout.cdSize = CdSize(p)
         /\ layout.total = CdOff(p) + Len(Trailer(p))
         /\ layout.end = EndRecords(CdSize(p), CdOff(p))
         /\ layout.central = [f \in 1 .. Len(p) |-> CentralHeader(p[f], LocalOff(p)[f])]
  <1> DEFINE central == [f \in 1 .. Len(p) |-> CentralHeader(p[f], LocalOff(p)[f])]
  <1>1. Offsets([f \in 1 .. Len(p) |-> CentralLen(central[f])])[Len(p) + 1] = CdSize(p)
    <2>1. [f \in 1 .. Len(p) |-> CentralLen(central[f])]
            = [f \in 1 .. Len(p) |-> CentralLen(CentralHeader(p[f], LocalOff(p)[f]))]
      OBVIOUS
    <2> QED
      BY <2>1 DEF CdSize
  <1> QED
    BY <1>1 DEF BuildZipLayout, FrontSegs, HeadSeg, BodySeg, LastSeg, CdOff, Trailer, TrailerLen

LEMMA HeaderIs ==
  ASSUME NEW f \in Nat, NEW size \in Nat
  PROVE  /\ LocalHeader(f, size) \in Seq(Cell)
         /\ Len(LocalHeader(f, size)) = HeadSize(size) /\ HeadSize(size) \in Nat \ {0}
         /\ \A i \in 1 .. HeadSize(size) : LocalHeader(f, size)[i] = <<"local", f>>
  <1>1. HeadSize(size) \in Nat \ {0}
    BY RangeNats DEF HeadSize
  <1>2. <<"local", f>> \in Cell
    BY CellsAre
  <1>3. LocalHeader(f, size) = [i \in 1 .. HeadSize(size) |-> <<"local", f>>]
    BY DEF LocalHeader, HeadSize
  <1> DEFINE h == HeadSize(size)
             c == <<"local", f>>
  <1> HIDE DEF h, c
  <1>4. [i \in 1 .. h |-> c] \in Seq(Cell) /\ Len([i \in 1 .. h |-> c]) = h
        /\ \A i \in 1 .. h : [j \in 1 .. h |-> c][i] = c
    BY <1>1, <1>2 DEF h, c
  <1> QED
    BY <1>1, <1>3, <1>4 DEF h, c

LEMMA PackedIs ==
  ASSUME NEW p \in Packed
  PROVE  Len(p) \in Nat /\ \A f \in 1 .. Len(p) : p[f] \in Nat
  <1>1. p \in Seq(0 .. MaxSize) /\ MaxSize \in Nat
    BY RangeAssumption
  <1> QED
    BY <1>1

LEMMA LocalOffIs ==
  ASSUME NEW p \in Packed
  PROVE  /\ LocalOff(p)[1] = 0
         /\ \A f \in 1 .. Len(p) : LocalOff(p)[f + 1] = LocalOff(p)[f] + HeadSize(p[f]) + p[f]
         /\ \A f \in 1 .. Len(p) + 1 : LocalOff(p)[f] \in Nat
         /\ CdSize(p) \in Nat /\ CdOff(p) \in Nat
  <1> DEFINE n == Len(p)
             lens == [f \in 1 .. n |-> Len(LocalHeader(f, p[f])) + p[f]]
             cds == [f \in 1 .. n |-> CentralLen(CentralHeader(p[f], LocalOff(p)[f]))]
  <1>1. n \in Nat /\ \A f \in 1 .. n : p[f] \in Nat
    BY PackedIs
  <1>2. \A f \in 1 .. n : lens[f] = HeadSize(p[f]) + p[f] /\ lens[f] \in Nat
    <2> TAKE f \in 1 .. n
    <2>1. f \in Nat /\ p[f] \in Nat
      BY <1>1
    <2>2. lens[f] = Len(LocalHeader(f, p[f])) + p[f]
      OBVIOUS
    <2> HIDE DEF lens
    <2>3. Len(LocalHeader(f, p[f])) = HeadSize(p[f]) /\ HeadSize(p[f]) \in Nat
      BY <2>1, HeaderIs
    <2> QED
      BY <2>1, <2>2, <2>3
  <1>3. LocalOff(p) = Offsets(lens)
    BY DEF LocalOff
  <1>4. Len(lens) = n
    <2> HIDE DEF n
    <2> QED
      BY <1>1
  <1> HIDE DEF lens
  <1>5. /\ LocalOff(p)[1] = 0
        /\ \A f \in 1 .. n : LocalOff(p)[f + 1] = LocalOff(p)[f] + lens[f]
        /\ \A f \in 1 .. n + 1 : LocalOff(p)[f] \in Nat
    <2>1. Lengths(lens, n)
      BY <1>1, <1>2, <1>4 DEF Lengths
    <2> QED
      BY <1>3, <2>1, OffsetsAre
  <1>6. ASSUME NEW f \in 1 .. n PROVE LocalOff(p)[f + 1] = LocalOff(p)[f] + HeadSize(p[f]) + p[f]
    <2>1. p[f] \in Nat /\ f \in Nat /\ f \in 1 .. n + 1
      BY <1>1
    <2>2. HeadSize(p[f]) \in Nat
      BY <2>1, HeaderIs
    <2>3. LocalOff(p)[f] \in Nat
      BY <1>5, <2>1
    <2> QED
      BY <1>2, <1>5, <2>1, <2>2, <2>3
  <1>7. \A f \in 1 .. n : cds[f] \in Nat
    BY RangeNats DEF CentralLen
  <1>8. Len(cds) = n
    <2> HIDE DEF n
    <2> QED
      BY <1>1
  <1>9. CdSize(p) = Offsets(cds)[n + 1]
    BY DEF CdSize
  <1> HIDE DEF cds
  <1>10. Offsets(cds)[n + 1] \in Nat
    <2>1. n + 1 \in 1 .. n + 1
      BY <1>1
    <2> QED
      <3>1. Lengths(cds, n)
        BY <1>1, <1>7, <1>8 DEF Lengths
      <3> QED
        BY <2>1, <3>1, OffsetsAre
  <1>11. CdOff(p) \in Nat
    <2>1. n + 1 \in 1 .. n + 1
      BY <1>1
    <2> QED
      BY <1>5, <2>1 DEF CdOff
  <1> QED
    BY <1>5, <1>6, <1>9, <1>10, <1>11

LEMMA TrailerIs ==
  ASSUME NEW p \in Packed
  PROVE  /\ Trailer(p) \in Seq(Cell) /\ Len(Trailer(p)) \in Nat \ {0} /\ Len(Trailer(p)) = TrailerLen(p)
         /\ Trailer(p)[1] = <<"trailer", 0>>
  <1> DEFINE m == TrailerLen(p)
  <1>1. m \in Nat \ {0}
    <2>1. CdSize(p) \in Nat
      BY LocalOffIs
    <2>2. EndLen(EndRecords(CdSize(p), CdOff(p))) \in Nat \ {0}
      BY RangeNats DEF EndLen
    <2> QED
      BY <2>1, <2>2 DEF TrailerLen
  <1>2. Trailer(p) = [i \in 1 .. m |-> <<"trailer", i - 1>>]
    BY DEF Trailer
  <1> HIDE DEF m
  <1>3. \A i \in 1 .. m : <<"trailer", i - 1>> \in Cell
    BY <1>1, CellsAre
  <1>4. 1 \in 1 .. m /\ 1 - 1 = 0
    BY <1>1
  <1> QED
    BY <1>1, <1>2, <1>3, <1>4 DEF m


\* Where everything in a zip is.
LEMMA ZipIs ==
  ASSUME NEW p \in Packed
  PROVE  LET at == LocalOff(p) IN
         /\ ZipBytes(p) \in Seq(Cell)
         /\ Len(ZipBytes(p)) = CdOff(p) + Len(Trailer(p))
         /\ Slice(ZipBytes(p), CdOff(p), CdOff(p) + Len(Trailer(p)) - 1) = Trailer(p)
         /\ \A f \in 1 .. Len(p) :
              /\ at[f + 1] <= CdOff(p)
              /\ Slice(ZipBytes(p), at[f], at[f] + HeadSize(p[f]) - 1) = LocalHeader(f, p[f])
              /\ Slice(ZipBytes(p), at[f] + HeadSize(p[f]), at[f + 1] - 1) = RangeFile(f, p[f])
  <1> DEFINE n == Len(p)
             at == LocalOff(p)
             ss == [f \in 1 .. n |-> LocalHeader(f, p[f]) \o RangeFile(f, p[f])]
             off == [i \in 0 .. n |-> at[i + 1]]
             F == FrontBytes(p)
             T == Trailer(p)
             Z == ZipBytes(p)
  <1>1. n \in Nat /\ \A f \in 1 .. n : p[f] \in Nat
    BY PackedIs
  <1>2. /\ at[1] = 0
        /\ \A f \in 1 .. n : at[f + 1] = at[f] + HeadSize(p[f]) + p[f]
        /\ \A f \in 1 .. n + 1 : at[f] \in Nat
        /\ CdOff(p) \in Nat
    BY LocalOffIs
  <1>3. ASSUME NEW f \in 1 .. n
        PROVE  /\ ss[f] \in Seq(Cell) /\ Len(ss[f]) = HeadSize(p[f]) + p[f]
               /\ HeadSize(p[f]) \in Nat \ {0} /\ p[f] \in Nat
               /\ Slice(ss[f], 0, HeadSize(p[f]) - 1) = LocalHeader(f, p[f])
               /\ Slice(ss[f], HeadSize(p[f]), HeadSize(p[f]) + p[f] - 1) = RangeFile(f, p[f])
    <2> DEFINE s == LocalHeader(f, p[f])
               t == RangeFile(f, p[f])
               a == HeadSize(p[f])
               b == p[f]
    <2>1. f \in Nat /\ b \in Nat
      BY <1>1
    <2>2. s \in Seq(Cell) /\ Len(s) = a /\ a \in Nat \ {0}
      BY <2>1, HeaderIs
    <2>3. t \in Seq(Cell) /\ Len(t) = b
      BY <2>1, FileIs
    <2>4. ss[f] = s \o t
      OBVIOUS
    <2> HIDE DEF s, t, a, b, ss
    <2>5. s \o t \in Seq(Cell) /\ Len(s \o t) = Len(s) + Len(t)
      BY <2>2, <2>3, ConcatProperties
    <2>6. Slice(s \o t, 0, Len(s) - 1) = s /\ Slice(s \o t, Len(s), Len(s) + Len(t) - 1) = t
      BY <2>2, <2>3, SliceOfConcat
    <2> QED
      BY <2>1, <2>2, <2>3, <2>4, <2>5, <2>6 DEF s, t, a, b
  <1>4. Len(ss) = n /\ (n = 0 => ss = <<>>)
    <2> HIDE DEF n
    <2> QED
      BY <1>1
  <1>5. F = FlattenSeq(ss)
    BY DEF FrontBytes
  <1> HIDE DEF ss
  <1>6. \A i \in 0 .. n : off[i] = at[i + 1] /\ off[i] \in Nat
    <2>1. \A i \in 0 .. n : i + 1 \in 1 .. n + 1
      BY <1>1
    <2> QED
      BY <1>2, <2>1
  <1> HIDE DEF off
  <1>7. off[0] = 0 /\ off[n] = CdOff(p)
    <2>1. 0 \in 0 .. n /\ n \in 0 .. n /\ 0 + 1 = 1
      BY <1>1
    <2> QED
      BY <1>2, <1>6, <2>1 DEF CdOff
  <1>8. ASSUME NEW i \in 1 .. n
        PROVE  /\ off[i - 1] = at[i] /\ off[i] = at[i + 1] /\ off[i - 1] \in Nat
               /\ off[i] = off[i - 1] + Len(ss[i])
    <2>1. i - 1 \in 0 .. n /\ i \in 0 .. n /\ (i - 1) + 1 = i
      BY <1>1
    <2>2. off[i - 1] = at[i] /\ off[i] = at[i + 1] /\ off[i - 1] \in Nat
      BY <1>6, <2>1
    <2>3. at[i + 1] = at[i] + HeadSize(p[i]) + p[i] /\ Len(ss[i]) = HeadSize(p[i]) + p[i]
          /\ HeadSize(p[i]) \in Nat /\ p[i] \in Nat
      BY <1>2, <1>3
    <2> HIDE DEF at
    <2> QED
      BY <2>2, <2>3
  <1>9. LaidOut(Cell, n, ss, off)
    BY <1>1, <1>3, <1>4, <1>7, <1>8 DEF LaidOut
  <1>10. /\ F \in Seq(Cell) /\ Len(F) = CdOff(p)
         /\ \A i \in 1 .. n : off[i] <= off[n] /\ Slice(F, off[i - 1], off[i] - 1) = ss[i]
    BY <1>5, <1>7, <1>9, FlattenSlices
  <1>11. T \in Seq(Cell) /\ Len(T) \in Nat \ {0}
    BY TrailerIs
  <1>12. Z = F \o T
    BY DEF ZipBytes
  <1> HIDE DEF F, T, Z
  <1>13. Z \in Seq(Cell) /\ Len(Z) = CdOff(p) + Len(T)
    BY <1>10, <1>11, <1>12, ConcatProperties
  <1>14. Slice(Z, 0, CdOff(p) - 1) = F /\ Slice(Z, CdOff(p), CdOff(p) + Len(T) - 1) = T
    <2>1. F \in Seq(Cell) /\ T \in Seq(Cell)
      BY <1>10, <1>11
    <2>2. Slice(F \o T, 0, Len(F) - 1) = F /\ Slice(F \o T, Len(F), Len(F) + Len(T) - 1) = T
      BY <2>1, SliceOfConcat
    <2>3. Len(F) = CdOff(p)
      BY <1>10
    <2> QED
      BY <1>12, <2>2, <2>3, Zenon
  <1>15. ASSUME NEW f \in 1 .. n
         PROVE  /\ at[f + 1] <= CdOff(p)
                /\ Slice(Z, at[f], at[f] + HeadSize(p[f]) - 1) = LocalHeader(f, p[f])
                /\ Slice(Z, at[f] + HeadSize(p[f]), at[f + 1] - 1) = RangeFile(f, p[f])
    <2> DEFINE x == at[f]
               y == at[f + 1]
               a == HeadSize(p[f])
               b == p[f]
               e == CdOff(p) - 1
               m == Len(Z)
    <2>1. y <= CdOff(p) /\ Slice(F, x, y - 1) = ss[f]
      BY <1>7, <1>8, <1>10
    <2>2. x \in Nat /\ a \in Nat \ {0} /\ b \in Nat /\ y = x + a + b /\ CdOff(p) \in Nat
          /\ m = CdOff(p) + Len(T) /\ Len(T) \in Nat
      BY <1>2, <1>3, <1>6, <1>8, <1>11, <1>13
    <2>3. Slice(ss[f], 0, a - 1) = LocalHeader(f, p[f]) /\ Slice(ss[f], a, a + b - 1) = RangeFile(f, p[f])
      BY <1>3
    <2> DEFINE lo == x
               hi == y - 1
    <2> HIDE DEF x, y, a, b, m, at
    <2>4. /\ Within(0, e, m) /\ Within(lo, hi, e - 0 + 1) /\ Within(lo, hi, m)
          /\ Within(0, a - 1, hi - lo + 1) /\ Within(a, a + b - 1, hi - lo + 1)
          /\ 0 + lo = lo /\ 0 + hi = hi /\ lo + 0 = x /\ lo + (a - 1) = x + a - 1
          /\ lo + a = x + a /\ lo + (a + b - 1) = y - 1
      BY <2>1, <2>2 DEF Within
    <2> HIDE DEF lo, hi, e
    <2>5. Slice(Slice(Z, 0, e), lo, hi) = Slice(Z, 0 + lo, 0 + hi)
      BY <1>13, <2>4, SliceOfSlice DEF m
    <2>6. Slice(Z, lo, hi) = ss[f]
      BY <1>14, <2>1, <2>4, <2>5 DEF lo, hi, e
    <2>7. Slice(Slice(Z, lo, hi), 0, a - 1) = Slice(Z, lo + 0, lo + (a - 1))
      BY <1>13, <2>4, SliceOfSlice DEF m
    <2>8. Slice(Slice(Z, lo, hi), a, a + b - 1) = Slice(Z, lo + a, lo + (a + b - 1))
      <3> DEFINE d == a + b - 1
      <3>1. Within(a, d, hi - lo + 1)
        BY <2>4
      <3> HIDE DEF d
      <3>2. Slice(Slice(Z, lo, hi), a, d) = Slice(Z, lo + a, lo + d)
        BY <1>13, <2>4, <3>1, SliceOfSlice DEF m
      <3> QED
        BY <3>2 DEF d
    <2> QED
      BY <2>1, <2>3, <2>4, <2>6, <2>7, <2>8 DEF x, y, a, b
  <1> QED
    BY <1>13, <1>14, <1>15 DEF T, Z

\* The segments, each at its place.
SegRec == [off : Nat, size : Nat, hdr : Seq(Cell), file : Nat]

LEMMA SegmentsAre ==
  ASSUME NEW p \in Packed
  PROVE  /\ FrontSegs(p) \in Seq(SegRec) /\ Len(FrontSegs(p)) = 2 * Len(p)
         /\ \A f \in 1 .. Len(p) : /\ FrontSegs(p)[2 * (f - 1) + 1] = HeadSeg(p, f)
                                   /\ FrontSegs(p)[2 * (f - 1) + 2] = BodySeg(p, f)
  <1> DEFINE n == Len(p)
             ss == [f \in 1 .. n |-> <<HeadSeg(p, f), BodySeg(p, f)>>]
             off == [i \in 0 .. n |-> 2 * i]
  <1>1. n \in Nat /\ \A f \in 1 .. n : p[f] \in Nat
    BY PackedIs
  <1>2. ASSUME NEW f \in 1 .. n
        PROVE  HeadSeg(p, f) \in SegRec /\ BodySeg(p, f) \in SegRec
    <2>1. f \in Nat /\ f \in 1 .. n + 1 /\ p[f] \in Nat
      BY <1>1
    <2>2. LocalOff(p)[f] \in Nat
      BY <2>1, LocalOffIs
    <2>3. LocalHeader(f, p[f]) \in Seq(Cell) /\ Len(LocalHeader(f, p[f])) \in Nat
      BY <2>1, HeaderIs
    <2>4. <<>> \in Seq(Cell) /\ 0 \in Nat
      BY EmptySeq
    <2>5. LocalOff(p)[f] + Len(LocalHeader(f, p[f])) \in Nat
      BY <2>2, <2>3
    <2> QED
      BY <2>1, <2>2, <2>3, <2>4, <2>5 DEF HeadSeg, BodySeg, SegRec
  <1>3. \A f \in 1 .. n : /\ ss[f] = <<HeadSeg(p, f), BodySeg(p, f)>>
                          /\ ss[f] \in Seq(SegRec) /\ Len(ss[f]) = 2
                          /\ ss[f][1] = HeadSeg(p, f) /\ ss[f][2] = BodySeg(p, f)
    BY <1>2
  <1>4. Len(ss) = n /\ (n = 0 => ss = <<>>)
    <2> HIDE DEF n
    <2> QED
      BY <1>1
  <1>5. FrontSegs(p) = FlattenSeq(ss)
    BY DEF FrontSegs
  <1> HIDE DEF ss
  <1>6. off[0] = 0 /\ off[n] = 2 * n
        /\ \A i \in 1 .. n : off[i - 1] = 2 * (i - 1) /\ off[i - 1] \in Nat /\ off[i] = off[i - 1] + 2
    <2>1. 0 \in 0 .. n /\ n \in 0 .. n /\ \A i \in 1 .. n : i - 1 \in 0 .. n /\ i \in 0 .. n
      BY <1>1
    <2> HIDE DEF n
    <2> QED
      BY <2>1
  <1> HIDE DEF off
  <1>7. LaidOut(SegRec, n, ss, off)
    BY <1>1, <1>3, <1>4, <1>6 DEF LaidOut
  <1>8. /\ FlattenSeq(ss) \in Seq(SegRec) /\ Len(FlattenSeq(ss)) = off[n]
        /\ \A i \in 1 .. n : \A j \in 1 .. Len(ss[i]) :
             off[i - 1] + j \in 1 .. off[n] /\ FlattenSeq(ss)[off[i - 1] + j] = ss[i][j]
    BY <1>7, FlattenFinds
  <1>9. ASSUME NEW f \in 1 .. n
        PROVE  /\ FlattenSeq(ss)[2 * (f - 1) + 1] = HeadSeg(p, f)
               /\ FlattenSeq(ss)[2 * (f - 1) + 2] = BodySeg(p, f)
    <2>1. 1 \in 1 .. Len(ss[f]) /\ 2 \in 1 .. Len(ss[f])
      BY <1>3
    <2>2. off[f - 1] = 2 * (f - 1)
      BY <1>6
    <2> QED
      BY <1>3, <1>8, <2>1, <2>2
  <1> QED
    BY <1>5, <1>6, <1>8, <1>9

\* The part of a segment that is in a range.
SegPart(p, s, start, end) ==
  LET segEnd == s.off + s.size - 1
      a == IF start > s.off THEN start ELSE s.off
      b == Least(end, segEnd)
  IN CASE segEnd < start \/ s.off > end -> <<>>
       [] ~(segEnd < start \/ s.off > end) /\ s.file = 0 -> Slice(s.hdr, a - s.off, b - s.off)
       [] ~(segEnd < start \/ s.off > end) /\ s.file # 0 ->
            Get(RangeFile(s.file, p[s.file]), [lo |-> a - s.off, hi |-> b - s.off]).body

SegBytes(p, s) == IF s.file = 0 THEN s.hdr ELSE RangeFile(s.file, p[s.file])

SegHolds(p, W, s) ==
  /\ s \in SegRec /\ s.off + s.size <= Len(W)
  /\ SegBytes(p, s) \in Seq(Cell) /\ Len(SegBytes(p, s)) = s.size
  /\ Slice(W, s.off, s.off + s.size - 1) = SegBytes(p, s)

LEMMA SegPartIs ==
  ASSUME NEW p, NEW W \in Seq(Cell), NEW s, SegHolds(p, W, s),
         NEW end \in 0 .. (Len(W) - 1), NEW start \in 0 .. end
  PROVE  SegPart(p, s, start, end) = PieceIn(W, s.off, s.off + s.size, start, end)
  <1> DEFINE o == s.off
             k == s.size
             B == SegBytes(p, s)
             segEnd == o + k - 1
             a == IF start > o THEN start ELSE o
             b == Least(end, segEnd)
             lo == a - o
             hi == b - o
             m == Len(W)
  <1>1. o \in Nat /\ k \in Nat /\ m \in Nat /\ o + k <= m /\ start \in Nat /\ end \in Nat
        /\ start <= end /\ end < m
    BY DEF SegHolds, SegRec
  <1>2. B \in Seq(Cell) /\ Len(B) = k /\ Slice(W, o, o + k - 1) = B
    BY DEF SegHolds
  <1> DEFINE sp == SegPart(p, s, start, end)
             pc == PieceIn(W, s.off, s.off + s.size, start, end)
  <1>5. pc = IF segEnd < start \/ o > end THEN <<>> ELSE Slice(W, a, b)
    <2> DEFINE x == s.off
               y == s.off + s.size
    <2>1. segEnd = y - 1
      BY <1>1
    <2> HIDE DEF x, y
    <2>2. PieceIn(W, x, y, start, end)
            = IF y - 1 < start \/ x > end THEN <<>>
              ELSE Slice(W, IF start > x THEN start ELSE x, Least(end, y - 1))
      BY DEF PieceIn
    <2> QED
      BY <2>1, <2>2 DEF x, y
  <1>6. sp = IF segEnd < start \/ o > end THEN <<>>
             ELSE IF s.file = 0 THEN Slice(B, lo, hi) ELSE Get(B, [lo |-> lo, hi |-> hi]).body
    BY Zenon DEF SegPart, SegBytes
  <1> HIDE DEF sp, pc
  <1>3. CASE segEnd < start \/ o > end
    BY <1>3, <1>5, <1>6 DEF sp, pc
  <1>4. CASE ~(segEnd < start \/ o > end)
    <2>1. pc = Slice(W, a, b)
      BY <1>4, <1>5
    <2>2. sp = IF s.file = 0 THEN Slice(B, lo, hi) ELSE Get(B, [lo |-> lo, hi |-> hi]).body
      BY <1>4, <1>6
    <2> DEFINE c == lo
               d == hi
    <2> HIDE DEF o, k, m
    <2>3. /\ a \in Nat /\ b \in Int /\ a <= b + 1 /\ o <= a /\ b < o + k /\ (k # 0 => a <= b)
          /\ (k = 0 => a = o /\ b = o - 1)
      BY <1>1, <1>4 DEF Least
    <2> HIDE DEF a, b
    <2>4. /\ Within(c, d, (o + k - 1) - o + 1) /\ Within(o, o + k - 1, m)
          /\ o + c = a /\ o + d = b
          /\ (k # 0 => d \in Nat /\ d < k /\ c \in 0 .. d) /\ (k = 0 => c = 0 /\ d = 0 - 1)
      BY <1>1, <2>3 DEF Within
    <2> DEFINE q == o + k - 1
    <2>5. Slice(B, c, d) = Slice(W, a, b)
      <3>1. Within(c, d, q - o + 1) /\ Within(o, q, m) /\ Slice(W, o, q) = B
        BY <1>2, <2>4
      <3> HIDE DEF q, c, d, B
      <3>2. Slice(Slice(W, o, q), c, d) = Slice(W, o + c, o + d)
        BY <3>1, SliceOfSlice DEF m
      <3> QED
        BY <2>4, <3>1, <3>2
    <2> DEFINE h == [lo |-> c, hi |-> d]
    <2>6. CASE k # 0
      <3> HIDE DEF c, d, B
      <3>1. Get(B, h).body = Slice(B, c, d)
        BY <1>2, <2>4, <2>6, GetInner
      <3> QED
        BY <2>1, <2>2, <2>5, <3>1 DEF c, d, B, sp, pc
    <2>7. CASE k = 0
      <3> HIDE DEF c, d, B
      <3>0. c \in Int /\ d \in Int /\ d < c
        BY <2>4, <2>7
      <3>1. Slice(B, c, d) = <<>>
        BY <3>0, SliceNone
      <3>2. B = <<>>
        BY <1>2, <2>7, EmptySeq
      <3>3. h.lo = 0 /\ h.hi = 0 - 1 /\ h # NoRange
        BY <2>4, <2>7 DEF NoRange
      <3> HIDE DEF h
      <3>4. ParseRange(h, 0) = Refused
        BY <3>3 DEF ParseRange, Missing
      <3>5. Get(B, h).body = B
        BY <1>2, <2>7, <3>3, <3>4 DEF Get
      <3> QED
        BY <2>1, <2>2, <2>5, <3>1, <3>2, <3>5 DEF c, d, B, h, sp, pc
    <2> QED
      BY <2>6, <2>7
  <1> QED
    BY <1>3, <1>4

LEMMA SegsHold ==
  ASSUME NEW p \in Packed, NEW f \in 1 .. Len(p)
  PROVE  SegHolds(p, ZipBytes(p), HeadSeg(p, f)) /\ SegHolds(p, ZipBytes(p), BodySeg(p, f))
  <1> DEFINE W == ZipBytes(p)
             s == HeadSeg(p, f)
             t == BodySeg(p, f)
             o == LocalOff(p)[f]
             k == HeadSize(p[f])
             H == LocalHeader(f, p[f])
             B == RangeFile(f, p[f])
             c == CdOff(p)
             m == Len(W)
  <1>1. f \in Nat /\ p[f] \in Nat /\ f # 0 /\ f \in 1 .. Len(p) + 1
    BY PackedIs
  <1>2. o \in Nat /\ LocalOff(p)[f + 1] = o + k + p[f] /\ c \in Nat
    BY <1>1, LocalOffIs
  <1>3. H \in Seq(Cell) /\ Len(H) = k /\ k \in Nat
    BY <1>1, HeaderIs
  <1>4. B \in Seq(Cell) /\ Len(B) = p[f]
    BY <1>1, FileIs
  <1>5. W \in Seq(Cell) /\ m = c + Len(Trailer(p)) /\ LocalOff(p)[f + 1] <= c
        /\ Slice(W, o, o + k - 1) = H /\ Slice(W, o + k, LocalOff(p)[f + 1] - 1) = B
    BY ZipIs
  <1>6. Len(Trailer(p)) \in Nat
    BY TrailerIs
  <1>7. s.off = o /\ s.size = k /\ s.hdr = H /\ s.file = 0
    BY <1>3 DEF HeadSeg
  <1>8. t.off = o + k /\ t.size = p[f] /\ t.file = f
    BY <1>3 DEF BodySeg
  <1>9. s \in SegRec /\ t \in SegRec
    <2>1. H \in Seq(Cell) /\ Len(H) \in Nat /\ <<>> \in Seq(Cell) /\ o + Len(H) \in Nat
      BY <1>2, <1>3, EmptySeq
    <2> QED
      BY <1>1, <1>2, <2>1 DEF HeadSeg, BodySeg, SegRec
  <1>10. SegBytes(p, s) = H /\ SegBytes(p, t) = B
    BY <1>1, <1>7, <1>8 DEF SegBytes
  <1> HIDE DEF s, t, H, B, W, o, k, c, m
  <1>11. o + k <= m /\ (o + k) + p[f] <= m /\ LocalOff(p)[f + 1] - 1 = (o + k) + p[f] - 1
    BY <1>1, <1>2, <1>3, <1>5, <1>6
  <1> QED
    BY <1>3, <1>4, <1>5, <1>7, <1>8, <1>9, <1>10, <1>11 DEF SegHolds, m, s, t, W, B

LEMMA LastHolds ==
  ASSUME NEW p \in Packed
  PROVE  SegHolds(p, ZipBytes(p), LastSeg(p))
  <1> DEFINE T == Trailer(p)
             c == CdOff(p)
             s == LastSeg(p)
             W == ZipBytes(p)
  <1>1. T \in Seq(Cell) /\ Len(T) \in Nat
    BY TrailerIs
  <1>2. c \in Nat
    BY LocalOffIs
  <1>3. W \in Seq(Cell) /\ Len(W) = c + Len(T) /\ Slice(W, c, c + Len(T) - 1) = T
    BY ZipIs
  <1>4. s = [off |-> c, size |-> Len(T), hdr |-> T, file |-> 0]
    BY DEF LastSeg
  <1> HIDE DEF T, c, s, W
  <1>5. s \in SegRec /\ s.off = c /\ s.size = Len(T) /\ s.hdr = T /\ s.file = 0
    BY <1>1, <1>2, <1>4 DEF SegRec
  <1>6. SegBytes(p, s) = T
    BY <1>5 DEF SegBytes
  <1>7. s.off + s.size <= Len(W)
    BY <1>1, <1>2, <1>3, <1>5
  <1> QED
    BY <1>1, <1>3, <1>5, <1>6, <1>7 DEF SegHolds, W, s, T

LEMMA WriteRangeIs ==
  ASSUME NEW p \in Packed, NEW end \in 0 .. (Len(ZipBytes(p)) - 1), NEW start \in 0 .. end
  PROVE  WriteRange(BuildZipLayout(p), p, start, end) = Slice(ZipBytes(p), start, end)
  <1> DEFINE n == Len(p)
             N == 2 * n + 1
             W == ZipBytes(p)
             F == FrontSegs(p)
             L == LastSeg(p)
             segs == F \o <<L>>
             at == LocalOff(p)
             bnd == [i \in 0 .. N |-> IF i = 0 THEN 0 ELSE segs[i].off + segs[i].size]
             parts == [i \in 1 .. N |-> SegPart(p, segs[i], start, end)]
  <1>1. n \in Nat /\ \A f \in 1 .. n : p[f] \in Nat
    BY PackedIs
  <1>2. F \in Seq(SegRec) /\ Len(F) = 2 * n
        /\ \A f \in 1 .. n : F[2 * (f - 1) + 1] = HeadSeg(p, f) /\ F[2 * (f - 1) + 2] = BodySeg(p, f)
    BY SegmentsAre
  <1>3. L \in SegRec
    BY LastHolds DEF SegHolds
  <1>4. BuildZipLayout(p).segs = segs
    BY LayoutIs
  <1>5. W \in Seq(Cell) /\ Len(W) = CdOff(p) + Len(Trailer(p))
    BY ZipIs
  <1>6. at[1] = 0 /\ at[n + 1] = CdOff(p)
        /\ \A f \in 1 .. n : at[f + 1] = at[f] + HeadSize(p[f]) + p[f] /\ HeadSize(p[f]) \in Nat
    <2>1. \A f \in 1 .. n : HeadSize(p[f]) \in Nat
      BY <1>1, RangeNats DEF HeadSize
    <2> QED
      BY <2>1, LocalOffIs DEF CdOff
  <1>7. \A f \in 1 .. n : SegHolds(p, W, HeadSeg(p, f)) /\ SegHolds(p, W, BodySeg(p, f))
    BY SegsHold
  <1>8. SegHolds(p, W, L)
    BY LastHolds
  <1> HIDE DEF W, F, L, at
  <1>9. /\ segs \in Seq(SegRec) /\ Len(segs) = N
        /\ \A f \in 1 .. n : segs[2 * (f - 1) + 1] = HeadSeg(p, f) /\ segs[2 * (f - 1) + 2] = BodySeg(p, f)
        /\ segs[N] = L
    <2>1. <<L>> \in Seq(SegRec) /\ Len(<<L>>) = 1 /\ <<L>>[1] = L
      BY <1>3
    <2> DEFINE o == <<L>>
    <2> HIDE DEF o
    <2>2. /\ F \o o \in Seq(SegRec) /\ Len(F \o o) = Len(F) + Len(o)
          /\ \A k \in 1 .. Len(F) + Len(o) : (F \o o)[k] = IF k <= Len(F) THEN F[k] ELSE o[k - Len(F)]
      BY <1>2, <2>1, ConcatProperties DEF o
    <2>3. /\ \A f \in 1 .. n : /\ 2 * (f - 1) + 1 \in 1 .. 2 * n + 1 /\ 2 * (f - 1) + 1 <= 2 * n
                               /\ 2 * (f - 1) + 2 \in 1 .. 2 * n + 1 /\ 2 * (f - 1) + 2 <= 2 * n
          /\ 2 * n + 1 \in 1 .. 2 * n + 1 /\ ~(2 * n + 1 <= 2 * n) /\ (2 * n + 1) - 2 * n = 1
      <3> HIDE DEF n
      <3> QED
        BY <1>1
    <2> QED
      BY <1>2, <2>1, <2>2, <2>3 DEF o
  <1> HIDE DEF segs
  <1>10. ASSUME NEW i \in 1 .. N
         PROVE  (\E f \in 1 .. n : i = 2 * (f - 1) + 1 \/ i = 2 * (f - 1) + 2) \/ i = N
    <2>1. CASE i = N
      BY <2>1
    <2>2. CASE i # N
      <3> HIDE DEF n
      <3> DEFINE f == (i + 1) \div 2
      <3>1. f \in 1 .. n /\ (i = 2 * (f - 1) + 1 \/ i = 2 * (f - 1) + 2)
        BY <1>1, <2>2
      <3> QED
        BY <3>1
    <2> QED
      BY <2>1, <2>2
  <1>11. ASSUME NEW i \in 1 .. N PROVE SegHolds(p, W, segs[i])
    <2>1. CASE \E f \in 1 .. n : i = 2 * (f - 1) + 1 \/ i = 2 * (f - 1) + 2
      BY <1>7, <1>9, <2>1
    <2>2. CASE i = N
      BY <1>8, <1>9, <2>2
    <2> QED
      BY <1>10, <2>1, <2>2
  <1>12. /\ bnd[0] = 0
         /\ \A i \in 1 .. N : bnd[i] = segs[i].off + segs[i].size
    <2>1. 0 \in 0 .. N /\ \A i \in 1 .. N : i \in 0 .. N /\ i # 0
      <3> HIDE DEF n
      <3> QED
        BY <1>1
    <2> HIDE DEF N
    <2> QED
      BY <2>1
  <1> HIDE DEF bnd
  <1>13. ASSUME NEW f \in 1 .. n
         PROVE  /\ bnd[2 * (f - 1) + 1] = at[f] + HeadSize(p[f])
                /\ bnd[2 * (f - 1) + 2] = at[f + 1]
                /\ segs[2 * (f - 1) + 1].off = at[f]
                /\ segs[2 * (f - 1) + 2].off = at[f] + HeadSize(p[f])
    <2>1. 2 * (f - 1) + 1 \in 1 .. N /\ 2 * (f - 1) + 2 \in 1 .. N /\ f \in Nat /\ p[f] \in Nat /\ f \in 1 .. n + 1
      <3>1. f \in Nat /\ p[f] \in Nat /\ f \in 1 .. n + 1
        BY <1>1
      <3> HIDE DEF n
      <3> QED
        BY <1>1, <3>1
    <2>2. Len(LocalHeader(f, p[f])) = HeadSize(p[f])
      BY <2>1, HeaderIs
    <2>3. segs[2 * (f - 1) + 1] = HeadSeg(p, f) /\ segs[2 * (f - 1) + 2] = BodySeg(p, f)
      BY <1>9
    <2>4. HeadSeg(p, f).off = at[f] /\ HeadSeg(p, f).size = HeadSize(p[f])
      BY <2>2 DEF HeadSeg, at
    <2>5. BodySeg(p, f).off = at[f] + HeadSize(p[f]) /\ BodySeg(p, f).size = p[f]
      BY <2>2 DEF BodySeg, at
    <2>6. at[f + 1] = at[f] + HeadSize(p[f]) + p[f]
      BY <1>6
    <2> QED
      BY <1>12, <2>1, <2>3, <2>4, <2>5, <2>6
  <1>14. segs[N].off = at[n + 1] /\ bnd[N] = Len(W)
    <2>1. L.off = CdOff(p) /\ L.size = Len(Trailer(p))
      BY DEF L, LastSeg
    <2>2. N \in 1 .. N
      <3> HIDE DEF n
      <3> QED
        BY <1>1
    <2> QED
      BY <1>5, <1>6, <1>9, <1>12, <2>1, <2>2
  <1>15. \A i \in 1 .. N : segs[i].off = bnd[i - 1]
    <2>1. ASSUME NEW f \in 1 .. n + 1 PROVE at[f] = bnd[2 * (f - 1)]
      <3>1. CASE f = 1
        <4>1. 2 * (f - 1) = 0
          BY <3>1
        <4> QED
          BY <1>6, <1>12, <3>1, <4>1
      <3>2. CASE f # 1
        <4>1. f - 1 \in 1 .. n /\ (f - 1) + 1 = f /\ 2 * ((f - 1) - 1) + 2 = 2 * (f - 1)
          <5> HIDE DEF n
          <5> QED
            BY <1>1, <3>2
        <4>2. bnd[2 * ((f - 1) - 1) + 2] = at[(f - 1) + 1]
          BY <1>13, <4>1
        <4> QED
          BY <4>1, <4>2
      <3> QED
        BY <3>1, <3>2
    <2>2. ASSUME NEW i \in 1 .. N PROVE segs[i].off = bnd[i - 1]
      <3>1. CASE i = N
        <4>1. n + 1 \in 1 .. n + 1 /\ i - 1 = 2 * ((n + 1) - 1)
          <5> HIDE DEF n
          <5> QED
            BY <1>1, <3>1
        <4>2. at[n + 1] = bnd[2 * ((n + 1) - 1)]
          BY <2>1, <4>1
        <4> QED
          BY <1>14, <3>1, <4>1, <4>2
      <3>2. CASE \E f \in 1 .. n : i = 2 * (f - 1) + 1 \/ i = 2 * (f - 1) + 2
        <4>1. PICK f \in 1 .. n : i = 2 * (f - 1) + 1 \/ i = 2 * (f - 1) + 2
          BY <3>2
        <4>2. CASE i = 2 * (f - 1) + 1
          <5>1. i - 1 = 2 * (f - 1) /\ f \in 1 .. n + 1
            <6> HIDE DEF n
            <6> QED
              BY <1>1, <4>2
          <5>2. segs[i].off = at[f]
            BY <1>13, <4>2
          <5> QED
            BY <2>1, <5>1, <5>2
        <4>3. CASE i = 2 * (f - 1) + 2
          <5>1. i - 1 = 2 * (f - 1) + 1
            <6> HIDE DEF n
            <6> QED
              BY <1>1, <4>3
          <5> QED
            BY <1>13, <4>3, <5>1
        <4> QED
          BY <4>1, <4>2, <4>3
      <3> QED
        BY <1>10, <3>1, <3>2
    <2> QED
      BY <2>2
  <1>16. ASSUME NEW i \in 1 .. N
         PROVE  /\ bnd[i] \in 0 .. Len(W) /\ bnd[i - 1] <= bnd[i]
    <2>1. segs[i] \in SegRec /\ segs[i].off + segs[i].size <= Len(W)
      BY <1>11 DEF SegHolds
    <2>2. segs[i].off \in Nat /\ segs[i].size \in Nat
      BY <2>1 DEF SegRec
    <2>3. bnd[i - 1] = segs[i].off /\ bnd[i] = segs[i].off + segs[i].size
      BY <1>12, <1>15
    <2>4. Len(W) \in Nat
      BY <1>5
    <2> QED
      BY <2>1, <2>2, <2>3, <2>4
  <1>17. PiecesOf(W, N, bnd)
    <2>1. N \in Nat \ {0}
      <3> HIDE DEF n
      <3> QED
        BY <1>1
    <2>2. 0 \in 0 .. Len(W)
      BY <1>5
    <2>3. \A i \in 0 .. N : i = 0 \/ i \in 1 .. N
      <3> HIDE DEF N
      <3> QED
        BY <2>1
    <2> HIDE DEF N
    <2> QED
      BY <1>12, <1>14, <1>16, <2>1, <2>2, <2>3 DEF PiecesOf
  <1>18. \A i \in 1 .. N : parts[i] = PieceIn(W, bnd[i - 1], bnd[i], start, end)
    <2> TAKE i \in 1 .. N
    <2>1. SegHolds(p, W, segs[i]) /\ W \in Seq(Cell) /\ end \in 0 .. (Len(W) - 1)
      BY <1>5, <1>11 DEF W
    <2>2. SegPart(p, segs[i], start, end) = PieceIn(W, segs[i].off, segs[i].off + segs[i].size, start, end)
      BY <2>1, SegPartIs
    <2>3. segs[i].off = bnd[i - 1] /\ bnd[i] = segs[i].off + segs[i].size
      BY <1>12, <1>15
    <2>4. parts[i] = SegPart(p, segs[i], start, end)
      OBVIOUS
    <2> HIDE DEF parts
    <2> QED
      BY <2>2, <2>3, <2>4
  <1>19. Len(parts) = N
    <2>1. N \in Nat
      <3> HIDE DEF n
      <3> QED
        BY <1>1
    <2> HIDE DEF N
    <2> QED
      BY <2>1
  <1>20. WriteRange(BuildZipLayout(p), p, start, end) = FlattenSeq(parts)
    <2>1. [i \in 1 .. Len(BuildZipLayout(p).segs) |-> SegPart(p, BuildZipLayout(p).segs[i], start, end)] = parts
      BY <1>4, <1>9
    <2>2. WriteRange(BuildZipLayout(p), p, start, end)
            = FlattenSeq([i \in 1 .. Len(BuildZipLayout(p).segs) |-> SegPart(p, BuildZipLayout(p).segs[i], start, end)])
      BY Zenon DEF WriteRange, SegPart
    <2> QED
      BY <2>1, <2>2
  <1> HIDE DEF parts, N
  <1>21. FlattenSeq(parts) = Slice(W, start, end)
    <2>1. end \in 0 .. (Len(W) - 1)
      BY DEF W
    <2> QED
      BY <1>5, <1>17, <1>18, <1>19, <2>1, PiecesOfRange
  <1> QED
    BY <1>20, <1>21 DEF W

ZipReply(p, h) ==
  LET layout == BuildZipLayout(p)
      whole  == [from |-> 0, to |-> layout.total - 1]
      r      == IF h = NoRange THEN whole ELSE ParseByteRange(h, layout.total)
  IN IF r = Refused THEN RangeReply(416, <<>>, Refused)
     ELSE RangeReply(IF h = NoRange THEN 200 ELSE 206, WriteRange(layout, p, r.from, r.to),
                     IF h = NoRange THEN Refused ELSE r)

LEMMA ZipReplyIs ==
  ASSUME NEW p \in Packed, NEW h \in Bounds \cup {NoRange}
  PROVE  RightReply(ZipBytes(p), h, ZipReply(p, h))
  <1> DEFINE W == ZipBytes(p)
             layout == BuildZipLayout(p)
             total == layout.total
             r == ParseByteRange(h, total)
  <1>1. W \in Seq(Cell) /\ Len(W) \in Nat \ {0}
    <2>1. W \in Seq(Cell) /\ Len(W) = CdOff(p) + Len(Trailer(p))
      BY ZipIs
    <2>2. CdOff(p) \in Nat
      BY LocalOffIs
    <2>3. Len(Trailer(p)) \in Nat \ {0}
      BY TrailerIs
    <2> QED
      BY <2>1, <2>2, <2>3
  <1>2. total = Len(W)
    <2>1. total = CdOff(p) + Len(Trailer(p))
      BY LayoutIs
    <2> QED
      BY <2>1, ZipIs
  <1> HIDE DEF total
  <1>3. CASE h = NoRange
    <2> DEFINE whole == [from |-> 0, to |-> total - 1]
    <2>1. whole # Refused /\ whole.from = 0 /\ whole.to = total - 1
      BY <1>1, <1>2 DEF Refused
    <2>2. WriteRange(layout, p, 0, total - 1) = W
      <3> DEFINE e == total - 1
      <3>1. e \in 0 .. (Len(W) - 1) /\ 0 \in 0 .. e
        BY <1>1, <1>2
      <3> HIDE DEF e
      <3>2. WriteRange(layout, p, 0, e) = Slice(W, 0, e)
        BY <3>1, WriteRangeIs
      <3>3. Slice(W, 0, e) = W
        BY <1>1, <1>2, SliceAll DEF e
      <3> QED
        BY <3>2, <3>3 DEF e
    <2> HIDE DEF layout, W
    <2>3. ZipReply(p, h) = RangeReply(200, W, Refused)
      BY <1>3, <2>1, <2>2 DEF ZipReply, total, layout
    <2> QED
      BY <1>3, <2>3 DEF RightReply, RangeReply, W
  <1>4. CASE h # NoRange /\ r = Refused
    <2>1. ZipReply(p, h) = RangeReply(416, <<>>, Refused)
      BY <1>4 DEF ZipReply, total
    <2>2. Wanted(h, Len(W)) = {}
      <3>1. h \in Bounds /\ Len(W) \in Nat
        BY <1>1, <1>4
      <3> HIDE DEF W, layout
      <3> QED
        BY <1>2, <1>4, <3>1, ParseByteRangeIs
    <2> QED
      BY <1>4, <2>1, <2>2 DEF RightReply, RangeReply
  <1>5. CASE h # NoRange /\ r # Refused
    <2>1. /\ r.from \in Nat /\ r.to \in Int /\ r.to < Len(W) /\ r.from <= r.to
          /\ r.from .. r.to = Wanted(h, Len(W))
      <3>1. h \in Bounds /\ Len(W) \in Nat
        BY <1>1, <1>5
      <3> HIDE DEF W, layout
      <3> QED
        BY <1>2, <1>5, <3>1, ParseByteRangeIs
    <2>2. WriteRange(layout, p, r.from, r.to) = Slice(W, r.from, r.to)
      <3>1. r.to \in 0 .. (Len(W) - 1) /\ r.from \in 0 .. r.to
        BY <1>1, <2>1
      <3> QED
        BY <3>1, WriteRangeIs
    <2> HIDE DEF r
    <2>3. ZipReply(p, h) = RangeReply(206, Slice(W, r.from, r.to), r)
      <3> HIDE DEF layout, W
      <3> QED
        BY <1>5, <2>2 DEF ZipReply, total, r, layout
    <2> QED
      BY <1>5, <2>1, <2>3 DEF RightReply, RangeReply
  <1> QED
    BY <1>3, <1>4, <1>5

LEMMA FieldIs ==
  ASSUME NEW n \in Nat
  PROVE  IF Zip64(n) THEN Field32(n) = Marker ELSE Field32(n) = n /\ n # Marker
  <1>1. Marker \in Nat \ {0}
    BY RangeNats
  <1>2. CASE n >= Marker
    BY <1>2 DEF Zip64, Field32
  <1>3. CASE ~(n >= Marker)
    <2> DEFINE m == Marker + 1
    <2>1. m \in Nat \ {0} /\ 0 * m <= n /\ n < (0 + 1) * m
      BY <1>1, <1>3
    <2>2. Field32(n) = n % m
      BY <1>3 DEF Zip64, Field32
    <2> HIDE DEF m
    <2>3. n % m = n - 0 * m
      <3> DEFINE q == 0
      <3>1. q \in Int /\ q * m <= n /\ n < (q + 1) * m
        BY <2>1
      <3> HIDE DEF q
      <3>2. n % m = n - q * m
        BY <2>1, <3>1, DivisionIs
      <3> QED
        BY <3>2 DEF q
    <2>4. n - 0 * m = n
      BY <2>1
    <2> QED
      BY <1>1, <1>3, <2>2, <2>3, <2>4 DEF Zip64
  <1> QED
    BY <1>2, <1>3

\* What a record of the directory says of a file is read from it.
LEMMA CentralReads ==
  ASSUME NEW size \in Nat, NEW off \in Nat
  PROVE  ReadCentral(CentralHeader(size, off)) = [size |-> size, off |-> off]
  <1> DEFINE x == IF Zip64(size) THEN <<size>> ELSE <<>>
             y == IF Zip64(off) THEN <<off>> ELSE <<>>
             c == CentralHeader(size, off)
             e == x \o y
  <1>1. c.size = Field32(size) /\ c.off = Field32(off) /\ c.extra = e
    BY DEF CentralHeader, Extra
  <1>2. c.size = Marker <=> Zip64(size)
    BY <1>1, FieldIs
  <1>3. c.off = Marker <=> Zip64(off)
    BY <1>1, FieldIs
  <1>4. (~Zip64(size) => c.size = size) /\ (~Zip64(off) => c.off = off)
    BY <1>1, FieldIs
  <1>5. /\ Zip64(size) => Len(e) >= 1 /\ e[1] = size
        /\ Zip64(off) => LET i == IF Zip64(size) THEN 1 ELSE 0 IN Len(e) > i /\ e[i + 1] = off
    <2>1. CASE Zip64(size) /\ Zip64(off)
      <3>1. e = <<size>> \o <<off>>
        BY <2>1
      <3> DEFINE u == <<size>>
                 v == <<off>>
      <3>2. u \in Seq(Nat) /\ v \in Seq(Nat) /\ Len(u) = 1 /\ Len(v) = 1 /\ u[1] = size /\ v[1] = off
        OBVIOUS
      <3> HIDE DEF u, v
      <3>4. /\ Len(u \o v) = Len(u) + Len(v)
            /\ \A i \in 1 .. Len(u) + Len(v) : (u \o v)[i] = IF i <= Len(u) THEN u[i] ELSE v[i - Len(u)]
        BY <3>2, ConcatProperties
      <3>5. 1 \in 1 .. 1 + 1 /\ 2 \in 1 .. 1 + 1 /\ 1 <= 1 /\ ~(2 <= 1) /\ 2 - 1 = 1 /\ 1 + 1 = 2
        OBVIOUS
      <3>6. (u \o v)[1] = size /\ (u \o v)[2] = off /\ Len(u \o v) = 2
        BY <3>2, <3>4, <3>5
      <3>3. Len(e) = 2 /\ e[1] = size /\ e[1 + 1] = off
        <4>1. e = u \o v
          BY <3>1 DEF u, v
        <4> HIDE DEF e
        <4> QED
          BY <3>5, <3>6, <4>1
      <3> HIDE DEF e
      <3> QED
        BY <2>1, <3>3
    <2>2. CASE Zip64(size) /\ ~Zip64(off)
      <3>1. e = <<size>> \o <<>>
        BY <2>2
      <3>2. <<size>> \o <<>> = <<size>>
        OBVIOUS
      <3>3. Len(e) = 1 /\ e[1] = size
        <4> HIDE DEF e
        <4> QED
          BY <3>1, <3>2
      <3> HIDE DEF e
      <3> QED
        BY <2>2, <3>3
    <2>3. CASE ~Zip64(size) /\ Zip64(off)
      <3>1. e = <<>> \o <<off>>
        BY <2>3
      <3>2. <<>> \o <<off>> = <<off>>
        OBVIOUS
      <3>3. Len(e) = 1 /\ e[0 + 1] = off
        <4> HIDE DEF e
        <4> QED
          BY <3>1, <3>2
      <3> HIDE DEF e
      <3> QED
        BY <2>3, <3>3
    <2>4. CASE ~Zip64(size) /\ ~Zip64(off)
      BY <2>4
    <2> QED
      BY <2>1, <2>2, <2>3, <2>4
  <1> DEFINE s == IF c.size # Marker THEN c.size ELSE IF Len(c.extra) >= 1 THEN c.extra[1] ELSE Missing
             i == IF c.size = Marker THEN 1 ELSE 0
             o == IF c.off # Marker THEN c.off ELSE IF Len(c.extra) > i THEN c.extra[i + 1] ELSE Missing
  <1>6. ReadCentral(c) = [size |-> s, off |-> o]
    BY DEF ReadCentral
  <1> HIDE DEF c, e
  <1>7. s = size
    BY <1>1, <1>2, <1>4, <1>5
  <1>8. o = off
    <2>1. CASE Zip64(off)
      <3>1. i = IF Zip64(size) THEN 1 ELSE 0
        BY <1>2
      <3>2. Len(e) > i /\ e[i + 1] = off
        BY <1>5, <2>1, <3>1
      <3> HIDE DEF i
      <3> QED
        BY <1>1, <1>3, <2>1, <3>2
    <2>2. CASE ~Zip64(off)
      <3> HIDE DEF i
      <3> QED
        BY <1>3, <1>4, <2>2
    <2> QED
      BY <2>1, <2>2
  <1> HIDE DEF s, o
  <1> QED
    BY <1>6, <1>7, <1>8 DEF c

\* The end records lead to the directory.
LEMMA EndReads ==
  ASSUME NEW cdSize \in Nat, NEW cdOff \in Nat
  PROVE  LET e == EndRecords(cdSize, cdOff) IN
         (IF e.off = Marker /\ e.z64 # <<>> THEN e.z64[2] ELSE e.off) = cdOff
  <1> DEFINE e == EndRecords(cdSize, cdOff)
  <1>0. Marker \in Nat
    BY RangeNats
  <1>1. CASE Zip64(cdSize) \/ Zip64(cdOff)
    <2>1. e.off = Marker /\ e.z64 = <<cdSize, cdOff>>
      BY <1>1 DEF EndRecords
    <2> HIDE DEF e
    <2>2. <<cdSize, cdOff>> # <<>> /\ <<cdSize, cdOff>>[2] = cdOff
      OBVIOUS
    <2> QED
      BY <2>1, <2>2 DEF e
  <1>2. CASE ~(Zip64(cdSize) \/ Zip64(cdOff))
    <2>1. e.off = cdOff /\ e.z64 = <<>>
      BY <1>2 DEF EndRecords
    <2> HIDE DEF e
    <2> QED
      BY <2>1 DEF e
  <1> QED
    BY <1>1, <1>2

\* The bytes about the beginning of a local header.
LEMMA LocalAt ==
  ASSUME NEW p \in Packed, NEW f \in 1 .. Len(p)
  PROVE  LET o == LocalOff(p)[f] IN
         /\ ZipBytes(p)[o + 1] = <<"local", f>>
         /\ o > 0 => ZipBytes(p)[o] # <<"local", f>>
  <1> DEFINE n == Len(p)
             at == LocalOff(p)
             W == ZipBytes(p)
             H(g) == HeadSize(p[g])
             m == Len(W)
  <1>1. n \in Nat /\ \A g \in 1 .. n : g \in Nat /\ p[g] \in Nat /\ g \in 1 .. n + 1
    BY PackedIs
  <1>2. /\ at[1] = 0
        /\ \A g \in 1 .. n : at[g + 1] = at[g] + H(g) + p[g] /\ at[g] \in Nat
        /\ CdOff(p) \in Nat
    BY <1>1, LocalOffIs
  <1>3. /\ W \in Seq(Cell) /\ m = CdOff(p) + Len(Trailer(p))
        /\ \A g \in 1 .. n : /\ at[g + 1] <= CdOff(p)
                             /\ Slice(W, at[g], at[g] + H(g) - 1) = LocalHeader(g, p[g])
                             /\ Slice(W, at[g] + H(g), at[g + 1] - 1) = RangeFile(g, p[g])
    BY ZipIs
  <1>4. Len(Trailer(p)) \in Nat
    BY TrailerIs
  <1> HIDE DEF W, at
  <1>5. ASSUME NEW g \in 1 .. n
        PROVE  /\ H(g) \in Nat \ {0} /\ p[g] \in Nat /\ at[g] \in Nat /\ at[g + 1] = at[g] + H(g) + p[g]
               /\ \A i \in 1 .. H(g) : W[at[g] + i] = <<"local", g>>
               /\ \A i \in 1 .. p[g] : W[at[g] + H(g) + i] = <<"byte", g, i - 1>>
    <2> DEFINE a == at[g]
               b == at[g + 1]
               h == H(g)
               k == p[g]
               c == CdOff(p)
    <2>1. h \in Nat \ {0} /\ \A i \in 1 .. h : LocalHeader(g, p[g])[i] = <<"local", g>>
      BY <1>1, HeaderIs
    <2>2. \A i \in 1 .. k : RangeFile(g, p[g])[i] = <<"byte", g, i - 1>>
      BY <1>1, FileIs
    <2>3. a \in Nat /\ b = a + h + k /\ k \in Nat /\ b <= c /\ c \in Nat
      BY <1>1, <1>2, <1>3
    <2>4. Slice(W, a, a + h - 1) = LocalHeader(g, p[g]) /\ Slice(W, a + h, b - 1) = RangeFile(g, p[g])
      BY <1>3
    <2>5. m = c + Len(Trailer(p))
      BY <1>3
    <2> HIDE DEF a, b, h, k, c, m
    <2>6. Within(a, a + h - 1, m) /\ (a + h - 1) - a + 1 = h
          /\ Within(a + h, b - 1, m) /\ (b - 1) - (a + h) + 1 = k
      BY <1>4, <2>1, <2>3, <2>5 DEF Within
    <2> DEFINE d == a + h - 1
               u == a + h
               v == b - 1
    <2>7. Within(a, d, m) /\ d - a + 1 = h /\ Within(u, v, m) /\ v - u + 1 = k
      BY <2>6
    <2> HIDE DEF d, u, v
    <2>8. \A i \in 1 .. (d - a + 1) : Slice(W, a, d)[i] = W[a + i]
      BY <1>3, <2>7, SliceIs DEF m
    <2>9. \A i \in 1 .. (v - u + 1) : Slice(W, u, v)[i] = W[u + i]
      BY <1>3, <2>7, SliceIs DEF m
    <2>10. \A i \in 1 .. h : W[a + i] = <<"local", g>>
      <3>1. Slice(W, a, d) = LocalHeader(g, p[g])
        BY <2>4 DEF d
      <3> QED
        BY <2>1, <2>7, <2>8, <3>1
    <2>11. \A i \in 1 .. k : W[u + i] = <<"byte", g, i - 1>>
      <3>1. Slice(W, u, v) = RangeFile(g, p[g])
        BY <2>4 DEF u, v
      <3> QED
        BY <2>2, <2>7, <2>9, <3>1
    <2> QED
      BY <2>1, <2>3, <2>10, <2>11 DEF a, b, h, k, u
  <1>6. W[at[f] + 1] = <<"local", f>>
    <2>1. 1 \in 1 .. H(f)
      BY <1>5
    <2> QED
      BY <1>5, <2>1
  <1>7. ASSUME at[f] > 0 PROVE W[at[f]] # <<"local", f>>
    <2> DEFINE g == f - 1
    <2>1. f # 1
      BY <1>2, <1>7
    <2>2. g \in 1 .. n /\ g + 1 = f /\ g # f
      <3> HIDE DEF n
      <3>1. f \in 1 .. n
        BY DEF n
      <3> QED
        BY <1>1, <2>1, <3>1
    <2> HIDE DEF g, H
    <2>3. /\ H(g) \in Nat \ {0} /\ p[g] \in Nat /\ at[g] \in Nat /\ at[g + 1] = at[g] + H(g) + p[g]
          /\ \A i \in 1 .. H(g) : W[at[g] + i] = <<"local", g>>
          /\ \A i \in 1 .. p[g] : W[at[g] + H(g) + i] = <<"byte", g, i - 1>>
      BY <1>5, <2>2
    <2>4. CASE p[g] = 0
      <3>1. H(g) \in 1 .. H(g) /\ at[f] = at[g] + H(g)
        BY <2>2, <2>3, <2>4
      <3>2. W[at[f]] = <<"local", g>>
        BY <2>3, <3>1
      <3>3. <<"local", g>>[2] = g /\ <<"local", f>>[2] = f
        OBVIOUS
      <3> QED
        BY <2>2, <3>2, <3>3
    <2>5. CASE p[g] # 0
      <3>1. p[g] \in 1 .. p[g] /\ at[f] = at[g] + H(g) + p[g]
        BY <2>2, <2>3, <2>5
      <3>2. W[at[f]] = <<"byte", g, p[g] - 1>>
        BY <2>3, <3>1
      <3>3. <<"byte", g, p[g] - 1>>[1] = "byte" /\ <<"local", f>>[1] = "local" /\ "byte" # "local"
        OBVIOUS
      <3> QED
        BY <3>2, <3>3
    <2> QED
      BY <2>4, <2>5
  <1> QED
    BY <1>6, <1>7 DEF W, at

LEMMA DirectoryIs ==
  ASSUME NEW p \in Packed
  PROVE  LET layout == BuildZipLayout(p)
             end == layout.end
         IN /\ \A f \in 1 .. Len(p) :
                 LET r == ReadCentral(layout.central[f]) IN
                 /\ r.size = p[f]
                 /\ ZipBytes(p)[r.off + 1] = <<"local", f>>
                 /\ r.off > 0 => ZipBytes(p)[r.off] # <<"local", f>>
            /\ ZipBytes(p)[(IF end.off = Marker /\ end.z64 # <<>> THEN end.z64[2] ELSE end.off) + 1]
                 = <<"trailer", 0>>
  <1> DEFINE layout == BuildZipLayout(p)
             W == ZipBytes(p)
             end == layout.end
  <1>1. /\ layout.end = EndRecords(CdSize(p), CdOff(p))
        /\ layout.central = [f \in 1 .. Len(p) |-> CentralHeader(p[f], LocalOff(p)[f])]
    BY LayoutIs
  <1>2. CdSize(p) \in Nat /\ CdOff(p) \in Nat
    BY LocalOffIs
  <1>3. (IF end.off = Marker /\ end.z64 # <<>> THEN end.z64[2] ELSE end.off) = CdOff(p)
    <2> HIDE DEF layout
    <2> QED
      BY <1>1, <1>2, EndReads
  <1>4. W[CdOff(p) + 1] = <<"trailer", 0>>
    <2> DEFINE c == CdOff(p)
               T == Trailer(p)
               d == c + Len(T) - 1
    <2>1. W \in Seq(Cell) /\ Len(W) = c + Len(T) /\ Slice(W, c, c + Len(T) - 1) = T
      BY ZipIs
    <2>2. Len(T) \in Nat \ {0} /\ T[1] = <<"trailer", 0>>
      BY TrailerIs
    <2> HIDE DEF W, T, c
    <2>3. Within(c, d, Len(W)) /\ 1 \in 1 .. (d - c + 1)
      BY <1>2, <2>1, <2>2 DEF Within, c
    <2>4. Slice(W, c, d) = T
      BY <2>1
    <2> HIDE DEF d
    <2>5. Slice(W, c, d)[1] = W[c + 1]
      BY <2>1, <2>3, SliceIs
    <2> QED
      BY <2>2, <2>4, <2>5 DEF c
  <1>5. ASSUME NEW f \in 1 .. Len(p)
        PROVE  LET r == ReadCentral(layout.central[f]) IN
               /\ r.size = p[f]
               /\ W[r.off + 1] = <<"local", f>>
               /\ r.off > 0 => W[r.off] # <<"local", f>>
    <2> DEFINE r == ReadCentral(layout.central[f])
               o == LocalOff(p)[f]
    <2>1. p[f] \in Nat /\ o \in Nat
      <3>1. p[f] \in Nat /\ f \in 1 .. Len(p) + 1
        BY PackedIs
      <3> QED
        BY <3>1, LocalOffIs
    <2>2. layout.central[f] = CentralHeader(p[f], o)
      <3> HIDE DEF layout
      <3> QED
        BY <1>1
    <2>3. r = [size |-> p[f], off |-> o]
      <3> HIDE DEF layout, o
      <3> QED
        BY <2>1, <2>2, CentralReads
    <2>4. r.size = p[f] /\ r.off = o
      <3> HIDE DEF r
      <3> QED
        BY <2>3
    <2>5. W[o + 1] = <<"local", f>> /\ (o > 0 => W[o] # <<"local", f>>)
      BY LocalAt
    <2> HIDE DEF r, o, W
    <2> QED
      BY <2>4, <2>5 DEF r
  <1> HIDE DEF layout, W
  <1> QED
    BY <1>3, <1>4, <1>5 DEF layout, W, end

-----------------------------------------------------------------------------
(* The handlers.                                                           *)

\* What holds of the open question and its answer.
RangeIInv ==
  /\ question \in Questions \cup {NoQuestion}
  /\ question = NoQuestion => rangeAnswer = Unanswered
  /\ rangeAnswer # Unanswered =>
       /\ rangeAnswer.status \in {200, 206, 416}
       /\ RightReply(WholeRange, question.range, rangeAnswer)

LEMMA QuestionsAre ==
  ASSUME NEW q \in Questions
  PROVE  /\ q.range \in Bounds \cup {NoRange}
         /\ \/ q.kind = "zip" /\ q.size \in Packed
            \/ q.kind \in {"file", "enc"} /\ q.size[1] \in Nat
  <1>1. CASE q \in [kind : {"zip"}, size : Packed, range : Bounds \cup {NoRange}]
    <2> DEFINE R == Bounds \cup {NoRange}
    <2> HIDE DEF R
    <2>1. q \in [kind : {"zip"}, size : Packed, range : R]
      BY <1>1 DEF R
    <2>2. q.kind = "zip" /\ q.size \in Packed /\ q.range \in R
      BY <2>1
    <2> QED
      BY <2>2 DEF R
  <1>2. CASE q \in [kind : {"file", "enc"}, size : {<<n>> : n \in 0 .. MaxSize}, range : Bounds \cup {NoRange}]
    <2> DEFINE R == Bounds \cup {NoRange}
               Z == {<<n>> : n \in 0 .. MaxSize}
    <2> HIDE DEF R, Z
    <2>1. q \in [kind : {"file", "enc"}, size : Z, range : R]
      BY <1>2 DEF R, Z
    <2>2. q.kind \in {"file", "enc"} /\ q.size \in Z /\ q.range \in R
      BY <2>1
    <2>3. PICK n \in 0 .. MaxSize : q.size = <<n>>
      BY <2>2 DEF Z
    <2>4. q.size[1] \in Nat
      BY <2>3, RangeNats
    <2> QED
      BY <2>2, <2>4 DEF R
  <1> QED
    BY <1>1, <1>2 DEF Questions

LEMMA WholeZip ==
  ASSUME question.kind = "zip", question.size \in Packed
  PROVE  WholeRange = ZipBytes(question.size)
  <1> DEFINE p == question.size
             segs == BuildZipLayout(p).segs
             F == FrontSegs(p)
             L == LastSeg(p)
             o == <<L>>
  <1>1. segs = F \o o
    BY LayoutIs
  <1>2. F \in Seq(SegRec)
    BY SegmentsAre
  <1>3. L \in SegRec /\ L.hdr = Trailer(p)
    BY LastHolds DEF SegHolds, LastSeg
  <1> HIDE DEF segs, F, L
  <1>4. o \in Seq(SegRec) /\ Len(o) = 1 /\ o[1] = L
    BY <1>3
  <1> HIDE DEF o
  <1>5. /\ Len(F \o o) = Len(F) + Len(o)
        /\ \A k \in 1 .. Len(F) + Len(o) : (F \o o)[k] = IF k <= Len(F) THEN F[k] ELSE o[k - Len(F)]
    BY <1>2, <1>4, ConcatProperties
  <1>6. segs[Len(segs)] = L
    <2> DEFINE k == Len(F)
    <2>1. k \in Nat
      BY <1>2
    <2> HIDE DEF k
    <2>2. k + 1 \in 1 .. k + 1 /\ ~(k + 1 <= k) /\ (k + 1) - k = 1
      BY <2>1
    <2>3. (F \o o)[k + 1] = o[1] /\ Len(F \o o) = k + 1
      BY <1>4, <1>5, <2>2 DEF k
    <2> QED
      BY <1>1, <1>4, <2>3
  <1>7. WholeRange = FrontBytes(p) \o segs[Len(segs)].hdr
    BY DEF WholeRange, FrontBytes, segs
  <1> QED
    BY <1>3, <1>6, <1>7 DEF ZipBytes

LEMMA NoQuestionIs ==
  /\ NoQuestion.kind = "none" /\ NoQuestion \notin Questions
  /\ Unanswered.status = 0
  <1>1. NoQuestion.kind = "none" /\ Unanswered.status = 0
    BY DEF NoQuestion, Unanswered, RangeReply
  <1>2. \A q \in Questions : q.kind # "none"
    <2> TAKE q \in Questions
    <2>1. q.kind = "zip" \/ q.kind \in {"file", "enc"}
      BY QuestionsAre
    <2> QED
      BY <2>1
  <1> QED
    BY <1>1, <1>2

\* An answer that is right when it is given stays so.
LEMMA RangeAnswered ==
  ASSUME RangeIInv, question \in Questions, UNCHANGED question,
         rangeAnswer'.status \in {200, 206, 416},
         RightReply(WholeRange, question.range, rangeAnswer')
  PROVE  RangeIInv'
  <1>1. WholeRange' = WholeRange
    BY DEF WholeRange
  <1>2. question' = question /\ question \in Questions /\ question # NoQuestion
    BY NoQuestionIs
  <1>3. RightReply(WholeRange', question'.range, rangeAnswer')
    BY <1>1, <1>2
  <1> QED
    BY <1>2, <1>3 DEF RangeIInv

LEMMA RightStatus ==
  ASSUME NEW w, NEW h, NEW a, RightReply(w, h, a)
  PROVE  a.status \in {200, 206, 416}
  BY DEF RightReply

LEMMA RangeInitially == ASSUME RangeInit PROVE RangeIInv
  BY DEF RangeInit, RangeIInv

LEMMA RangeInductive == RangeIInv /\ [RangeNext]_rangeVars => RangeIInv'
  <1> SUFFICES ASSUME RangeIInv, [RangeNext]_rangeVars PROVE RangeIInv'
    OBVIOUS
  <1>1. ASSUME NEW q \in Questions, RangeAsk(q) PROVE RangeIInv'
    <2>1. question' = q /\ rangeAnswer' = Unanswered
      BY <1>1 DEF RangeAsk, RangeIInv
    <2> QED
      BY <2>1, NoQuestionIs DEF RangeIInv
  <1>2. CASE Sent
    <2>1. question' = NoQuestion /\ rangeAnswer' = Unanswered
      BY <1>2 DEF Sent
    <2> QED
      BY <2>1 DEF RangeIInv
  <1>3. CASE AnswerFile
    <2>1. question.kind = "file" /\ UNCHANGED question
          /\ rangeAnswer' = FileReply(question.size[1], question.range)
      BY <1>3 DEF AnswerFile, FileReply
    <2>2. question \in Questions
      BY <2>1, NoQuestionIs DEF RangeIInv
    <2>3. question.range \in Bounds \cup {NoRange} /\ question.size[1] \in Nat
      BY <2>1, <2>2, QuestionsAre
    <2>4. WholeRange = RangeFile(1, question.size[1])
      BY <2>1 DEF WholeRange
    <2>5. RightReply(RangeFile(1, question.size[1]), question.range, FileReply(question.size[1], question.range))
      BY <2>3, FileReplyIs
    <2>6. RightReply(WholeRange, question.range, rangeAnswer')
      BY <2>1, <2>4, <2>5
    <2> QED
      BY <2>1, <2>2, <2>6, RightStatus, RangeAnswered
  <1>4. CASE AnswerEncrypted
    <2>1. question.kind = "enc" /\ UNCHANGED question
          /\ rangeAnswer' = EncReply(question.size[1], question.range)
      BY <1>4 DEF AnswerEncrypted, EncReply
    <2>2. question \in Questions
      BY <2>1, NoQuestionIs DEF RangeIInv
    <2>3. question.range \in Bounds \cup {NoRange} /\ question.size[1] \in Nat
      BY <2>1, <2>2, QuestionsAre
    <2>4. WholeRange = RangeFile(1, question.size[1])
      BY <2>1 DEF WholeRange
    <2>5. RightReply(RangeFile(1, question.size[1]), question.range, EncReply(question.size[1], question.range))
      BY <2>3, EncReplyIs
    <2>6. RightReply(WholeRange, question.range, rangeAnswer')
      BY <2>1, <2>4, <2>5
    <2> QED
      BY <2>1, <2>2, <2>6, RightStatus, RangeAnswered
  <1>5. CASE AnswerZip
    <2>1. question.kind = "zip" /\ UNCHANGED question
          /\ rangeAnswer' = ZipReply(question.size, question.range)
      BY <1>5 DEF AnswerZip, ZipReply
    <2>2. question \in Questions
      BY <2>1, NoQuestionIs DEF RangeIInv
    <2>3. question.range \in Bounds \cup {NoRange} /\ question.size \in Packed
      BY <2>1, <2>2, QuestionsAre
    <2>4. WholeRange = ZipBytes(question.size)
      BY <2>1, <2>3, WholeZip
    <2>5. RightReply(ZipBytes(question.size), question.range, ZipReply(question.size, question.range))
      BY <2>3, ZipReplyIs
    <2>6. RightReply(WholeRange, question.range, rangeAnswer')
      BY <2>1, <2>4, <2>5
    <2> QED
      BY <2>1, <2>2, <2>6, RightStatus, RangeAnswered
  <1>6. CASE UNCHANGED rangeVars
    BY <1>6 DEF rangeVars, RangeIInv, WholeRange
  <1> QED
    BY <1>1, <1>2, <1>3, <1>4, <1>5, <1>6 DEF RangeNext

LEMMA RangeImplies == RangeIInv => RangeTypeOK /\ AnswerIsSlice /\ DirectoryLeads
  <1> SUFFICES ASSUME RangeIInv PROVE RangeTypeOK /\ AnswerIsSlice /\ DirectoryLeads
    OBVIOUS
  <1>1. RangeTypeOK
    BY NoQuestionIs DEF RangeIInv, RangeTypeOK
  <1>2. AnswerIsSlice
    <2>1. CASE rangeAnswer = Unanswered
      BY <2>1, NoQuestionIs DEF AnswerIsSlice
    <2>2. CASE rangeAnswer # Unanswered
      <3>1. RightReply(WholeRange, question.range, rangeAnswer) /\ rangeAnswer.status \in {200, 206, 416}
        BY <2>2 DEF RangeIInv
      <3> QED
        BY <3>1 DEF RightReply, AnswerIsSlice
    <2> QED
      BY <2>1, <2>2
  <1>3. DirectoryLeads
    <2> SUFFICES ASSUME question.kind = "zip" PROVE DirectoryLeads
      BY DEF DirectoryLeads
    <2>1. question \in Questions
      BY NoQuestionIs DEF RangeIInv
    <2>2. question.size \in Packed
      BY <2>1, QuestionsAre
    <2>3. WholeRange = ZipBytes(question.size)
      BY <2>2, WholeZip
    <2> QED
      BY <2>2, <2>3, DirectoryIs DEF DirectoryLeads
  <1> QED
    BY <1>1, <1>2, <1>3

THEOREM RangesHold == RangeSpec => [](RangeTypeOK /\ AnswerIsSlice /\ DirectoryLeads)
  <1>1. RangeInit => RangeIInv
    BY RangeInitially
  <1> QED
    BY <1>1, RangeInductive, RangeImplies, PTL DEF RangeSpec

-----------------------------------------------------------------------------
(* The bytes of a volume.                                                  *)

\* What the proofs need of a volume.
RarVol(F, v) ==
  /\ v.cut \in Nat /\ v.blocks # <<>> /\ {"head", "signature"} \subseteq F
  /\ v.blocks \in Seq([type : {"file", "end", "other"}, file : F, from : Nat, len : Nat, stored : BOOLEAN])
  /\ WellMade(v)

BlockIn(v, i) == i \in 1 .. Len(v.blocks)

LEMMA BlockIs ==
  ASSUME NEW F, NEW v, RarVol(F, v), NEW i, BlockIn(v, i)
  PROVE  /\ v.blocks[i].file \in F /\ v.blocks[i].from \in Nat /\ v.blocks[i].len \in Nat
         /\ v.blocks[i].type \in {"file", "end", "other"}
  <1> DEFINE S == [type : {"file", "end", "other"}, file : F, from : Nat, len : Nat, stored : BOOLEAN]
  <1>1. v.blocks[i] \in S
    <2>1. v.blocks \in Seq(S) /\ i \in 1 .. Len(v.blocks)
      BY DEF RarVol, BlockIn
    <2> HIDE DEF S
    <2> QED
      BY <2>1, ElementOfSeq
  <1> QED
    BY <1>1

LEMMA VolumeLen ==
  ASSUME NEW F, NEW v, RarVol(F, v)
  PROVE  Len(v.blocks) \in Nat \ {0}
  BY EmptySeq DEF RarVol

\* The bytes W of block b.
BlockFills(F, W, b) ==
  /\ W \in Seq(F \X Nat) /\ Len(W) = HeadLen + b.len
  /\ \A d \in 0 .. b.len - 1 : W[HeadLen + (d + 1)] = <<b.file, b.from + d>>

LEMMA BlockBytesAre ==
  ASSUME NEW F, NEW v, RarVol(F, v), NEW i, BlockIn(v, i)
  PROVE  BlockFills(F, BlockBytes(v.blocks[i]), v.blocks[i])
  <1> DEFINE b == v.blocks[i]
             file == b.file
             from == b.from
             len == b.len
             H == [k \in 1 .. HeadLen |-> <<"head", 0>>]
             D == [k \in 1 .. len |-> <<file, from + k - 1>>]
  <1>1. HeadLen \in Nat /\ file \in F /\ from \in Nat /\ len \in Nat /\ "head" \in F
    BY RarAssumption, BlockIs DEF RarVol
  <1>2. BlockBytes(b) = H \o D
    BY DEF BlockBytes
  <1> HIDE DEF b, file, from, len
  <1>3. H \in Seq(F \X Nat) /\ Len(H) = HeadLen
    <2>1. <<"head", 0>> \in F \X Nat
      BY <1>1
    <2>2. H \in [1 .. HeadLen -> F \X Nat]
      BY <2>1
    <2> HIDE DEF H
    <2> QED
      BY <1>1, <2>2
  <1>4. D \in Seq(F \X Nat) /\ Len(D) = len
    <2>1. \A k \in 1 .. len : <<file, from + k - 1>> \in F \X Nat
      BY <1>1
    <2>2. D \in [1 .. len -> F \X Nat]
      BY <2>1
    <2> HIDE DEF D
    <2> QED
      BY <1>1, <2>2
  <1>5. \A d \in 0 .. len - 1 : D[d + 1] = <<file, from + d>>
    BY <1>1
  <1> HIDE DEF H, D
  <1>6. /\ H \o D \in Seq(F \X Nat) /\ Len(H \o D) = Len(H) + Len(D)
        /\ \A k \in 1 .. Len(H) + Len(D) : (H \o D)[k] = IF k <= Len(H) THEN H[k] ELSE D[k - Len(H)]
    BY <1>3, <1>4, ConcatProperties
  <1>7. ASSUME NEW d \in 0 .. len - 1 PROVE (H \o D)[HeadLen + (d + 1)] = <<file, from + d>>
    <2> DEFINE k == HeadLen + (d + 1)
    <2>1. k \in 1 .. HeadLen + len /\ ~(k <= HeadLen) /\ k - HeadLen = d + 1
      BY <1>1
    <2>2. (H \o D)[k] = D[k - HeadLen]
      <3> HIDE DEF k
      <3> QED
        BY <1>3, <1>4, <1>6, <2>1
    <2> QED
      BY <1>5, <2>1, <2>2
  <1>8. /\ H \o D \in Seq(F \X Nat) /\ Len(H \o D) = HeadLen + len
    BY <1>3, <1>4, <1>6
  <1> QED
    BY <1>2, <1>7, <1>8 DEF b, file, from, len, BlockFills

BlockLens(v) == [j \in 1 .. Len(v.blocks) |-> HeadLen + v.blocks[j].len]

LEMMA HeadersAre ==
  ASSUME NEW F, NEW v, RarVol(F, v)
  PROVE  /\ HeaderOff(v, 1) = HeadLen
         /\ \A i \in 1 .. Len(v.blocks) + 1 : HeaderOff(v, i) \in Nat
         /\ \A i \in 1 .. Len(v.blocks) : HeaderOff(v, i + 1) = HeaderOff(v, i) + HeadLen + v.blocks[i].len
         /\ \A i \in 1 .. Len(v.blocks) + 1 : HeaderOff(v, i) = HeadLen + Offsets(BlockLens(v))[i]
         /\ \A i \in 1 .. Len(v.blocks) + 1 : Offsets(BlockLens(v))[i] \in Nat
  <1> DEFINE n == Len(v.blocks)
             lens == BlockLens(v)
             at == Offsets(lens)
  <1>1. n \in Nat \ {0} /\ HeadLen \in Nat
    BY VolumeLen, RarAssumption
  <1>2. \A i \in 1 .. n : v.blocks[i].len \in Nat
    BY BlockIs DEF BlockIn
  <1>3. lens = [j \in 1 .. n |-> HeadLen + v.blocks[j].len]
    BY DEF BlockLens
  <1>4. \A i : HeaderOff(v, i) = HeadLen + at[i]
    BY DEF HeaderOff, BlockLens
  <1> HIDE DEF n, lens
  <1>5. Lengths(lens, n)
    <2>1. \A i \in 1 .. n : lens[i] \in Nat
      BY <1>1, <1>2, <1>3
    <2>2. Len(lens) = n
      BY <1>1, <1>3
    <2> QED
      BY <1>1, <2>1, <2>2 DEF Lengths
  <1>6. /\ at[1] = 0
        /\ \A i \in 1 .. n : at[i + 1] = at[i] + lens[i]
        /\ \A i \in 1 .. n + 1 : at[i] \in Nat
    BY <1>5, OffsetsAre
  <1> HIDE DEF at
  <1>7. ASSUME NEW i \in 1 .. n PROVE HeaderOff(v, i + 1) = HeaderOff(v, i) + HeadLen + v.blocks[i].len
    <2>1. at[i + 1] = at[i] + (HeadLen + v.blocks[i].len) /\ at[i] \in Nat /\ v.blocks[i].len \in Nat
      BY <1>1, <1>2, <1>3, <1>6
    <2>2. HeaderOff(v, i) = HeadLen + at[i] /\ HeaderOff(v, i + 1) = HeadLen + at[i + 1]
      BY <1>4
    <2> DEFINE x == at[i]
               y == v.blocks[i].len
    <2> HIDE DEF x, y
    <2>3. HeadLen + (x + (HeadLen + y)) = HeadLen + x + HeadLen + y
      BY <1>1, <2>1 DEF x, y
    <2> QED
      BY <2>1, <2>2, <2>3 DEF x, y
  <1>8. HeaderOff(v, 1) = HeadLen /\ \A i \in 1 .. n + 1 : HeaderOff(v, i) \in Nat
    BY <1>1, <1>4, <1>6
  <1> QED
    BY <1>4, <1>6, <1>7, <1>8 DEF n, at, lens

\* All the bytes that the headers of a volume announce.
AllBytes(v) ==
  [i \in 1 .. HeadLen |-> <<"signature", 0>>]
    \o FlattenSeq([i \in 1 .. Len(v.blocks) |-> BlockBytes(v.blocks[i])])

\* Byte d of block i of volume v is where the header before it says, in W.
ByteAt(v, W, i, d) == W[HeaderOff(v, i) + HeadLen + (d + 1)] = <<v.blocks[i].file, v.blocks[i].from + d>>

LEMMA AllBytesAre ==
  ASSUME NEW F, NEW v, RarVol(F, v)
  PROVE  /\ AllBytes(v) \in Seq(F \X Nat)
         /\ Len(AllBytes(v)) = HeaderOff(v, Len(v.blocks) + 1)
         /\ \A i \in 1 .. Len(v.blocks) : \A d \in 0 .. v.blocks[i].len - 1 :
              /\ HeaderOff(v, i) + HeadLen + (d + 1) \in 1 .. Len(AllBytes(v))
              /\ ByteAt(v, AllBytes(v), i, d)
  <1> DEFINE n == Len(v.blocks)
             at == Offsets(BlockLens(v))
             ss == [i \in 1 .. n |-> BlockBytes(v.blocks[i])]
             off == [i \in 0 .. n |-> at[i + 1]]
             H == [i \in 1 .. HeadLen |-> <<"signature", 0>>]
             W == FlattenSeq(ss)
             len(i) == v.blocks[i].len
             h(i) == HeaderOff(v, i)
  <1>1. n \in Nat \ {0} /\ HeadLen \in Nat /\ "signature" \in F
    BY VolumeLen, RarAssumption DEF RarVol
  <1>2. AllBytes(v) = H \o W
    BY DEF AllBytes
  <1>3. /\ h(1) = HeadLen
        /\ \A i \in 1 .. n + 1 : h(i) = HeadLen + at[i] /\ at[i] \in Nat
        /\ \A i \in 1 .. n : h(i + 1) = h(i) + HeadLen + len(i)
    BY HeadersAre
  <1>4. \A i \in 1 .. n : /\ ss[i] \in Seq(F \X Nat) /\ Len(ss[i]) = HeadLen + len(i) /\ len(i) \in Nat
                          /\ \A d \in 0 .. len(i) - 1 :
                               ss[i][HeadLen + (d + 1)] = <<v.blocks[i].file, v.blocks[i].from + d>>
    <2> TAKE i \in 1 .. n
    <2>1. BlockIn(v, i) /\ ss[i] = BlockBytes(v.blocks[i])
      BY DEF BlockIn
    <2>2. v.blocks[i].len \in Nat /\ BlockFills(F, ss[i], v.blocks[i])
      <3> HIDE DEF ss
      <3> QED
        BY <2>1, BlockIs, BlockBytesAre
    <2> QED
      BY <2>2 DEF BlockFills
  <1>5. Len(ss) = n
    BY <1>1
  <1>6. \A i \in 0 .. n : off[i] = at[i + 1]
    OBVIOUS
  <1> HIDE DEF n, at, ss, off, H, W, len, h
  <1>7. \A i \in 1 .. n : at[i + 1] = at[i] + (HeadLen + len(i)) /\ at[1] = 0
    <2> TAKE i \in 1 .. n
    <2>1. i \in 1 .. n + 1 /\ i + 1 \in 1 .. n + 1 /\ 1 \in 1 .. n + 1
      BY <1>1
    <2>2. HeadLen + at[i + 1] = (HeadLen + at[i]) + HeadLen + len(i) /\ HeadLen + at[1] = HeadLen
      BY <1>3, <2>1
    <2>3. at[i + 1] \in Nat /\ at[i] \in Nat /\ at[1] \in Nat /\ len(i) \in Nat
      BY <1>3, <1>4, <2>1
    <2> DEFINE x == at[i + 1]
               y == at[i]
               z == len(i)
               w == at[1]
    <2> HIDE DEF x, y, z, w
    <2>4. x = y + (HeadLen + z) /\ w = 0
      BY <1>1, <2>2, <2>3 DEF x, y, z, w
    <2> QED
      BY <2>4 DEF x, y, z, w
  <1>8. LaidOut(F \X Nat, n, ss, off)
    <2>1. off[0] = 0
      <3>1. 1 \in 1 .. n /\ 0 \in 0 .. n /\ 0 + 1 = 1
        BY <1>1
      <3> QED
        BY <1>6, <1>7, <3>1
    <2>2. ASSUME NEW i \in 1 .. n PROVE off[i - 1] \in Nat /\ off[i] = off[i - 1] + Len(ss[i])
      <3>1. i - 1 \in 0 .. n /\ (i - 1) + 1 = i /\ i \in 0 .. n /\ i \in 1 .. n + 1
        BY <1>1
      <3>2. off[i - 1] = at[i] /\ off[i] = at[i + 1]
        BY <1>6, <3>1
      <3> QED
        BY <1>3, <1>4, <1>7, <3>1, <3>2
    <2> QED
      BY <1>1, <1>4, <1>5, <2>1, <2>2 DEF LaidOut
  <1>9. /\ W \in Seq(F \X Nat) /\ Len(W) = off[n]
        /\ \A i \in 1 .. n : \A j \in 1 .. Len(ss[i]) :
             off[i - 1] + j \in 1 .. off[n] /\ W[off[i - 1] + j] = ss[i][j]
    BY <1>8, FlattenFinds DEF W
  <1>10. H \in Seq(F \X Nat) /\ Len(H) = HeadLen
    <2>1. <<"signature", 0>> \in F \X Nat
      BY <1>1
    <2>2. H \in [1 .. HeadLen -> F \X Nat]
      BY <2>1 DEF H
    <2> QED
      BY <1>1, <2>2
  <1>11. /\ H \o W \in Seq(F \X Nat) /\ Len(H \o W) = Len(H) + Len(W)
         /\ \A k \in 1 .. Len(H) + Len(W) : (H \o W)[k] = IF k <= Len(H) THEN H[k] ELSE W[k - Len(H)]
    BY <1>9, <1>10, ConcatProperties
  <1>12. n \in 0 .. n /\ n + 1 \in 1 .. n + 1
    BY <1>1
  <1>13. off[n] = at[n + 1] /\ at[n + 1] \in Nat
    BY <1>3, <1>6, <1>12
  <1>14. Len(H \o W) = h(n + 1)
    BY <1>3, <1>9, <1>10, <1>11, <1>12, <1>13
  <1>15. ASSUME NEW i \in 1 .. n, NEW d \in 0 .. len(i) - 1
         PROVE  /\ h(i) + HeadLen + (d + 1) \in 1 .. Len(H \o W)
                /\ (H \o W)[h(i) + HeadLen + (d + 1)] = <<v.blocks[i].file, v.blocks[i].from + d>>
    <2> DEFINE j == HeadLen + (d + 1)
               k == h(i) + HeadLen + (d + 1)
               o == at[i]
               e == off[n]
    <2>1. i - 1 \in 0 .. n /\ (i - 1) + 1 = i /\ i \in 1 .. n + 1
      BY <1>1
    <2>2. off[i - 1] = o /\ o \in Nat /\ h(i) = HeadLen + o /\ e \in Nat
      BY <1>3, <1>6, <1>13, <2>1
    <2>3. len(i) \in Nat /\ d \in Nat /\ d < len(i)
      BY <1>4
    <2>4. j \in 1 .. Len(ss[i])
      BY <1>1, <1>4, <2>3
    <2>5. o + j \in 1 .. e /\ W[o + j] = ss[i][j]
      <3> HIDE DEF j, o, e
      <3> QED
        BY <1>9, <2>2, <2>4 DEF e
    <2>6. ss[i][j] = <<v.blocks[i].file, v.blocks[i].from + d>>
      BY <1>4
    <2> HIDE DEF o, e
    <2>7. k = HeadLen + (o + j) /\ j \in Nat
      BY <1>1, <2>2, <2>3
    <2> HIDE DEF k, j
    <2>8. k \in 1 .. HeadLen + e /\ ~(k <= HeadLen) /\ k - HeadLen = o + j
      BY <1>1, <2>2, <2>5, <2>7
    <2>9. (H \o W)[k] = W[o + j]
      BY <1>9, <1>10, <1>11, <2>8 DEF e
    <2>10. Len(H \o W) = HeadLen + e
      BY <1>9, <1>10, <1>11 DEF e
    <2> QED
      BY <2>5, <2>6, <2>8, <2>9, <2>10 DEF k
  <1> QED
    BY <1>2, <1>11, <1>14, <1>15 DEF n, h, len, ByteAt

\* Where a block of a file is, its bytes are, as many as the volume has; and the walk
\* over the headers reaches every block.
LEMMA VolumeIs ==
  ASSUME NEW F, NEW v, RarVol(F, v)
  PROVE  /\ VolumeBytes(v) \in Seq(F \X Nat)
         /\ \A i \in 1 .. Len(v.blocks) : \A d \in 0 .. v.blocks[i].len - 1 :
              HeaderOff(v, i) + HeadLen + (d + 1) <= Len(VolumeBytes(v)) => ByteAt(v, VolumeBytes(v), i, d)
         /\ Walked(v) = 1 .. Len(v.blocks)
  <1> DEFINE n == Len(v.blocks)
             len(i) == v.blocks[i].len
             h(i) == HeaderOff(v, i)
             all == AllBytes(v)
             size == Len(all) - v.cut
             W == VolumeBytes(v)
  <1>1. W = SubSeq(all, 1, size)
    BY DEF VolumeBytes, AllBytes
  <1>2. n \in Nat \ {0} /\ HeadLen \in Nat \ {0} /\ v.cut \in Nat
    BY VolumeLen, RarAssumption DEF RarVol
  <1>3. all \in Seq(F \X Nat) /\ Len(all) = h(n + 1)
    BY AllBytesAre
  <1>4. \A i \in 1 .. n : \A d \in 0 .. len(i) - 1 :
          /\ h(i) + HeadLen + (d + 1) \in 1 .. Len(all)
          /\ ByteAt(v, all, i, d)
    BY AllBytesAre
  <1>5. \A i \in 1 .. n : len(i) \in Nat
    BY BlockIs DEF BlockIn
  <1>6. /\ \A i \in 1 .. n + 1 : h(i) \in Nat
        /\ \A i \in 1 .. n : h(i + 1) = h(i) + HeadLen + len(i)
    BY HeadersAre
  <1>7. v.cut <= len(n) /\ \A i \in 1 .. n : v.blocks[i].type = "end" => i = n
    BY DEF RarVol, WellMade
  <1>8. Walked(v) = {i \in 1 .. n : h(i) < Len(W) /\ \A j \in 1 .. (i - 1) : v.blocks[j].type # "end"}
    BY DEF Walked
  <1> HIDE DEF n, len, h, all, W
  <1>9. n \in 1 .. n /\ n \in 1 .. n + 1 /\ n + 1 \in 1 .. n + 1
    BY <1>2
  <1>10. size \in Nat /\ h(n) < size /\ size <= Len(all) /\ Len(all) \in Nat
    <2>1. h(n + 1) = h(n) + HeadLen + len(n) /\ h(n) \in Nat /\ len(n) \in Nat
      BY <1>5, <1>6, <1>9
    <2> DEFINE x == h(n)
               y == len(n)
    <2> HIDE DEF x, y
    <2>2. Len(all) = x + HeadLen + y /\ x \in Nat /\ y \in Nat /\ v.cut <= y
      BY <1>3, <1>7, <2>1 DEF x, y
    <2>3. size \in Nat /\ x < size /\ size <= Len(all) /\ Len(all) \in Nat
      BY <1>2, <2>2
    <2> QED
      BY <2>3 DEF x
  <1> HIDE DEF size
  <1>11. W \in Seq(F \X Nat) /\ Len(W) = size /\ \A i \in 1 .. size : W[i] = all[i]
    <2>1. \A i \in 1 .. size : all[i] \in F \X Nat
      <3>1. \A i \in 1 .. size : i \in 1 .. Len(all)
        BY <1>10
      <3> QED
        BY <1>3, <3>1, ElementOfSeq
    <2>2. /\ SubSeq(all, 1, size) \in Seq(F \X Nat)
          /\ Len(SubSeq(all, 1, size)) = IF 1 <= size THEN size - 1 + 1 ELSE 0
          /\ \A i \in 1 .. size - 1 + 1 : SubSeq(all, 1, size)[i] = all[1 + i - 1]
      BY <1>10, <2>1, SubSeqProperties
    <2>3. size - 1 + 1 = size /\ \A i \in 1 .. size : i \in 1 .. size - 1 + 1 /\ 1 + i - 1 = i
      BY <1>10
    <2>4. (IF 1 <= size THEN size - 1 + 1 ELSE 0) = size
      BY <1>10
    <2> QED
      BY <1>1, <2>2, <2>3, <2>4
  <1>12. ASSUME NEW i \in 1 .. n, NEW d \in 0 .. len(i) - 1, h(i) + HeadLen + (d + 1) <= Len(W)
         PROVE  W[h(i) + HeadLen + (d + 1)] = <<v.blocks[i].file, v.blocks[i].from + d>>
    <2> DEFINE k == h(i) + HeadLen + (d + 1)
    <2>1. k \in 1 .. Len(all) /\ all[k] = <<v.blocks[i].file, v.blocks[i].from + d>> /\ k <= Len(W)
      BY <1>4, <1>12 DEF ByteAt, h
    <2> HIDE DEF k
    <2>2. k \in 1 .. size
      BY <1>10, <1>11, <2>1
    <2> QED
      BY <1>11, <2>1, <2>2 DEF k
  <1>13. \A i \in 1 .. n : h(i) <= h(n)
    <2> DEFINE Bad == {x \in Nat : n - x \in 1 .. n /\ ~(h(n - x) <= h(n))}
    <2>1. Bad = {}
      <3> SUFFICES ASSUME Bad # {} PROVE FALSE
        OBVIOUS
      <3>1. PICK x \in Bad : \A y \in Bad : x <= y
        <4>1. Bad \subseteq Nat
          OBVIOUS
        <4> HIDE DEF Bad
        <4> QED
          BY <4>1, LeastOf
      <3>2. x \in Nat /\ n - x \in 1 .. n /\ ~(h(n - x) <= h(n))
        BY <3>1
      <3>3. x # 0
        <4>1. n - 0 = n /\ h(n) \in Nat
          BY <1>2, <1>6, <1>9
        <4> QED
          BY <3>2, <4>1
      <3> DEFINE y == x - 1
                 i == n - x
      <3>4. y \in Nat /\ y < x /\ n - y = i + 1 /\ i \in 1 .. n
        BY <1>2, <3>2, <3>3
      <3>5. i + 1 \in 1 .. n
        BY <1>2, <3>2, <3>3
      <3>6. h(i + 1) = h(i) + HeadLen + len(i) /\ h(i) \in Nat /\ len(i) \in Nat /\ h(n) \in Nat /\ h(i + 1) \in Nat
        <4>1. i \in 1 .. n + 1 /\ i + 1 \in 1 .. n + 1
          BY <1>2, <3>4, <3>5
        <4> HIDE DEF i
        <4> QED
          BY <1>5, <1>6, <1>9, <3>4, <4>1
      <3>7. ~(h(i + 1) <= h(n))
        BY <1>2, <3>2, <3>6
      <3>8. y \in Bad
        BY <3>4, <3>5, <3>7
      <3> QED
        BY <3>1, <3>2, <3>4, <3>8
    <2>2. ASSUME NEW i \in 1 .. n PROVE h(i) <= h(n)
      <3>1. n - i \in Nat /\ n - (n - i) = i
        BY <1>2
      <3> QED
        BY <2>1, <3>1
    <2> QED
      BY <2>2
  <1>14. Walked(v) = 1 .. n
    <2>1. ASSUME NEW i \in 1 .. n PROVE h(i) < Len(W)
      <3>1. i \in 1 .. n + 1
        BY <1>2
      <3> QED
        BY <1>6, <1>9, <1>10, <1>11, <1>13, <3>1
    <2>2. ASSUME NEW i \in 1 .. n, NEW j \in 1 .. (i - 1) PROVE v.blocks[j].type # "end"
      <3>1. j \in 1 .. n /\ j # n
        BY <1>2
      <3> QED
        BY <1>7, <3>1
    <2> QED
      BY <1>8, <2>1, <2>2
  <1> QED
    BY <1>11, <1>12, <1>14 DEF n, h, len, W, ByteAt

-----------------------------------------------------------------------------
(* The pieces of a file, volume after volume.                              *)

\* Any rows one after another lie at the sums of their lengths.
LensOf(ss, n) == [i \in 1 .. n |-> Len(ss[i])]
Starts(ss, n) == [k \in 0 .. n |-> Offsets(LensOf(ss, n))[k + 1]]

Rows(S, n, ss) == n \in Nat /\ Len(ss) = n /\ (n = 0 => ss = <<>>) /\ \A i \in 1 .. n : ss[i] \in Seq(S)

LEMMA RowsLie ==
  ASSUME NEW S, NEW n, NEW ss, Rows(S, n, ss)
  PROVE  LaidOut(S, n, ss, Starts(ss, n))
  <1> DEFINE lens == LensOf(ss, n)
             at == Offsets(lens)
             off == Starts(ss, n)
  <1>1. n \in Nat /\ Len(ss) = n /\ (n = 0 => ss = <<>>) /\ \A i \in 1 .. n : ss[i] \in Seq(S)
    BY DEF Rows
  <1>2. \A i \in 1 .. n : lens[i] = Len(ss[i]) /\ Len(ss[i]) \in Nat
    BY <1>1 DEF LensOf
  <1>3. Lengths(lens, n)
    <2>1. Len(lens) = n
      BY <1>1 DEF LensOf
    <2> QED
      BY <1>1, <1>2, <2>1 DEF Lengths
  <1>4. \A k \in 0 .. n : off[k] = at[k + 1]
    BY DEF Starts
  <1> HIDE DEF lens
  <1>5. /\ at[1] = 0
        /\ \A i \in 1 .. n : at[i + 1] = at[i] + lens[i]
        /\ \A i \in 1 .. n + 1 : at[i] \in Nat
    BY <1>3, OffsetsAre
  <1> HIDE DEF at, off
  <1>6. off[0] = 0
    <2>1. 0 \in 0 .. n /\ 0 + 1 = 1
      BY <1>1
    <2> QED
      BY <1>4, <1>5, <2>1
  <1>7. ASSUME NEW i \in 1 .. n PROVE off[i - 1] \in Nat /\ off[i] = off[i - 1] + Len(ss[i])
    <2>1. i - 1 \in 0 .. n /\ (i - 1) + 1 = i /\ i \in 0 .. n /\ i \in 1 .. n + 1
      BY <1>1
    <2>2. off[i - 1] = at[i] /\ off[i] = at[i + 1]
      BY <1>4, <2>1
    <2> QED
      BY <1>2, <1>5, <2>1, <2>2
  <1> QED
    BY <1>1, <1>6, <1>7 DEF LaidOut, off

LEMMA LaidNats ==
  ASSUME NEW S, NEW n, NEW ss, NEW off, LaidOut(S, n, ss, off)
  PROVE  \A k \in 0 .. n : off[k] \in Nat
  <1> TAKE k \in 0 .. n
  <1>1. CASE k = 0
    BY <1>1 DEF LaidOut
  <1>2. CASE k # 0
    <2>1. k \in 1 .. n /\ n \in Nat
      BY <1>2 DEF LaidOut
    <2>2. off[k - 1] \in Nat /\ off[k] = off[k - 1] + Len(ss[k]) /\ ss[k] \in Seq(S)
      BY <2>1 DEF LaidOut
    <2>3. Len(ss[k]) \in Nat
      BY <2>2
    <2> QED
      BY <2>2, <2>3
  <1> QED
    BY <1>1, <1>2

\* Every place of what is laid out is in one of the rows.
LEMMA LaidOnto ==
  ASSUME NEW S, NEW n, NEW ss, NEW off, LaidOut(S, n, ss, off), NEW k \in 1 .. off[n]
  PROVE  \E i \in 1 .. n : \E j \in 1 .. Len(ss[i]) : k = off[i - 1] + j
  <1> DEFINE Far == {i \in 0 .. n : k <= off[i]}
  <1>1. n \in Nat /\ off[0] = 0 /\ \A i \in 0 .. n : off[i] \in Nat
    BY LaidNats DEF LaidOut
  <1>2. k \in Nat /\ k # 0 /\ k <= off[n] /\ n \in 0 .. n
    BY <1>1
  <1>3. PICK i \in Far : \A x \in Far : i <= x
    <2>1. Far \subseteq Nat /\ Far # {}
      BY <1>1, <1>2
    <2> HIDE DEF Far
    <2> QED
      BY <2>1, LeastOf
  <1>4. i \in 0 .. n /\ k <= off[i]
    BY <1>3
  <1>5. i # 0
    BY <1>1, <1>2, <1>4
  <1>6. i \in 1 .. n /\ i - 1 \in 0 .. n /\ i - 1 < i
    BY <1>1, <1>4, <1>5
  <1>7. ~(k <= off[i - 1])
    BY <1>3, <1>6
  <1>8. off[i - 1] \in Nat /\ off[i] = off[i - 1] + Len(ss[i]) /\ Len(ss[i]) \in Nat
    <2>1. off[i] = off[i - 1] + Len(ss[i]) /\ ss[i] \in Seq(S)
      BY <1>6 DEF LaidOut
    <2> QED
      BY <1>1, <1>6, <2>1
  <1> DEFINE j == k - off[i - 1]
  <1>9. j \in 1 .. Len(ss[i]) /\ k = off[i - 1] + j
    BY <1>2, <1>4, <1>7, <1>8
  <1> QED
    BY <1>6, <1>9

LEMMA OneThing == ASSUME NEW S, NEW x \in S PROVE <<x>> \in Seq(S) /\ Len(<<x>>) = 1 /\ <<x>>[1] = x
  OBVIOUS

\* The volumes of an archive, in a row.
RarRow(F, vs) ==
  Len(vs) \in Nat \ {0} /\ \A k \in 1 .. Len(vs) : RarVol(F, vs[k])

PlaceIn(vs) == {p \in Nat \X Nat : p[1] \in 1 .. Len(vs) /\ p[2] \in 1 .. Len(vs[p[1]].blocks)}

LEMMA PlacesAre ==
  ASSUME NEW F, NEW vs, RarRow(F, vs)
  PROVE  Places(vs) \in Seq(PlaceIn(vs))
  <1> DEFINE n == Len(vs)
             m(k) == Len(vs[k].blocks)
             row(k) == [i \in 1 .. m(k) |-> <<k, i>>]
             ss == [k \in 1 .. n |-> row(k)]
  <1>1. n \in Nat \ {0}
    BY DEF RarRow
  <1>2. \A k \in 1 .. n : m(k) \in Nat
    BY VolumeLen DEF RarRow
  <1>3. Places(vs) = FlattenSeq(ss)
    BY DEF Places
  <1>4. ASSUME NEW k \in 1 .. n PROVE ss[k] \in Seq(PlaceIn(vs))
    <2>1. \A i \in 1 .. m(k) : <<k, i>> \in PlaceIn(vs)
      <3> TAKE i \in 1 .. m(k)
      <3>1. k \in Nat /\ i \in Nat
        BY <1>1, <1>2
      <3> QED
        BY <3>1 DEF PlaceIn
    <2>2. row(k) \in [1 .. m(k) -> PlaceIn(vs)] /\ m(k) \in Nat
      BY <1>2, <2>1
    <2>3. ss[k] = row(k)
      OBVIOUS
    <2> HIDE DEF row, m, ss
    <2> QED
      BY <2>2, <2>3
  <1>5. Len(ss) = n
    BY <1>1
  <1> HIDE DEF ss, n
  <1>6. LaidOut(PlaceIn(vs), n, ss, Starts(ss, n))
    <2>1. Rows(PlaceIn(vs), n, ss)
      BY <1>1, <1>4, <1>5 DEF Rows
    <2> QED
      BY <2>1, RowsLie
  <1> QED
    BY <1>3, <1>6, FlattenFinds

\* Piece k of a file is the block at place p, and begins where the pieces before it end.
FragLens(frags) == [j \in 1 .. Len(frags) |-> frags[j].length]
FragFrom(vs, name, frags, k, p) ==
  /\ p \in PlaceIn(vs) /\ IsPiece(BlockAt(vs, p), name)
  /\ frags[k] = [vol |-> p[1], off |-> HeaderOff(vs[p[1]], p[2]) + HeadLen, length |-> BlockAt(vs, p).len]
  /\ BlockAt(vs, p).from = Offsets(FragLens(frags))[k]

LEMMA FragsAre ==
  ASSUME NEW F, NEW vs, RarRow(F, vs), Consecutive(vs), NEW name
  PROVE  /\ Lengths(FragLens(FragsOf(vs, name)), Len(FragsOf(vs, name)))
         /\ \A k \in 1 .. Len(FragsOf(vs, name)) : \E p : FragFrom(vs, name, FragsOf(vs, name), k, p)
  <1> DEFINE at == Places(vs)
             n == Len(at)
             B(q) == BlockAt(vs, at[q])
             fit(q) == IsPiece(B(q), name)
             rec(q) == [vol |-> at[q][1], off |-> HeaderOff(vs[at[q][1]], at[q][2]) + HeadLen, length |-> B(q).len]
             R == [q \in 1 .. n |-> IF fit(q) THEN <<rec(q)>> ELSE <<>>]
             frags == FragsOf(vs, name)
             S == {rec(q) : q \in 1 .. n}
             lens == [q \in 1 .. n |-> IF fit(q) THEN B(q).len ELSE 0]
             before == Offsets(lens)
             fl == FragLens(frags)
             base == Offsets(fl)
             off == Starts(R, n)
             m == Len(frags)
  <1>1. at \in Seq(PlaceIn(vs))
    BY PlacesAre
  <1>2. n \in Nat /\ \A q \in 1 .. n : at[q] \in PlaceIn(vs)
    <2> HIDE DEF at
    <2> QED
      BY <1>1, ElementOfSeq
  <1>3. \A q \in 1 .. n : B(q).len \in Nat
    <2> TAKE q \in 1 .. n
    <2> DEFINE k == at[q][1]
               i == at[q][2]
    <2>1. k \in 1 .. Len(vs) /\ i \in 1 .. Len(vs[k].blocks) /\ B(q) = vs[k].blocks[i]
      BY <1>2 DEF PlaceIn, BlockAt
    <2> HIDE DEF k, i, B
    <2>2. RarVol(F, vs[k]) /\ BlockIn(vs[k], i)
      BY <2>1 DEF RarRow, BlockIn
    <2>3. vs[k].blocks[i].len \in Nat
      BY <2>2, BlockIs
    <2> QED
      BY <2>1, <2>3
  <1>4. frags = FlattenSeq(R)
    <2>1. ASSUME NEW q \in 1 .. n PROVE at[q][2] \in Walked(vs[at[q][1]])
      <3> DEFINE k == at[q][1]
                 i == at[q][2]
      <3>1. k \in 1 .. Len(vs) /\ i \in 1 .. Len(vs[k].blocks)
        BY <1>2 DEF PlaceIn
      <3> HIDE DEF k, i
      <3>2. RarVol(F, vs[k])
        BY <3>1 DEF RarRow
      <3>3. Walked(vs[k]) = 1 .. Len(vs[k].blocks)
        BY <3>2, VolumeIs
      <3> QED
        BY <3>1, <3>3 DEF k, i
    <2> DEFINE Frag(p) == IF p[2] \in Walked(vs[p[1]]) /\ IsPiece(BlockAt(vs, p), name)
                   THEN <<[vol |-> p[1], off |-> HeaderOff(vs[p[1]], p[2]) + HeadLen,
                           length |-> BlockAt(vs, p).len]>>
                   ELSE <<>>
    <2>2. frags = FlattenSeq([q \in 1 .. n |-> Frag(at[q])])
      BY DEF FragsOf
    <2>3. \A q \in 1 .. n : Frag(at[q]) = IF fit(q) THEN <<rec(q)>> ELSE <<>>
      BY <2>1
    <2> HIDE DEF Frag, fit, rec, n, at
    <2>4. [q \in 1 .. n |-> Frag(at[q])] = R
      BY <2>3
    <2> QED
      BY <2>2, <2>4
  <1>5. \A q \in 1 .. n : /\ fit(q) => R[q] = <<rec(q)>>
                          /\ ~fit(q) => R[q] = <<>>
    OBVIOUS
  <1>6. \A q \in 1 .. n : rec(q) \in S /\ rec(q).length = B(q).len
    OBVIOUS
  <1>7. \A x \in S : x.length \in Nat
    BY <1>3
  <1>8. Len(R) = n /\ (n = 0 => R = <<>>)
    BY <1>2
  <1>9. \A q \in 1 .. n : fit(q) => (B(q).from = before[q])
    <2> SUFFICES ASSUME NEW q \in 1 .. n, fit(q) PROVE B(q).from = before[q]
      OBVIOUS
    <2>1. name \in UNION {{b.file : b \in ToSet(vs[k].blocks)} : k \in 1 .. Len(vs)}
      <3> DEFINE k == at[q][1]
                 i == at[q][2]
      <3>1. k \in 1 .. Len(vs) /\ i \in 1 .. Len(vs[k].blocks) /\ B(q) = vs[k].blocks[i]
        BY <1>2 DEF PlaceIn, BlockAt
      <3>2. B(q).file = name
        BY DEF IsPiece
      <3> HIDE DEF k, i, B
      <3>3. vs[k].blocks[i] \in ToSet(vs[k].blocks)
        <4>1. RarVol(F, vs[k])
          BY <3>1 DEF RarRow
        <4>2. i \in DOMAIN vs[k].blocks
          BY <3>1, <4>1 DEF RarVol
        <4> QED
          BY <4>2 DEF ToSet
      <3>4. name \in {b.file : b \in ToSet(vs[k].blocks)}
        BY <3>1, <3>2, <3>3
      <3> QED
        BY <3>1, <3>4
    <2>2. \A x \in 1 .. n : IsPiece(B(x), name) => B(x).from = before[x]
      BY <2>1 DEF Consecutive
    <2> QED
      BY <2>2
  <1> HIDE DEF n, R, S, rec, fit, lens, B, frags, at
  <1>10. /\ LaidOut(S, n, R, off)
    <2>1. ASSUME NEW q \in 1 .. n PROVE R[q] \in Seq(S)
      <3>1. CASE fit(q)
        <4>1. R[q] = <<rec(q)>> /\ rec(q) \in S
          BY <1>5, <1>6, <3>1
        <4> QED
          BY <4>1, OneThing
      <3>2. CASE ~fit(q)
        BY <1>5, <3>2, EmptySeq
      <3> QED
        BY <3>1, <3>2
    <2>2. Rows(S, n, R)
      BY <1>2, <1>8, <2>1 DEF Rows
    <2> QED
      BY <2>2, RowsLie
  <1> HIDE DEF off
  <1>11. /\ frags \in Seq(S) /\ m = off[n] /\ m \in Nat
         /\ \A q \in 1 .. n : \A j \in 1 .. Len(R[q]) :
              off[q - 1] + j \in 1 .. off[n] /\ frags[off[q - 1] + j] = R[q][j]
    <2>1. /\ frags \in Seq(S) /\ m = off[n]
         /\ \A q \in 1 .. n : \A j \in 1 .. Len(R[q]) :
              off[q - 1] + j \in 1 .. off[n] /\ frags[off[q - 1] + j] = R[q][j]
      BY <1>4, <1>10, FlattenFinds
    <2> QED
      BY <2>1
  <1>12. Lengths(fl, m)
    <2>1. \A j \in 1 .. m : fl[j] = frags[j].length
      BY DEF FragLens
    <2>2. \A j \in 1 .. m : frags[j] \in S
      BY <1>11, ElementOfSeq
    <2>3. Len(fl) = m
      BY <1>11 DEF FragLens
    <2> QED
      BY <1>7, <1>11, <2>1, <2>2, <2>3 DEF Lengths
  <1>13. \A j \in 1 .. m : fl[j] = frags[j].length
    BY DEF FragLens
  <1> HIDE DEF fl, m
  <1>14. /\ base[1] = 0 /\ \A j \in 1 .. m : base[j + 1] = base[j] + fl[j]
    BY <1>12, OffsetsAre
  <1>15. /\ before[1] = 0 /\ \A q \in 1 .. n : before[q + 1] = before[q] + lens[q]
         /\ \A q \in 1 .. n + 1 : before[q] \in Nat
    <2>1. Lengths(lens, n)
      <3>1. \A q \in 1 .. n : lens[q] \in Nat
        BY <1>3 DEF lens
      <3>2. Len(lens) = n
        BY <1>2 DEF lens
      <3> QED
        BY <1>2, <3>1, <3>2 DEF Lengths
    <2> QED
      BY <2>1, OffsetsAre
  <1>16. \A q \in 1 .. n : (fit(q) => lens[q] = B(q).len) /\ (~fit(q) => lens[q] = 0)
    BY DEF lens
  <1> HIDE DEF base, before
  <1>17. /\ off[0] = 0 /\ \A q \in 0 .. n : off[q] \in Nat
         /\ \A q \in 1 .. n : off[q] = off[q - 1] + Len(R[q])
    BY <1>10, LaidNats DEF LaidOut
  <1>18. \A q \in 0 .. n : base[off[q] + 1] = before[q + 1]
    <2> DEFINE Bad == {q \in 0 .. n : base[off[q] + 1] # before[q + 1]}
    <2> SUFFICES ASSUME Bad # {} PROVE FALSE
      OBVIOUS
    <2>1. PICK q \in Bad : \A x \in Bad : q <= x
      <3>1. Bad \subseteq Nat
        BY <1>2
      <3> HIDE DEF Bad
      <3> QED
        BY <3>1, LeastOf
    <2>2. q \in 0 .. n /\ base[off[q] + 1] # before[q + 1]
      BY <2>1
    <2>3. q # 0
      <3>1. off[0] + 1 = 1 /\ 0 + 1 = 1
        BY <1>17
      <3> QED
        BY <1>14, <1>15, <2>2, <3>1
    <2> DEFINE x == q - 1
    <2>4. x \in 0 .. n /\ x + 1 = q /\ q \in 1 .. n /\ ~(q <= x) /\ q - 1 = x
      BY <1>2, <2>2, <2>3
    <2> HIDE DEF x
    <2>5. base[off[x] + 1] = before[q]
      BY <2>1, <2>4
    <2>6. off[q] = off[x] + Len(R[q]) /\ off[x] \in Nat
      BY <1>17, <2>4
    <2>7. before[q + 1] = before[q] + lens[q] /\ before[q] \in Nat
      <3>1. q \in 1 .. n + 1
        BY <1>2, <2>4
      <3> QED
        BY <1>15, <2>4, <3>1
    <2>8. CASE fit(q)
      <3>1. R[q] = <<rec(q)>> /\ Len(R[q]) = 1 /\ R[q][1] = rec(q) /\ lens[q] = B(q).len
        <4>1. R[q] = <<rec(q)>> /\ rec(q) \in S /\ lens[q] = B(q).len
          BY <1>5, <1>6, <1>16, <2>4, <2>8
        <4> QED
          BY <4>1, OneThing
      <3>2. off[x] + 1 \in 1 .. m /\ frags[off[x] + 1] = rec(q)
        <4>1. 1 \in 1 .. Len(R[q])
          BY <3>1
        <4> QED
          BY <1>11, <2>4, <3>1, <4>1
      <3>3. base[(off[x] + 1) + 1] = base[off[x] + 1] + B(q).len
        BY <1>6, <1>13, <1>14, <2>4, <3>2
      <3> QED
        BY <2>2, <2>5, <2>6, <2>7, <3>1, <3>3
    <2>9. CASE ~fit(q)
      <3>1. Len(R[q]) = 0 /\ lens[q] = 0
        BY <1>5, <1>16, <2>4, <2>9
      <3>2. off[q] = off[x] /\ before[q + 1] = before[q]
        BY <2>6, <2>7, <3>1
      <3> QED
        BY <2>2, <2>5, <3>2
    <2> QED
      BY <2>8, <2>9
  <1>19. ASSUME NEW k \in 1 .. m PROVE \E p : FragFrom(vs, name, frags, k, p)
    <2>0. PICK q \in 1 .. n : \E j \in 1 .. Len(R[q]) : k = off[q - 1] + j
      BY <1>10, <1>11, LaidOnto
    <2>1. PICK j \in 1 .. Len(R[q]) : k = off[q - 1] + j
      BY <2>0
    <2>2. fit(q) /\ R[q] = <<rec(q)>> /\ Len(R[q]) = 1 /\ j = 1
      <3>1. CASE fit(q)
        <4>0. R[q] = <<rec(q)>> /\ rec(q) \in S
          BY <1>5, <1>6, <3>1
        <4>1. R[q] = <<rec(q)>> /\ Len(R[q]) = 1
          BY <4>0, OneThing
        <4>2. j \in 1 .. 1
          BY <4>1
        <4>3. j = 1
          BY <4>2
        <4> QED
          BY <3>1, <4>1, <4>3
      <3>2. CASE ~fit(q)
        <4>1. Len(R[q]) = 0
          BY <1>5, <3>2
        <4> QED
          BY <4>1
      <3> QED
        BY <3>1, <3>2
    <2>3. frags[k] = rec(q)
      <3>1. 1 \in 1 .. Len(R[q]) /\ R[q][1] = rec(q)
        BY <2>2
      <3> QED
        BY <1>11, <2>1, <2>2, <3>1
    <2>4. base[k] = before[q]
      <3>1. q - 1 \in 0 .. n /\ (q - 1) + 1 = q
        BY <1>2
      <3>2. base[off[q - 1] + 1] = before[(q - 1) + 1]
        BY <1>18, <3>1
      <3> QED
        BY <2>1, <2>2, <3>1, <3>2
    <2>5. B(q).from = base[k]
      BY <1>9, <2>2, <2>4
    <2>6. FragFrom(vs, name, frags, k, at[q])
      BY <1>2, <2>2, <2>3, <2>5 DEF FragFrom, B, fit, rec, base, fl
    <2> QED
      BY <2>6
  <1> QED
    BY <1>12, <1>19 DEF m, fl, frags

-----------------------------------------------------------------------------
(* The order of the volumes.                                               *)

LEMMA NumberIs == ASSUME NEW name \in RarName PROVE RarVolNum(name) \in Nat
  <1>1. name.style \in {"part", "rar", "rNN", "obf"} /\ name.n \in Nat /\ Unnumbered \in Nat
    BY RarAssumption DEF RarName
  <1>2. CASE name.style = "part"
    BY <1>1, <1>2 DEF RarVolNum
  <1>3. CASE name.style = "rar"
    BY <1>1, <1>3 DEF RarVolNum
  <1>4. CASE name.style = "rNN"
    <2>1. RarVolNum(name) = 1 + name.n
      BY <1>4 DEF RarVolNum
    <2> QED
      BY <1>1, <2>1
  <1>5. CASE name.style = "obf"
    BY <1>1, <1>5 DEF RarVolNum
  <1> QED
    BY <1>1, <1>2, <1>3, <1>4, <1>5

\* What RAR names earlier rarVolNum numbers lower.
LEMMA NumbersFollow ==
  ASSUME NEW x \in RarName, NEW y \in RarName, NamedBefore(x, y)
  PROVE  RarVolNum(x) < RarVolNum(y)
  <1>1. x.n \in Nat /\ y.n \in Nat
    BY DEF RarName
  <1>2. CASE x.style = "part" /\ y.style = "part" /\ x.n < y.n
    <2>1. RarVolNum(x) = x.n /\ RarVolNum(y) = y.n
      BY <1>2 DEF RarVolNum
    <2> QED
      BY <1>2, <2>1
  <1>3. CASE x.style = "rNN" /\ y.style = "rNN" /\ x.n < y.n
    <2>1. RarVolNum(x) = 1 + x.n /\ RarVolNum(y) = 1 + y.n
      BY <1>3 DEF RarVolNum
    <2> QED
      BY <1>1, <1>3, <2>1
  <1>4. CASE x.style = "rar" /\ y.style = "rNN"
    <2>1. RarVolNum(x) = 0 /\ RarVolNum(y) = 1 + y.n
      BY <1>4 DEF RarVolNum
    <2> QED
      BY <1>1, <2>1
  <1> QED
    BY <1>2, <1>3, <1>4 DEF NamedBefore

LEMMA BijectionIs ==
  ASSUME NEW I, NEW J, NEW f \in Bijection(I, J)
  PROVE  /\ f \in [I -> J] /\ \A j \in J : \E k \in I : f[k] = j
         /\ \A j, k \in I : f[j] = f[k] => j = k
  <1>1. f \in Injection(I, J) /\ f \in Surjection(I, J)
    BY DEF Bijection
  <1>2. f \in [I -> J] /\ \A j, k \in I : f[j] = f[k] => j = k
    BY <1>1, Fun_InjectionProperties
  <1>3. \A j \in J : \E k \in I : f[k] = j
    BY <1>1, Fun_SurjectionProperties
  <1> QED
    BY <1>2, <1>3

\* Those that a stable sort by number puts before i.
Lower(num, n, i) == {j \in 1 .. n : num[j] < num[i] \/ (num[j] = num[i] /\ j < i)}

LEMMA Ranked ==
  ASSUME NEW n \in Nat, NEW num \in [1 .. n -> Nat], NEW perm \in Bijection(1 .. n, 1 .. n),
         \A k, m \in 1 .. n : k < m => num[perm[k]] < num[perm[m]], NEW m \in 1 .. n
  PROVE  Cardinality(Lower(num, n, perm[m])) + 1 = m
  <1>1. /\ perm \in [1 .. n -> 1 .. n] /\ \A j \in 1 .. n : \E k \in 1 .. n : perm[k] = j
        /\ \A j, k \in 1 .. n : perm[j] = perm[k] => j = k
    <2> DEFINE I == 1 .. n
    <2>1. perm \in Bijection(I, I)
      OBVIOUS
    <2> HIDE DEF I
    <2>2. /\ perm \in [I -> I] /\ \A j \in I : \E k \in I : perm[k] = j
          /\ \A j, k \in I : perm[j] = perm[k] => j = k
      BY <2>1, BijectionIs
    <2> QED
      BY <2>2 DEF I
  <1> DEFINE D == 1 .. (m - 1)
             T == Lower(num, n, perm[m])
             g == [k \in D |-> perm[k]]
  <1>2. D \subseteq 1 .. n /\ \A k \in D : k < m
    OBVIOUS
  <1>3. \A k \in 1 .. n : perm[k] \in T <=> k < m
    <2> TAKE k \in 1 .. n
    <2>1. perm[k] \in 1 .. n /\ perm[m] \in 1 .. n /\ num[perm[k]] \in Nat /\ num[perm[m]] \in Nat
      BY <1>1
    <2>2. perm[k] \in T <=> (num[perm[k]] < num[perm[m]] \/ (num[perm[k]] = num[perm[m]] /\ perm[k] < perm[m]))
      BY <2>1 DEF Lower
    <2>3. CASE k < m
      BY <2>2, <2>3
    <2>4. CASE k = m
      BY <2>1, <2>2, <2>4
    <2>5. CASE m < k
      <3>1. num[perm[m]] < num[perm[k]]
        BY <2>5
      <3> QED
        BY <2>1, <2>2, <2>5, <3>1
    <2> QED
      BY <2>3, <2>4, <2>5
  <1>4. g \in Bijection(D, T)
    <2>1. g \in [D -> T]
      BY <1>2, <1>3
    <2>2. \A j, k \in D : g[j] = g[k] => j = k
      BY <1>1, <1>2
    <2>3. \A t \in T : \E k \in D : g[k] = t
      <3> TAKE t \in T
      <3>1. t \in 1 .. n
        BY DEF Lower
      <3>2. PICK k \in 1 .. n : perm[k] = t
        BY <1>1, <3>1
      <3>3. k < m
        BY <1>3, <3>2
      <3>4. k \in D
        BY <3>3
      <3> QED
        BY <3>2, <3>4
    <2> HIDE DEF g, D, T
    <2> QED
      BY <2>1, <2>2, <2>3, Fun_IsBij
  <1>5. IsFiniteSet(D) /\ Cardinality(D) = m - 1
    <2>1. 1 \in Int /\ m - 1 \in Int /\ m >= 1
      OBVIOUS
    <2>2. IsFiniteSet(D) /\ Cardinality(D) = IF 1 > m - 1 THEN 0 ELSE (m - 1) - 1 + 1
      BY <2>1, FS_Interval
    <2> QED
      BY <2>1, <2>2
  <1>6. Cardinality(T) = Cardinality(D)
    <2>1. ExistsBijection(D, T)
      BY <1>4 DEF ExistsBijection
    <2> HIDE DEF D, T
    <2> QED
      BY <1>5, <2>1, FS_Bijection
  <1> QED
    BY <1>5, <1>6

\* Names, or the par2 set, tell the order.
RarTells(a) == a.par2 \/ \E i \in 1 .. Len(a.volumes) : RarNamed(a.volumes[i].name)
RarFiles(a) == DOMAIN a.sizes \cup {"none", "head", "signature"}

LEMMA ArchiveIs ==
  ASSUME NEW a \in Archives
  PROVE  /\ Len(a.volumes) \in Nat \ {0} /\ \A i \in 1 .. Len(a.volumes) : a.volumes[i] \in RarVolume(a)
         /\ \A i \in 1 .. Len(a.volumes) : RarVol(RarFiles(a), a.volumes[i])
  <1> DEFINE vols == a.volumes
             n == Len(vols)
  <1>1. vols \in Seq(RarVolume(a)) \ {<<>>}
    BY RarAssumption
  <1>2. n \in Nat \ {0}
    <2> HIDE DEF vols
    <2> QED
      BY <1>1, EmptySeq
  <1>3. \A i \in 1 .. n : vols[i] \in RarVolume(a)
    <2> HIDE DEF vols
    <2> QED
      BY <1>1, ElementOfSeq
  <1>4. ASSUME NEW i \in 1 .. n PROVE RarVol(RarFiles(a), vols[i])
    <2> DEFINE v == vols[i]
               S == [type : {"file", "end", "other"}, file : RarFiles(a), from : Nat, len : Nat, stored : BOOLEAN]
    <2>1. v.blocks \in Seq(RarBlock(a)) /\ v.blocks # <<>> /\ v.cut \in Nat
      <3>1. v \in RarVolume(a)
        BY <1>3
      <3> HIDE DEF v
      <3> QED
        BY <3>1 DEF RarVolume
    <2>2. RarBlock(a) \subseteq S
      BY DEF RarBlock, RarFiles
    <2>3. v.blocks \in Seq(S)
      <3> HIDE DEF v, S
      <3> QED
        BY <2>1, <2>2, SeqMonotonic
    <2>4. WellMade(v)
      BY ArchivesPacked DEF RarPacked
    <2> HIDE DEF v
    <2> QED
      <3>1. {"head", "signature"} \subseteq RarFiles(a)
        BY DEF RarFiles
      <3> QED
        BY <2>1, <2>3, <2>4, <3>1, Zenon DEF RarVol, v
  <1> QED
    BY <1>2, <1>3, <1>4

\* The same blocks, in the same places.
LEMMA SameBlocks ==
  ASSUME NEW F, NEW ws, NEW vs, RarRow(F, ws), Len(vs) = Len(ws),
         \A k \in 1 .. Len(ws) : vs[k].blocks = ws[k].blocks, Consecutive(ws)
  PROVE  Consecutive(vs)
  <1> DEFINE at == Places(ws)
             m == Len(at)
             n == Len(ws)
             B(q) == BlockAt(ws, at[q])
             C(q) == BlockAt(vs, at[q])
  <1>1. Places(vs) = at
    <2>1. \A k \in 1 .. n : [i \in 1 .. Len(vs[k].blocks) |-> <<k, i>>] = [i \in 1 .. Len(ws[k].blocks) |-> <<k, i>>]
      OBVIOUS
    <2>2. [k \in 1 .. n |-> [i \in 1 .. Len(vs[k].blocks) |-> <<k, i>>]]
            = [k \in 1 .. n |-> [i \in 1 .. Len(ws[k].blocks) |-> <<k, i>>]]
      BY <2>1
    <2> QED
      BY <2>2 DEF Places
  <1>2. \A q \in 1 .. m : at[q] \in PlaceIn(ws)
    <2>1. at \in Seq(PlaceIn(ws))
      BY PlacesAre
    <2> HIDE DEF at
    <2> QED
      BY <2>1, ElementOfSeq
  <1>3. \A q \in 1 .. m : B(q) = C(q)
    BY <1>2 DEF PlaceIn, BlockAt
  <1>4. UNION {{b.file : b \in ToSet(vs[k].blocks)} : k \in 1 .. Len(vs)}
          = UNION {{b.file : b \in ToSet(ws[k].blocks)} : k \in 1 .. n}
    <2>1. \A k \in 1 .. n : {b.file : b \in ToSet(vs[k].blocks)} = {b.file : b \in ToSet(ws[k].blocks)}
      OBVIOUS
    <2> QED
      BY <2>1
  <1> DEFINE before(f) == Offsets([q \in 1 .. m |-> IF IsPiece(B(q), f) THEN B(q).len ELSE 0])
             after(f) == Offsets([q \in 1 .. m |-> IF IsPiece(C(q), f) THEN C(q).len ELSE 0])
             Fs == UNION {{b.file : b \in ToSet(ws[k].blocks)} : k \in 1 .. n}
  <1>5. \A f \in Fs : \A q \in 1 .. m : IsPiece(B(q), f) => B(q).from = before(f)[q]
    BY DEF Consecutive
  <1>6. \A f : before(f) = after(f)
    <2> TAKE f
    <2>1. \A q \in 1 .. m : (IF IsPiece(B(q), f) THEN B(q).len ELSE 0) = IF IsPiece(C(q), f) THEN C(q).len ELSE 0
      BY <1>3
    <2> HIDE DEF B, C, m
    <2>2. [q \in 1 .. m |-> IF IsPiece(B(q), f) THEN B(q).len ELSE 0]
            = [q \in 1 .. m |-> IF IsPiece(C(q), f) THEN C(q).len ELSE 0]
      BY <2>1
    <2> QED
      BY <2>2
  <1>7. \A f \in Fs : \A q \in 1 .. m : IsPiece(C(q), f) => C(q).from = after(f)[q]
    BY <1>3, <1>5, <1>6
  <1> QED
    BY <1>1, <1>4, <1>7 DEF Consecutive

LEMMA OrderIs ==
  ASSUME NEW a \in Archives, RarTells(a)
  PROVE  /\ RarRow(RarFiles(a), OrderVolumes(a))
         /\ Consecutive(OrderVolumes(a))
  <1> DEFINE vols == a.volumes
             n == Len(vols)
             vs == Deobfuscated(a)
             num == [i \in 1 .. n |-> RarVolNum(vs[i].name)]
             ov == OrderVolumes(a)
  <1>1. /\ n \in Nat \ {0} /\ \A i \in 1 .. n : vols[i] \in RarVolume(a)
        /\ \A i \in 1 .. n : RarVol(RarFiles(a), vols[i])
    BY ArchiveIs
  <1>2. PICK perm \in Bijection(1 .. n, 1 .. n) :
          /\ Ascending([k \in 1 .. n |-> vols[perm[k]].real])
          /\ (\E i \in 1 .. n : RarNamed(vols[i].name)) => Ascending([k \in 1 .. n |-> vols[perm[k]].name])
          /\ Consecutive([k \in 1 .. n |-> vols[perm[k]]])
    BY ArchivesPacked DEF RarPacked
  <1> DEFINE ws == [k \in 1 .. n |-> vols[perm[k]]]
  <1>3. /\ perm \in [1 .. n -> 1 .. n] /\ \A j \in 1 .. n : \E k \in 1 .. n : perm[k] = j
    <2> DEFINE I == 1 .. n
    <2>1. perm \in Bijection(I, I)
      OBVIOUS
    <2> HIDE DEF I
    <2>2. perm \in [I -> I] /\ \A j \in I : \E k \in I : perm[k] = j
      BY <2>1, BijectionIs
    <2> QED
      BY <2>2 DEF I
  <1>4. /\ Len(vs) = n
        /\ \A i \in 1 .. n : vs[i].blocks = vols[i].blocks /\ vs[i].cut = vols[i].cut /\ vs[i].name \in RarName
        /\ \A k, m \in 1 .. n : k < m => RarVolNum(vs[perm[k]].name) < RarVolNum(vs[perm[m]].name)
    <2>0. \A i \in 1 .. n : vols[i].name \in RarName /\ vols[i].real \in RarName
      <3> TAKE i \in 1 .. n
      <3> DEFINE v == vols[i]
      <3>1. v \in RarVolume(a)
        BY <1>1
      <3> HIDE DEF v
      <3>2. v.name \in RarName /\ v.real \in RarName
        BY <3>1 DEF RarVolume
      <3> QED
        BY <3>2 DEF v
    <2>1. CASE \E i \in 1 .. n : RarNamed(vols[i].name)
      <3>1. vs = vols
        BY <2>1 DEF Deobfuscated
      <3>2. Ascending([k \in 1 .. n |-> vols[perm[k]].name])
        BY <1>2, <2>1
      <3>3. \A k, m \in 1 .. n : k < m => RarVolNum(vols[perm[k]].name) < RarVolNum(vols[perm[m]].name)
        <4>1. \A k \in 1 .. n : vols[perm[k]].name \in RarName
          BY <1>3, <2>0
        <4> HIDE DEF vols, n
        <4> QED
          BY <3>2, <4>1, NumbersFollow DEF Ascending
      <3> QED
        BY <2>0, <3>1, <3>3
    <2>2. CASE ~\E i \in 1 .. n : RarNamed(vols[i].name)
      <3>1. a.par2
        BY <2>2 DEF RarTells
      <3>2. vs = [i \in 1 .. n |-> [vols[i] EXCEPT !.name = vols[i].real]]
        BY <2>2, <3>1 DEF Deobfuscated
      <3>3. ASSUME NEW i \in 1 .. n PROVE vs[i].blocks = vols[i].blocks /\ vs[i].cut = vols[i].cut /\ vs[i].name = vols[i].real
        <4> DEFINE v == vols[i]
        <4>1. v \in RarVolume(a) /\ vs[i] = [v EXCEPT !.name = v.real]
          BY <1>1, <3>2
        <4> HIDE DEF v, vs
        <4>2. [v EXCEPT !.name = v.real].blocks = v.blocks /\ [v EXCEPT !.name = v.real].cut = v.cut
              /\ [v EXCEPT !.name = v.real].name = v.real
          BY <4>1 DEF RarVolume
        <4> QED
          BY <4>1, <4>2 DEF v
      <3>4. \A k, m \in 1 .. n : k < m => RarVolNum(vols[perm[k]].real) < RarVolNum(vols[perm[m]].real)
        <4>1. \A k \in 1 .. n : vols[perm[k]].real \in RarName
          BY <1>3, <2>0
        <4> HIDE DEF vols, n
        <4> QED
          BY <1>2, <4>1, NumbersFollow DEF Ascending
      <3>5. \A k \in 1 .. n : vs[perm[k]].name = vols[perm[k]].real
        BY <1>3, <3>3
      <3>6. Len(vs) = n
        BY <1>1, <3>2
      <3> HIDE DEF vs, n, vols
      <3>7. \A i \in 1 .. n : vs[i].name \in RarName
        BY <2>0, <3>3
      <3>8. \A k, m \in 1 .. n : k < m => RarVolNum(vs[perm[k]].name) < RarVolNum(vs[perm[m]].name)
        BY <3>4, <3>5
      <3> QED
        BY <3>3, <3>6, <3>7, <3>8
    <2> QED
      BY <2>1, <2>2
  <1> DEFINE Rank(i) == Cardinality({j \in 1 .. n : num[j] < num[i] \/ (num[j] = num[i] /\ j < i)}) + 1
             best(k) == CHOOSE i \in 1 .. n : Rank(i) = k
  <1>5. ov = [k \in 1 .. n |-> vs[best(k)]]
    <2> DEFINE l == Len(vs)
               Rank2(i) == Cardinality({j \in 1 .. l : \/ RarVolNum(vs[j].name) < RarVolNum(vs[i].name)
                                                       \/ RarVolNum(vs[j].name) = RarVolNum(vs[i].name) /\ j < i}) + 1
               best2(k) == CHOOSE i \in 1 .. l : Rank2(i) = k
    <2>1. ov = [k \in 1 .. l |-> vs[best2(k)]]
      BY Zenon DEF OrderVolumes
    <2>2. l = n
      BY <1>4
    <2> HIDE DEF l, n
    <2>3. \A i \in 1 .. n : Rank(i) = Rank2(i)
      <3> TAKE i \in 1 .. n
      <3>1. {j \in 1 .. n : num[j] < num[i] \/ (num[j] = num[i] /\ j < i)}
              = {j \in 1 .. l : \/ RarVolNum(vs[j].name) < RarVolNum(vs[i].name)
                                \/ RarVolNum(vs[j].name) = RarVolNum(vs[i].name) /\ j < i}
        <4> HIDE DEF vs
        <4> QED
          BY <2>2
      <3> QED
        BY <3>1
    <2> HIDE DEF Rank, Rank2, vs
    <2>4. \A k \in 1 .. n : best(k) = best2(k)
      <3> TAKE k \in 1 .. n
      <3>1. \A i : (i \in 1 .. n /\ Rank(i) = k) <=> (i \in 1 .. l /\ Rank2(i) = k)
        BY <2>2, <2>3
      <3> QED
        BY <3>1
    <2> HIDE DEF best, best2
    <2> QED
      BY <2>1, <2>2, <2>4
  <1>6. \A m \in 1 .. n : Rank(perm[m]) = m
    <2>1. num \in [1 .. n -> Nat]
      <3> HIDE DEF vs, n
      <3> QED
        BY <1>4, NumberIs
    <2>2. \A k, m \in 1 .. n : k < m => num[perm[k]] < num[perm[m]]
      <3> HIDE DEF vs, n
      <3> QED
        BY <1>3, <1>4
    <2>3. \A i : Rank(i) = Cardinality(Lower(num, n, i)) + 1
      BY DEF Lower
    <2> HIDE DEF num, Rank, n
    <2> QED
      BY <1>1, <2>1, <2>2, <2>3, Ranked
  <1>7. \A k \in 1 .. n : best(k) = perm[k]
    <2> HIDE DEF Rank, n
    <2> TAKE k \in 1 .. n
    <2>1. perm[k] \in 1 .. n /\ Rank(perm[k]) = k
      BY <1>3, <1>6
    <2>2. \A i \in 1 .. n : Rank(i) = k => i = perm[k]
      <3> TAKE i \in 1 .. n
      <3>1. PICK m \in 1 .. n : perm[m] = i
        BY <1>3
      <3> QED
        BY <1>6, <3>1
    <2> QED
      BY <2>1, <2>2
  <1>8. /\ Len(ov) = n
        /\ \A k \in 1 .. n : ov[k].blocks = ws[k].blocks /\ ov[k].cut = ws[k].cut
    <2> HIDE DEF best, vs, ov, vols, n
    <2>1. \A k \in 1 .. n : ov[k] = vs[perm[k]] /\ ws[k] = vols[perm[k]] /\ perm[k] \in 1 .. n
      BY <1>3, <1>5, <1>7
    <2>2. Len(ov) = n
      BY <1>1, <1>5
    <2>3. \A k \in 1 .. n : ov[k].blocks = ws[k].blocks /\ ov[k].cut = ws[k].cut
      BY <1>4, <2>1
    <2> QED
      BY <2>2, <2>3
  <1>9. Len(ws) = n /\ \A k \in 1 .. n : RarVol(RarFiles(a), ws[k])
    <2>1. \A k \in 1 .. n : ws[k] = vols[perm[k]] /\ perm[k] \in 1 .. n
      BY <1>3
    <2>2. Len(ws) = n
      BY <1>1
    <2> HIDE DEF vols, n, ws
    <2> QED
      BY <1>1, <2>1, <2>2
  <1> HIDE DEF ov, ws, n
  <1>10. RarRow(RarFiles(a), ws)
    BY <1>1, <1>9 DEF RarRow
  <1>11. Consecutive(ov)
    <2>1. Consecutive(ws)
      BY <1>2 DEF ws, n
    <2> QED
      BY <1>8, <1>9, <1>10, <2>1, SameBlocks
  <1>12. RarRow(RarFiles(a), ov)
    <2>1. ASSUME NEW k \in 1 .. n PROVE RarVol(RarFiles(a), ov[k])
      BY <1>8, <1>9 DEF RarVol, WellMade
    <2> QED
      BY <1>1, <1>8, <2>1 DEF RarRow
  <1> QED
    BY <1>11, <1>12 DEF ov

-----------------------------------------------------------------------------
(* The reads of the file inside.                                           *)

LEMMA Largest ==
  ASSUME NEW D, IsFiniteSet(D), NEW h \in [D -> Nat], NEW T, T \subseteq D, T # {}
  PROVE  \E x \in T : \A y \in T : h[y] <= h[x]
  <1> DEFINE c == Cardinality(T)
  <1>1. c \in Nat /\ ExistsBijection(1 .. c, T)
    <2>1. IsFiniteSet(T)
      BY FS_Subset
    <2> QED
      BY <2>1, FS_CardinalityType
  <1>2. PICK g : g \in Bijection(1 .. c, T)
    BY <1>1 DEF ExistsBijection
  <1>3. g \in [1 .. c -> T] /\ \A t \in T : \E s \in 1 .. c : g[s] = t
    <2> DEFINE I == 1 .. c
    <2>1. g \in Bijection(I, T)
      BY <1>2
    <2> HIDE DEF I
    <2>2. g \in [I -> T] /\ \A t \in T : \E s \in I : g[s] = t
      BY <2>1, BijectionIs
    <2> QED
      BY <2>2 DEF I
  <1> HIDE DEF c
  <1> DEFINE k(x) == h[g[x]]
             Bad == {m \in 1 .. c : ~\E x \in 1 .. m : \A y \in 1 .. m : k(y) <= k(x)}
  <1>4. \A x \in 1 .. c : g[x] \in T /\ k(x) \in Nat
    BY <1>3
  <1> HIDE DEF k
  <1>5. Bad = {}
    <2> SUFFICES ASSUME Bad # {} PROVE FALSE
      OBVIOUS
    <2>1. PICK m \in Bad : \A x \in Bad : m <= x
      <3>1. Bad \subseteq Nat
        BY <1>1
      <3> HIDE DEF Bad
      <3> QED
        BY <3>1, LeastOf
    <2>2. m \in 1 .. c /\ ~\E x \in 1 .. m : \A y \in 1 .. m : k(y) <= k(x)
      BY <2>1
    <2>3. CASE m = 1
      <3>1. 1 \in 1 .. m /\ \A y \in 1 .. m : y = 1
        BY <2>3
      <3>2. k(1) <= k(1)
        BY <1>4, <2>2, <2>3
      <3> QED
        BY <2>2, <3>1, <3>2
    <2>4. CASE m # 1
      <3> DEFINE l == m - 1
      <3>1. l \in 1 .. c /\ l < m /\ m \in Nat /\ l \in Nat /\ \A y \in 1 .. m : y = m \/ y \in 1 .. l
        BY <1>1, <2>2, <2>4
      <3> HIDE DEF l
      <3>2. \E x \in 1 .. l : \A y \in 1 .. l : k(y) <= k(x)
        <4>1. l \notin Bad
          BY <2>1, <2>2, <3>1
        <4> QED
          BY <3>1, <4>1
      <3>3. PICK x \in 1 .. l : \A y \in 1 .. l : k(y) <= k(x)
        BY <3>2
      <3>4. x \in 1 .. m /\ m \in 1 .. m /\ \A y \in 1 .. m : y \in 1 .. c
        <4>1. m \in Nat /\ 1 <= m /\ m <= c /\ x \in Nat /\ 1 <= x /\ x <= l
          BY <1>1, <2>2, <3>1
        <4>2. x \in 1 .. m
          BY <3>1, <4>1
        <4>3. m \in 1 .. m
          BY <4>1
        <4>4. \A y \in 1 .. m : y \in 1 .. c
          BY <1>1, <4>1
        <4> QED
          BY <4>2, <4>3, <4>4
      <3>5. CASE k(m) <= k(x)
        <4>1. \A y \in 1 .. m : k(y) <= k(x)
          BY <3>1, <3>3, <3>5
        <4> QED
          BY <2>2, <3>4, <4>1
      <3>6. CASE ~(k(m) <= k(x))
        <4>1. \A y \in 1 .. m : k(y) <= k(m)
          <5> TAKE y \in 1 .. m
          <5>1. k(m) \in Nat /\ k(x) \in Nat /\ k(y) \in Nat
            BY <1>4, <2>2, <3>4
          <5>2. CASE y = m
            BY <5>1, <5>2
          <5>3. CASE y \in 1 .. l
            BY <3>3, <3>6, <5>1, <5>3
          <5> QED
            BY <3>1, <5>2, <5>3
        <4> QED
          BY <2>2, <3>4, <4>1
      <3> QED
        BY <3>5, <3>6
    <2> QED
      BY <2>3, <2>4
  <1>6. c \in 1 .. c
    <2>1. c # 0
      <3>1. PICK t \in T : TRUE
        OBVIOUS
      <3>2. PICK s \in 1 .. c : g[s] = t
        BY <1>3, <3>1
      <3> QED
        BY <1>1, <3>2
    <2> QED
      BY <1>1, <2>1
  <1>7. PICK x \in 1 .. c : \A y \in 1 .. c : k(y) <= k(x)
    BY <1>5, <1>6
  <1>8. g[x] \in T /\ \A t \in T : h[t] <= h[g[x]]
    BY <1>3, <1>4, <1>7 DEF k
  <1> QED
    BY <1>8

\* What is picked is one of the files inside.
LEMMA PickedIs ==
  ASSUME rar \in Archives, entries = Open(rar), Inner(entries) # {}
  PROVE  Picked.frags = FragsOf(OrderVolumes(rar), Picked.name)
  <1> DEFINE a == rar
             fit == {e \in entries : e.streamable /\ e.name \in rar.videos}
             best == CHOOSE e \in fit : \A d \in fit : d.size <= e.size
             D == DOMAIN rar.sizes
             h == [f \in D |-> rar.sizes[f]]
             T == {e.name : e \in fit}
  <1>1. \A e \in entries : e.frags = FragsOf(OrderVolumes(rar), e.name) /\ e.size = rar.sizes[e.name]
    BY DEF Open
  <1>2. fit # {} /\ Inner(entries) = {best}
    BY DEF Inner
  <1>3. IsFiniteSet(D) /\ h \in [D -> Nat] /\ rar.videos \subseteq D
    BY RarAssumption
  <1>4. T \subseteq D /\ T # {}
    BY <1>2, <1>3
  <1>5. \A e \in fit : h[e.name] = e.size
    BY <1>1, <1>3
  <1>6. \E e \in fit : \A d \in fit : d.size <= e.size
    <2>1. PICK x \in T : \A y \in T : h[y] <= h[x]
      <3> HIDE DEF T, h, D
      <3> QED
        BY <1>3, <1>4, Largest
    <2>2. PICK e \in fit : e.name = x
      OBVIOUS
    <2>3. \A d \in fit : h[d.name] <= h[e.name]
      BY <2>1, <2>2
    <2> HIDE DEF fit, h
    <2> QED
      BY <1>5, <2>3
  <1>7. best \in fit
    <2> HIDE DEF fit
    <2> QED
      BY <1>6
  <1>8. Picked = best
    <2> HIDE DEF best
    <2> QED
      BY <1>2 DEF Picked
  <1>9. best \in entries
    BY <1>7
  <1> HIDE DEF best
  <1> QED
    BY <1>1, <1>8, <1>9

\* The bytes W at off on, as many as there are, are those of the file at base on.
FragBytes(W, name, off, length, base) ==
  \A d \in 0 .. length - 1 : off + (d + 1) <= Len(W) => W[off + (d + 1)] = <<name, base + d>>

\* The volume of piece k of a file holds it.
FragHolds(F, vs, name, frags, k) ==
  LET f    == frags[k]
      base == Offsets(FragLens(frags))
      W    == VolumeBytes(vs[f.vol])
  IN /\ f.off \in Nat /\ f.length \in Nat /\ base[k] \in Nat /\ base[k + 1] = base[k] + f.length
     /\ W \in Seq(F \X Nat) /\ FragBytes(W, name, f.off, f.length, base[k])

LEMMA FragIs ==
  ASSUME NEW F, NEW vs, RarRow(F, vs), Consecutive(vs), NEW name, NEW k \in 1 .. Len(FragsOf(vs, name))
  PROVE  FragHolds(F, vs, name, FragsOf(vs, name), k)
  <1> DEFINE frags == FragsOf(vs, name)
             base == Offsets(FragLens(frags))
             m == Len(frags)
  <1>1. Lengths(FragLens(frags), m)
    BY FragsAre
  <1>2. PICK p : FragFrom(vs, name, frags, k, p)
    BY FragsAre
  <1> DEFINE v == vs[p[1]]
             i == p[2]
             b == v.blocks[i]
  <1>3. /\ p[1] \in 1 .. Len(vs) /\ i \in 1 .. Len(v.blocks) /\ b.file = name
        /\ frags[k] = [vol |-> p[1], off |-> HeaderOff(v, i) + HeadLen, length |-> b.len]
        /\ b.from = base[k]
    BY <1>2 DEF FragFrom, PlaceIn, BlockAt, IsPiece
  <1>4. RarVol(F, v)
    BY <1>3 DEF RarRow
  <1>5. FragLens(frags)[k] = frags[k].length
    BY DEF FragLens
  <1>6. k \in 1 .. m
    OBVIOUS
  <1> HIDE DEF frags, base, m
  <1>7. base[k] \in Nat /\ base[k + 1] = base[k] + frags[k].length
    <2>1. m \in Nat
      BY <1>1 DEF Lengths
    <2>2. k \in 1 .. m + 1
      BY <1>6, <2>1
    <2> QED
      BY <1>1, <1>5, <1>6, <2>2, OffsetsAre DEF base
  <1> HIDE DEF v, i
  <1>8. BlockIn(v, i)
    BY <1>3 DEF BlockIn
  <1>9. b.len \in Nat /\ HeadLen \in Nat /\ HeaderOff(v, i) \in Nat
    <2>1. i \in 1 .. Len(v.blocks) + 1
      BY <1>3, <1>4, VolumeLen
    <2> QED
      BY <1>4, <1>8, <2>1, BlockIs, HeadersAre, RarAssumption
  <1> DEFINE W == VolumeBytes(v)
             o == HeaderOff(v, i) + HeadLen
  <1>10. W \in Seq(F \X Nat)
    BY <1>4, VolumeIs
  <1>11. FragBytes(W, name, o, b.len, base[k])
    <2>1. \A d \in 0 .. b.len - 1 : o + (d + 1) <= Len(W) => W[o + (d + 1)] = <<b.file, b.from + d>>
      <3>1. \A d \in 0 .. v.blocks[i].len - 1 :
              HeaderOff(v, i) + HeadLen + (d + 1) <= Len(VolumeBytes(v)) => ByteAt(v, VolumeBytes(v), i, d)
        BY <1>3, <1>4, VolumeIs
      <3> QED
        BY <3>1 DEF ByteAt
    <2> QED
      BY <1>3, <2>1 DEF FragBytes
  <1>12. frags[k].off = o /\ frags[k].length = b.len /\ VolumeBytes(vs[frags[k].vol]) = W /\ o \in Nat
    BY <1>3, <1>9 DEF v
  <1> HIDE DEF W, o, b
  <1> QED
    BY <1>7, <1>9, <1>10, <1>11, <1>12 DEF FragHolds, frags, base

\* Count bytes of the file at here on.
FileBytes(name, here, count) == [i \in 1 .. count |-> <<name, here + i - 1>>]

\* Want bytes from here on are in the piece at base.
InPiece(S, W, name, off, length, base, here, want) ==
  /\ W \in Seq(S) /\ FragBytes(W, name, off, length, base)
  /\ {off, length, base, here, want} \subseteq Nat /\ base <= here /\ here + want <= base + length

LEMMA RoundGets ==
  ASSUME NEW S, NEW W, NEW name, NEW off, NEW length, NEW base, NEW here, NEW want,
         InPiece(S, W, name, off, length, base, here, want), NEW from, from = off + (here - base)
  PROVE  \E count \in Nat : SubSeq(W, from + 1, Least(from + want, Len(W))) = FileBytes(name, here, count)
  <1> DEFINE x == here - base
             lo == from + 1
             hi == Least(from + want, Len(W))
             got == SubSeq(W, lo, hi)
             count == IF lo <= hi THEN hi - lo + 1 ELSE 0
  <1>0. /\ W \in Seq(S) /\ off \in Nat /\ length \in Nat /\ base \in Nat /\ here \in Nat /\ want \in Nat
        /\ FragBytes(W, name, off, length, base) /\ base <= here /\ here + want <= base + length
    BY DEF InPiece
  <1>1. x \in Nat /\ from \in Nat /\ from = off + x /\ here = base + x /\ Len(W) \in Nat
    BY <1>0
  <1>2. hi \in Nat /\ hi <= from + want /\ hi <= Len(W)
    <2> DEFINE l == Len(W)
    <2> HIDE DEF l
    <2>1. l \in Nat
      BY <1>1 DEF l
    <2>2. LET r == Least(from + want, l) IN r \in Nat /\ r <= from + want /\ r <= l
      BY <1>0, <1>1, <2>1 DEF Least
    <2> QED
      BY <2>2 DEF l
  <1> HIDE DEF x, hi
  <1>3. lo \in Int /\ hi \in Int /\ count \in Nat
    BY <1>1, <1>2
  <1>4. \A j \in lo .. hi : W[j] \in S
    <2>1. \A j \in lo .. hi : j \in 1 .. Len(W)
      BY <1>1, <1>2
    <2> QED
      BY <1>0, <2>1, ElementOfSeq
  <1>5. got \in Seq(S) /\ Len(got) = count /\ \A i \in 1 .. hi - lo + 1 : got[i] = W[lo + i - 1]
    BY <1>3, <1>4, SubSeqProperties
  <1>6. ASSUME NEW i \in 1 .. count PROVE got[i] = <<name, here + i - 1>>
    <2> DEFINE d == x + i - 1
    <2>1. i \in 1 .. hi - lo + 1 /\ i \in Nat /\ lo <= hi
      BY <1>3
    <2>2. d \in 0 .. length - 1 /\ lo + i - 1 = off + (d + 1) /\ off + (d + 1) <= Len(W) /\ base + d = here + i - 1
      BY <1>0, <1>1, <1>2, <2>1
    <2> HIDE DEF d
    <2>3. W[off + (d + 1)] = <<name, base + d>>
      BY <1>0, <2>2 DEF FragBytes
    <2> QED
      BY <1>5, <2>1, <2>2, <2>3
  <1> HIDE DEF got, count, lo
  <1>7. got = FileBytes(name, here, count)
    <2>1. got = [i \in 1 .. count |-> got[i]]
      BY <1>3, <1>5
    <2> QED
      BY <1>6, <2>1 DEF FileBytes
  <1> QED
    BY <1>3, <1>7 DEF got, lo, hi

LEMMA MoreBytes ==
  ASSUME NEW name, NEW o \in Nat, NEW n \in Nat, NEW count \in Nat
  PROVE  FileBytes(name, o, n) \o FileBytes(name, o + n, count) = FileBytes(name, o, n + count)
  <1> DEFINE A == FileBytes(name, o, n)
             B == FileBytes(name, o + n, count)
             C == FileBytes(name, o, n + count)
             S == {name} \X Nat
  <1>1. \A p, k \in Nat : FileBytes(name, p, k) \in Seq(S) /\ Len(FileBytes(name, p, k)) = k
    <2> TAKE p, k \in Nat
    <2>1. \A i \in 1 .. k : <<name, p + i - 1>> \in S
      OBVIOUS
    <2> HIDE DEF S
    <2>2. FileBytes(name, p, k) \in [1 .. k -> S]
      BY <2>1 DEF FileBytes
    <2> QED
      BY <2>2
  <1>2. A \in Seq(S) /\ B \in Seq(S) /\ C \in Seq(S) /\ Len(A) = n /\ Len(B) = count /\ Len(C) = n + count
    <2>1. o + n \in Nat /\ n + count \in Nat
      OBVIOUS
    <2> HIDE DEF S
    <2> QED
      BY <1>1, <2>1
  <1>3. \A i \in 1 .. n : A[i] = <<name, o + i - 1>>
    BY DEF FileBytes
  <1>4. \A i \in 1 .. count : B[i] = <<name, (o + n) + i - 1>>
    BY DEF FileBytes
  <1>5. \A i \in 1 .. n + count : C[i] = <<name, o + i - 1>>
    BY DEF FileBytes
  <1> HIDE DEF A, B, C, S
  <1>6. /\ A \o B \in Seq(S) /\ Len(A \o B) = n + count
        /\ \A i \in 1 .. n + count : (A \o B)[i] = IF i <= n THEN A[i] ELSE B[i - n]
    BY <1>2, ConcatProperties
  <1>7. ASSUME NEW i \in 1 .. n + count PROVE (A \o B)[i] = C[i]
    <2>1. CASE i <= n
      <3>1. i \in 1 .. n
        BY <2>1
      <3> QED
        BY <1>3, <1>5, <1>6, <2>1, <3>1
    <2>2. CASE ~(i <= n)
      <3>1. i - n \in 1 .. count /\ (o + n) + (i - n) - 1 = o + i - 1
        BY <2>2
      <3>2. B[i - n] = <<name, o + i - 1>>
        BY <1>4, <3>1
      <3> QED
        BY <1>5, <1>6, <2>2, <3>2
    <2> QED
      BY <2>1, <2>2
  <1>8. A \o B = C
    BY <1>2, <1>6, <1>7, SeqEqual
  <1> QED
    BY <1>8 DEF A, B, C

-----------------------------------------------------------------------------
\* What is open is one of the archives, and a read has the file's bytes so far.
RarIInv ==
  /\ rar \in Archives \cup {Closed}
  /\ rar = Closed => entries = {}
  /\ rar \in Archives => entries = Open(rar)
  /\ reading.on =>
       /\ rar \in Archives /\ Inner(entries) # {} /\ reading.off \in Nat /\ reading.stop \in Nat
       /\ reading = [on |-> TRUE, off |-> reading.off, stop |-> reading.stop, got |-> reading.got]
       /\ RarTells(rar) => \E n \in Nat : reading.got = FileBytes(Picked.name, reading.off, n)

LEMMA RarInitially == ASSUME RarInit PROVE RarIInv
  <1>1. Closed \notin Archives
    BY RarAssumption DEF Closed
  <1> QED
    BY <1>1 DEF RarInit, RarIInv, NoRead

LEMMA RarOpens == ASSUME RarIInv, NEW a \in Archives, OpenArchive(a) PROVE RarIInv'
  <1>1. Closed \notin Archives
    BY RarAssumption DEF Closed
  <1>2. rar' = a /\ entries' = Open(a) /\ reading' = reading /\ ~reading.on
    BY <1>1 DEF OpenArchive, RarIInv
  <1> QED
    BY <1>1, <1>2 DEF RarIInv

LEMMA RarReads ==
  ASSUME RarIInv, NEW off \in 0 .. ReadMost, NEW stop \in 0 .. ReadMost, RarReadAt(off, stop)
  PROVE  RarIInv'
  <1>1. /\ Inner(entries) # {} /\ rar' = rar /\ entries' = entries
        /\ reading' = [on |-> TRUE, off |-> off, stop |-> stop, got |-> <<>>]
    BY DEF RarReadAt
  <1>2. rar \in Archives
    <2>1. rar # Closed
      BY <1>1 DEF RarIInv, Inner
    <2> QED
      BY <2>1 DEF RarIInv
  <1>3. off \in Nat /\ stop \in Nat
    BY RarAssumption
  <1>4. Inner(entries)' = Inner(entries)
    BY <1>1 DEF Inner
  <1>5. FileBytes(Picked'.name, off, 0) = <<>>
    BY DEF FileBytes
  <1> QED
    BY <1>1, <1>2, <1>3, <1>4, <1>5 DEF RarIInv

LEMMA RarRound == ASSUME RarIInv, ReadFragment PROVE RarIInv'
  <1>1. /\ reading.on /\ Here < reading.stop /\ rar' = rar /\ entries' = entries
    BY DEF ReadFragment
  <1>2. /\ rar \in Archives /\ entries = Open(rar) /\ Inner(entries) # {} /\ reading.off \in Nat /\ reading.stop \in Nat
        /\ reading = [on |-> TRUE, off |-> reading.off, stop |-> reading.stop, got |-> reading.got]
        /\ RarTells(rar) => \E n \in Nat : reading.got = FileBytes(Picked.name, reading.off, n)
    BY <1>1 DEF RarIInv
  <1> DEFINE frags == Picked.frags
             name == Picked.name
             vs == OrderVolumes(rar)
             base == Offsets(FragLens(frags))
             W(k) == VolumeBytes(vs[frags[k].vol])
             from(k) == frags[k].off + (Here - base[k])
             want(k) == Least(base[k + 1] - Here, reading.stop - Here)
  <1>3. PICK k \in FragAt(Here) :
          reading' = [reading EXCEPT !.got = @ \o SubSeq(W(k), from(k) + 1, Least(from(k) + want(k), Len(W(k))))]
    BY DEF ReadFragment, FragBase, FragLens
  <1>4. k \in 1 .. Len(frags) /\ base[k] <= Here /\ Here < base[k + 1]
    BY DEF FragAt, FragBase, FragLens
  <1> DEFINE more == SubSeq(W(k), from(k) + 1, Least(from(k) + want(k), Len(W(k))))
  <1>5. reading' = [on |-> TRUE, off |-> reading.off, stop |-> reading.stop, got |-> reading.got \o more]
    <2>1. reading' = [reading EXCEPT !.got = reading.got \o more]
      BY <1>3
    <2> DEFINE all == reading.got \o more
               off == reading.off
               stop == reading.stop
               got == reading.got
    <2>2. reading = [on |-> TRUE, off |-> off, stop |-> stop, got |-> got] /\ reading' = [reading EXCEPT !.got = all]
      BY <1>2, <2>1
    <2> HIDE DEF all, off, stop, got, more
    <2>3. reading' = [on |-> TRUE, off |-> off, stop |-> stop, got |-> all]
      BY <2>2
    <2> QED
      BY <2>3 DEF all, off, stop
  <1>6. Inner(entries)' = Inner(entries) /\ Picked' = Picked
    BY <1>1 DEF Inner, Picked
  <1>7. ASSUME RarTells(rar) PROVE \E n \in Nat : reading.got \o more = FileBytes(name, reading.off, n)
    <2>1. PICK n \in Nat : reading.got = FileBytes(name, reading.off, n)
      BY <1>2, <1>7
    <2>2. Here = reading.off + n
      <3>1. Len(FileBytes(name, reading.off, n)) = n
        BY DEF FileBytes
      <3> QED
        BY <2>1, <3>1 DEF Here
    <2>3. RarRow(RarFiles(rar), vs) /\ Consecutive(vs)
      BY <1>2, <1>7, OrderIs
    <2>4. frags = FragsOf(vs, name)
      BY <1>2, PickedIs
    <2> DEFINE F == RarFiles(rar)
    <2> HIDE DEF frags, name, vs, F
    <2>5. FragHolds(F, vs, name, frags, k)
      BY <1>4, <2>3, <2>4, FragIs DEF F
    <2> DEFINE f == frags[k]
               H == Here
               b == base[k]
               e == base[k + 1]
               o == f.off
               z == f.length
               stop == reading.stop
               start == reading.off
               wk == want(k)
               V == W(k)
               fr == from(k)
    <2>6. o \in Nat /\ z \in Nat /\ b \in Nat /\ e = b + z /\ V \in Seq(F \X Nat) /\ FragBytes(V, name, o, z, b)
      BY <2>5 DEF FragHolds
    <2>7. H = start + n /\ b <= H /\ H < e /\ H < stop /\ stop \in Nat /\ start \in Nat
      BY <1>1, <1>2, <1>4, <2>2
    <2>8. fr = o + (H - b) /\ wk = Least(e - H, stop - H) /\ more = SubSeq(V, fr + 1, Least(fr + wk, Len(V)))
      OBVIOUS
    <2>9. reading.got = FileBytes(name, start, n)
      BY <2>1
    <2> DEFINE got == reading.got
    <2> HIDE DEF b, e, o, z, wk, V, fr, f, H, stop, start, more, got
    <2>10. H \in Nat /\ wk \in Nat /\ H + wk <= b + z
      <3>1. H \in Nat /\ e \in Nat
        BY <2>6, <2>7
      <3>2. wk \in Nat /\ H + wk <= e
        BY <2>7, <2>8, <3>1 DEF Least
      <3> QED
        BY <2>6, <3>1, <3>2
    <2>11. PICK count \in Nat : more = FileBytes(name, H, count)
      <3>1. \E count \in Nat : SubSeq(V, fr + 1, Least(fr + wk, Len(V))) = FileBytes(name, H, count)
        <4> DEFINE S == F \X Nat
        <4>1. InPiece(S, V, name, o, z, b, H, wk)
          BY <2>6, <2>7, <2>10 DEF InPiece
        <4>2. fr = o + (H - b)
          BY <2>8
        <4> HIDE DEF S
        <4> QED
          BY <4>1, <4>2, RoundGets
      <3> QED
        BY <2>8, <3>1
    <2>13. got \o more = FileBytes(name, start, n + count)
      <3>1. FileBytes(name, start, n) \o FileBytes(name, start + n, count) = FileBytes(name, start, n + count)
        BY <2>7, MoreBytes
      <3> QED
        BY <2>7, <2>9, <2>11, <3>1 DEF got
    <2>12. n + count \in Nat
      OBVIOUS
    <2> QED
      BY <2>12, <2>13 DEF got, start
  <1>8. /\ reading'.off = reading.off /\ reading'.stop = reading.stop /\ reading'.got = reading.got \o more
        /\ reading' = [on |-> TRUE, off |-> reading'.off, stop |-> reading'.stop, got |-> reading'.got]
    <2> HIDE DEF more
    <2> QED
      BY <1>5
  <1>9. RarTells(rar') => \E n \in Nat : reading'.got = FileBytes(Picked'.name, reading'.off, n)
    <2> HIDE DEF more
    <2> QED
      BY <1>1, <1>6, <1>7, <1>8
  <1> QED
    BY <1>1, <1>2, <1>6, <1>8, <1>9 DEF RarIInv

LEMMA RarStepKeeps == ASSUME RarIInv, [RarNext]_rarVars PROVE RarIInv'
  <1>1. CASE UNCHANGED rarVars
    <2>1. rar' = rar /\ entries' = entries /\ reading' = reading
      BY <1>1 DEF rarVars
    <2>2. Inner(entries)' = Inner(entries) /\ Picked' = Picked
      BY <2>1 DEF Inner, Picked
    <2> QED
      BY <2>1, <2>2 DEF RarIInv
  <1>2. CASE \E a \in Archives : OpenArchive(a)
    BY <1>2, RarOpens
  <1>3. CASE \E off, stop \in 0 .. ReadMost : off < stop /\ RarReadAt(off, stop)
    BY <1>3, RarReads
  <1>4. CASE ReadFragment
    BY <1>4, RarRound
  <1>5. CASE RarReadOver
    <2>1. rar' = rar /\ entries' = entries /\ reading' = NoRead
      BY <1>5 DEF RarReadOver
    <2> QED
      BY <2>1 DEF RarIInv, NoRead
  <1> QED
    BY <1>1, <1>2, <1>3, <1>4, <1>5 DEF RarNext

LEMMA RarIsSafe == ASSUME RarIInv PROVE RarReadIsFile
  <1> SUFFICES ASSUME reading.on, Orderly PROVE \A i \in 1 .. Len(reading.got) : reading.got[i] = <<Picked.name, reading.off + i - 1>>
    BY DEF RarReadIsFile
  <1>1. RarTells(rar)
    BY DEF Orderly, RarTells
  <1>2. PICK n \in Nat : reading.got = FileBytes(Picked.name, reading.off, n)
    BY <1>1 DEF RarIInv
  <1>3. Len(FileBytes(Picked.name, reading.off, n)) = n
    BY DEF FileBytes
  <1> QED
    BY <1>2, <1>3 DEF FileBytes

(* What is read of the file in the volumes of an archive is that file from *)
(* the offset that was asked for, in whatever order the volumes are listed.*)
THEOREM RarHolds == RarSpec => []RarReadIsFile
  <1>1. RarInit => RarIInv
    BY RarInitially
  <1>2. RarIInv /\ [RarNext]_rarVars => RarIInv'
    BY RarStepKeeps
  <1>3. RarIInv => RarReadIsFile
    BY RarIsSafe
  <1> QED
    BY <1>1, <1>2, <1>3, PTL DEF RarSpec

=============================================================================
