---------------------------- MODULE SegmentReader ----------------------------
(***************************************************************************)
(* FileReaderAt (shared/usenet/download/readerat.go): the file of an NZB   *)
(* read at any offset while its articles are fetched.  One reader at a     *)
(* time (readMu) finds the segment an offset is in, starting from a guess; *)
(* prefetching goroutines fetch the segments after what was read; fetches  *)
(* of one segment are shared, a bounded cache keeps the last ones, and an  *)
(* article no server has becomes a hole of zeros, up to a limit.           *)
(***************************************************************************)
EXTENDS Integers, Sequences, FiniteSets, SequencesExt

CONSTANTS
    Parts,       \* how many segments the file has
    RealSize,    \* RealSize[i]: bytes of segment i once decoded
    NzbSize,     \* NzbSize[i]: bytes of segment i as the NZB has them
    CacheMost,   \* raCacheMax
    Ahead,       \* prefetchAhead
    Fetcher,     \* prefetching goroutines: prefetchConns
    RunMost,     \* maxPadRun
    PadMost,     \* maxPadTotal
    ReadLens,    \* how much is read at a time
    LostSets     \* the sets of articles that may be missing

Part == 0..(Parts - 1)

ASSUME SegmentAssumption ==
    /\ Parts \in Nat \ {0} /\ {CacheMost, Ahead, RunMost, PadMost} \subseteq Nat
    /\ \A i \in Part : RealSize[i] \in Nat \ {0} /\ NzbSize[i] \in Nat \ {0}
    /\ LostSets \subseteq SUBSET Part /\ ReadLens \subseteq Nat
    /\ IsFiniteSet(Fetcher) /\ Cardinality(Fetcher) <= CacheMost

(* A post is cut into articles of one size; what is left is the last.      *)
ASSUME SegmentSizes == \A i \in Part : i < Parts - 1 => RealSize[i] >= RealSize[0]

VARIABLES
    lost,       \* the articles no server has
    chunks,     \* cache: of a segment, where it is and whether it is a hole
    order,      \* the cached segments, oldest first
    flights,    \* inflight: the segments being fetched
    typ,        \* the size of segment 0 once it has been fetched
    fileSize,   \* size, once it is known
    padTotal, lastHole, curRun,
    errand,     \* what the reader is about: an offset, or the size
    readAt,         \* where the reader is
    worker      \* worker[f]: the segment goroutine f fetches or waits for

cacheVars  == <<chunks, order, flights, typ>>
holeVars   == <<padTotal, lastHole, curRun>>
readerVars == <<fileSize, errand, readAt>>
segmentVars == <<lost, cacheVars, holeVars, readerVars, worker>>

Off(i)   == LET off[j \in 0..Parts] == IF j = 0 THEN 0 ELSE off[j - 1] + RealSize[j - 1] IN off[i]
TrueSize == Off(Parts)
NotYet   == -1
Absent   == [begin |-> 0, end |-> 0, hole |-> FALSE]
NoErrand == [what |-> "none", off |-> 0, stop |-> 0]
Free     == [seg |-> NotYet, does |-> "free"]

(* at: pc, the segment wanted, the guess it comes from, the holes that     *)
(* wait for the segment before them, the rounds of segForOffset, and the   *)
(* chunk it holds, which the cache may have dropped again.                 *)
Rest == [pc |-> "idle", seg |-> NotYet, stack |-> <<>>, rounds |-> 0,
         failed |-> FALSE, chunk |-> Absent]

SegmentInit ==
    /\ lost = {} /\ chunks = [i \in Part |-> Absent] /\ order = <<>>
    /\ flights = {} /\ typ = 0
    /\ fileSize = NotYet /\ padTotal = 0 /\ lastHole = NotYet /\ curRun = 0
    /\ errand = NoErrand
    /\ readAt = [Rest EXCEPT !.pc = "closed"]
    /\ worker = [f \in Fetcher |-> Free]

Cached(i) == i \in ToSet(order)

\* Bug: the cache is kept below its limit.
StoreEarly(i, c) ==
    LET longer == Append(order, i)
        kept   == IF Len(longer) >= CacheMost THEN Tail(longer) ELSE longer
    IN /\ order' = kept
       /\ chunks' = [j \in Part |-> IF j \notin ToSet(kept) THEN Absent ELSE IF j = i THEN c ELSE chunks[j]]

(* store evicts the oldest past the limit.                                 *)
Store(i, c) ==
    LET longer == Append(order, i)
        kept   == IF Len(longer) > CacheMost THEN Tail(longer) ELSE longer
    IN /\ order' = kept
       /\ chunks' = [j \in Part |-> IF j \notin ToSet(kept) THEN Absent ELSE IF j = i THEN c ELSE chunks[j]]

(* What a fetch of segment i leaves when it ends well: yEnc says where the *)
(* part begins.                                                            *)
Data(i) == [begin |-> Off(i), end |-> Off(i + 1), hole |-> FALSE]

Fetched(i) ==
    /\ Store(i, Data(i))
    /\ typ' = IF i = 0 THEN RealSize[0] ELSE typ

-----------------------------------------------------------------------------
(* NewFileReaderAt, for a file some of whose articles are gone.            *)
OpenReader(gone) ==
    /\ readAt.pc = "closed"
    /\ lost' = gone
    /\ readAt' = Rest
    /\ UNCHANGED <<cacheVars, holeVars, fileSize, errand, worker>>

(* ReadAt of the bytes off to stop - 1.                                    *)
ReadAt(off, stop) ==
    /\ readAt.pc = "idle" /\ off < stop
    /\ errand' = [what |-> "read", off |-> off, stop |-> stop]
    /\ readAt' = [Rest EXCEPT !.pc = IF typ = 0 THEN "first" ELSE "guess"]
    /\ UNCHANGED <<lost, cacheVars, holeVars, fileSize, worker>>

(* Size asks for the last segment, whether or not the first is known.      *)
SegSize ==
    /\ readAt.pc = "idle" /\ fileSize = NotYet
    /\ errand' = [what |-> "size", off |-> 0, stop |-> 0]
    /\ readAt' = [Rest EXCEPT !.pc = "seg", !.seg = Parts - 1]
    /\ UNCHANGED <<lost, cacheVars, holeVars, fileSize, worker>>

(* segForOffset: segment 0 first when its size is not known.               *)
FirstSegment ==
    /\ readAt.pc = "first"
    /\ readAt' = [readAt EXCEPT !.pc = "seg", !.seg = 0]
    /\ UNCHANGED <<lost, cacheVars, holeVars, fileSize, errand, worker>>

Guess ==
    /\ readAt.pc = "guess"
    /\ LET guess == IF typ > 0 THEN errand.off \div typ ELSE 0 IN
       readAt' = [readAt EXCEPT !.pc = "seg", !.rounds = 1,
                        !.seg = IF guess >= Parts THEN Parts - 1 ELSE guess]
    /\ UNCHANGED <<lost, cacheVars, holeVars, fileSize, errand, worker>>

(* fetchSeg: cached, in flight, or to be fetched by this goroutine.        *)
Seek ==
    /\ readAt.pc = "seg"
    /\ IF Cached(readAt.seg)
         THEN readAt' = [readAt EXCEPT !.pc = "have", !.chunk = chunks[readAt.seg]] /\ UNCHANGED flights
       ELSE IF readAt.seg \in flights THEN readAt' = [readAt EXCEPT !.pc = "wait"] /\ UNCHANGED flights
       ELSE /\ readAt' = [readAt EXCEPT !.pc = "fetch"]
            /\ flights' = flights \cup {readAt.seg}
    /\ UNCHANGED <<lost, chunks, order, typ, holeVars, fileSize, errand, worker>>

Idle == readAt' = Rest /\ errand' = NoErrand

SeekArrives ==
    /\ readAt.pc = "fetch" /\ readAt.seg \notin lost
    /\ Fetched(readAt.seg)
    /\ flights' = flights \ {readAt.seg}
    /\ readAt' = [readAt EXCEPT !.pc = "have", !.chunk = Data(readAt.seg)]
    /\ UNCHANGED <<lost, holeVars, fileSize, errand, worker>>

SeekMissing ==
    /\ readAt.pc = "fetch" /\ readAt.seg \in lost
    /\ flights' = flights \ {readAt.seg}
    /\ readAt' = [readAt EXCEPT !.pc = "hole"]
    /\ UNCHANGED <<lost, chunks, order, typ, holeVars, fileSize, errand, worker>>

(* A server that fails otherwise fails the whole read.                     *)
SeekFails ==
    /\ readAt.pc = "fetch"
    /\ flights' = flights \ {readAt.seg}
    /\ Idle
    /\ UNCHANGED <<lost, chunks, order, typ, holeVars, fileSize, worker>>

(* The goroutine that waited for a fetch looks for its chunk in the cache. *)
Woken ==
    /\ readAt.pc = "woken"
    /\ readAt' = [readAt EXCEPT !.chunk = chunks[readAt.seg],
                        !.pc = IF Cached(readAt.seg) THEN "have"
                               ELSE IF readAt.failed THEN "hole" ELSE "nil"]
    /\ UNCHANGED <<lost, cacheVars, holeVars, fileSize, errand, worker>>

(* holeChunk: the hole begins where the segment before it ends, which is   *)
(* sought first; its size is taken before that.                            *)
HoleSize(i) == IF typ <= 0 THEN NzbSize[i] ELSE typ

Hole ==
    /\ readAt.pc = "hole"
    /\ LET waiting == Append(readAt.stack, [seg |-> readAt.seg, size |-> HoleSize(readAt.seg)]) IN
       readAt' = IF readAt.seg > 0 THEN [readAt EXCEPT !.pc = "seg", !.seg = readAt.seg - 1, !.stack = waiting]
             ELSE [readAt EXCEPT !.pc = "pad", !.stack = waiting]
    /\ UNCHANGED <<lost, cacheVars, holeVars, fileSize, errand, worker>>

\* Bug: only a run of holes is limited.
TooLongARun == curRun' > RunMost

TooManyHoles == curRun' > RunMost \/ padTotal' > PadMost

(* The innermost hole that waits, now that the segment before is there.    *)
(* A total past the limit refuses every hole and is not counted on.        *)
Pad ==
    /\ readAt.pc = "pad" \/ (readAt.pc = "have" /\ readAt.stack # <<>>)
    /\ LET hole  == Last(readAt.stack)
           begin == IF hole.seg = 0 THEN 0 ELSE readAt.chunk.end
           pad   == [begin |-> begin, end |-> begin + hole.size, hole |-> TRUE]
       IN /\ curRun' = IF hole.seg = lastHole + 1 THEN curRun + 1 ELSE 1
          /\ lastHole' = hole.seg
          /\ padTotal' = IF padTotal > PadMost THEN padTotal ELSE padTotal + 1
          /\ IF TooManyHoles
               THEN Idle /\ UNCHANGED <<chunks, order>>
               ELSE /\ Store(hole.seg, pad)
                    /\ readAt' = [readAt EXCEPT !.pc = "have", !.seg = hole.seg, !.chunk = pad,
                                        !.stack = Front(readAt.stack)]
                    /\ UNCHANGED errand
    /\ UNCHANGED <<lost, flights, typ, fileSize, worker>>

Have == readAt.pc = "have" /\ readAt.stack = <<>>

\* Bug: the search goes on for as long as there is a segment beside.
HaveOtherAlways ==
    /\ Have /\ errand.what = "read" /\ readAt.rounds > 0
    /\ ~(readAt.chunk.begin <= errand.off /\ errand.off < readAt.chunk.end)
    /\ LET next == IF errand.off < readAt.chunk.begin THEN readAt.seg - 1 ELSE readAt.seg + 1 IN
       IF next \notin Part THEN Idle
       ELSE readAt' = [readAt EXCEPT !.pc = "seg", !.seg = next] /\ UNCHANGED errand
    /\ UNCHANGED <<lost, cacheVars, holeVars, fileSize, worker>>

(* The segment is there: it is the one, or the next guess is beside it.    *)

HaveFirst ==
    /\ Have /\ errand.what = "read" /\ readAt.rounds = 0
    /\ readAt' = [readAt EXCEPT !.pc = "guess"]
    /\ UNCHANGED <<lost, cacheVars, holeVars, fileSize, errand, worker>>

HaveSize ==
    /\ Have /\ errand.what = "size"
    /\ fileSize' = readAt.chunk.end
    /\ Idle
    /\ UNCHANGED <<lost, cacheVars, holeVars, worker>>

(* segForOffset gives up after Parts + 4 rounds.                           *)
HaveOther ==
    /\ Have /\ errand.what = "read" /\ readAt.rounds > 0
    /\ ~(readAt.chunk.begin <= errand.off /\ errand.off < readAt.chunk.end)
    /\ LET next == IF errand.off < readAt.chunk.begin THEN readAt.seg - 1 ELSE readAt.seg + 1 IN
       IF next \notin Part \/ readAt.rounds >= Parts + 4
         THEN Idle                       \* io.EOF, or not found
         ELSE /\ readAt' = [readAt EXCEPT !.pc = "seg", !.seg = next, !.rounds = @ + 1]
              /\ UNCHANGED errand
    /\ UNCHANGED <<lost, cacheVars, holeVars, fileSize, worker>>

(* Copy what the chunk has of the range; at its end, prefetch.             *)
Copy ==
    /\ Have /\ errand.what = "read" /\ readAt.rounds > 0
    /\ readAt.chunk.begin <= errand.off /\ errand.off < readAt.chunk.end
    /\ LET copied == IF readAt.chunk.end < errand.stop THEN readAt.chunk.end ELSE errand.stop IN
       IF copied = errand.stop
         THEN readAt' = [Rest EXCEPT !.pc = "prefetch", !.seg = readAt.seg + 1, !.rounds = readAt.seg + 1]
              /\ errand' = NoErrand
         ELSE readAt' = [Rest EXCEPT !.pc = IF typ = 0 THEN "first" ELSE "guess"]
              /\ errand' = [errand EXCEPT !.off = copied]
    /\ UNCHANGED <<lost, cacheVars, holeVars, fileSize, worker>>

-----------------------------------------------------------------------------
(* prefetch walks the window; no free place in sem ends it.  at.rounds is  *)
(* where the window begins.                                                *)
Prefetch ==
    /\ readAt.pc = "prefetch"
    /\ LET i    == readAt.seg
           free == {f \in Fetcher : worker[f] = Free}
           next == [readAt EXCEPT !.seg = i + 1]
       IN IF i >= Parts \/ i >= readAt.rounds + Ahead THEN readAt' = Rest /\ UNCHANGED worker
          ELSE IF Cached(i) \/ i \in flights THEN readAt' = next /\ UNCHANGED worker
          ELSE IF free = {} THEN readAt' = Rest /\ UNCHANGED worker
          ELSE /\ worker' = [worker EXCEPT ![CHOOSE f \in free : TRUE] = [seg |-> i, does |-> "start"]]
               /\ readAt' = next
    /\ UNCHANGED <<lost, cacheVars, holeVars, fileSize, errand>>

(* fetchSeg of a prefetching goroutine: what it finds it does not use.     *)
WorkerStarts(f) ==
    /\ worker[f].does = "start"
    /\ LET i == worker[f].seg IN
       IF Cached(i) THEN worker' = [worker EXCEPT ![f] = Free] /\ UNCHANGED flights
       ELSE IF i \in flights THEN worker' = [worker EXCEPT ![f].does = "wait"] /\ UNCHANGED flights
       ELSE /\ flights' = flights \cup {i}
            /\ worker' = [worker EXCEPT ![f].does = "fetch"]
    /\ UNCHANGED <<lost, chunks, order, typ, holeVars, readerVars>>

(* The flight ends and wakes who waits for it.                             *)
Wake(i, failed) == IF readAt.pc = "wait" /\ readAt.seg = i
                     THEN readAt' = [readAt EXCEPT !.pc = "woken", !.failed = failed] ELSE UNCHANGED readAt

WorkerArrives(f) ==
    LET i == worker[f].seg IN
    /\ worker[f].does = "fetch" /\ i \notin lost
    /\ Fetched(i)
    /\ flights' = flights \ {i}
    /\ Wake(i, FALSE)
    /\ worker' = [worker EXCEPT ![f] = Free]
    /\ UNCHANGED <<lost, holeVars, fileSize, errand>>

\* Bug: any failure is taken for a missing article.
WorkerFailsMissing(f) ==
    LET i == worker[f].seg IN
    /\ worker[f].does = "fetch"
    /\ flights' = flights \ {i}
    /\ worker' = [worker EXCEPT ![f] = Free]
    /\ Wake(i, TRUE)
    /\ UNCHANGED <<lost, chunks, order, typ, holeVars, fileSize, errand>>

(* Missing: who waits makes the hole.  A failure of another kind fails the *)
(* read of who waits.                                                      *)
WorkerFails(f) ==
    LET i == worker[f].seg IN
    /\ worker[f].does = "fetch"
    /\ flights' = flights \ {i}
    /\ worker' = [worker EXCEPT ![f] = Free]
    /\ IF i \in lost THEN Wake(i, TRUE) /\ UNCHANGED errand
       ELSE IF readAt.pc = "wait" /\ readAt.seg = i THEN Idle ELSE UNCHANGED <<readAt, errand>>
    /\ UNCHANGED <<lost, chunks, order, typ, holeVars, fileSize>>

WorkerDone(f) ==
    /\ worker[f].does = "wait" /\ worker[f].seg \notin flights
    /\ worker' = [worker EXCEPT ![f] = Free]
    /\ UNCHANGED <<lost, cacheVars, holeVars, readerVars>>

ReaderStep ==
    \/ FirstSegment \/ Guess \/ Seek \/ SeekArrives \/ SeekMissing \/ SeekFails \/ Woken
    \/ Hole \/ Pad \/ HaveFirst \/ HaveSize \/ HaveOther \/ Copy \/ Prefetch

WorkerStep(f) == WorkerStarts(f) \/ WorkerArrives(f) \/ WorkerFails(f) \/ WorkerDone(f)

SegmentNext ==
    \/ \E gone \in LostSets : OpenReader(gone)
    \/ \E off \in 0..TrueSize, len \in ReadLens : ReadAt(off, off + len)
    \/ SegSize \/ ReaderStep \/ \E f \in Fetcher : WorkerStep(f)

SegmentFairness ==
    /\ WF_segmentVars(ReaderStep)
    /\ \A f \in Fetcher : WF_segmentVars(WorkerStep(f))

SegmentSpec == SegmentInit /\ [][SegmentNext]_segmentVars /\ SegmentFairness

-----------------------------------------------------------------------------
(* The types of the variables; the cache keeps its bound.                  *)
SegmentTypeOK ==
    /\ lost \in LostSets \cup {{}} /\ flights \subseteq Part
    /\ DOMAIN chunks = Part /\ IsInjective(order) /\ Len(order) <= CacheMost
    /\ \A i \in Part : (chunks[i] # Absent) <=> Cached(i)
    /\ typ \in {0, RealSize[0]} /\ fileSize \in {NotYet} \cup Nat
    /\ padTotal \in 0..(PadMost + 1)
    /\ readAt.seg \in NotYet..(Parts + Ahead)

(* A goroutine that waited for another's fetch finds the chunk although it *)
(* looks in the cache only later: no more fetches can end in between than  *)
(* the cache holds, because only the reader starts them.                   *)
NoNilChunk == readAt.pc # "nil"

(* Zeros are sent only for bytes of an article that is lost, or past the   *)
(* end of the file, wherever the reader came from and whatever it had to   *)
(* fetch again - provided the first article is there: its size is what     *)
(* every hole is made of.                                                  *)
ZerosOnlyLost ==
    (0 \notin lost /\ Have /\ errand.what = "read" /\ readAt.rounds > 0 /\ readAt.chunk.hole
       /\ readAt.chunk.begin <= errand.off /\ errand.off < readAt.chunk.end)
      => errand.off >= TrueSize
         \/ \E i \in lost : Off(i) <= errand.off /\ errand.off < Off(i + 1)

(* A file is padded at PadMost places at most.  The limit of a run does    *)
(* not say so: asked again after ErrTooManyHoles, the segment that was one *)
(* too many begins a run of its own.                                       *)
HolesLimited == Cardinality({i \in Part : Cached(i) /\ chunks[i].hole}) <= PadMost

(* Every read ends, with bytes or an error: the search for an offset does  *)
(* not go on for ever between segments that overlap.                       *)
ReadsEnd == (readAt.pc # "idle" /\ readAt.pc # "closed") ~> readAt.pc = "idle"

=============================================================================
