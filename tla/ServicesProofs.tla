--------------------------- MODULE ServicesProofs ---------------------------
(***************************************************************************)
(* The services together: what each component keeps of its own state holds *)
(* whichever of them a behaviour of MCServices explores.                   *)
(***************************************************************************)
EXTENDS SharingProofs, ReadingProofs

-----------------------------------------------------------------------------
(* What the bounds and the books of each component leave its variables.    *)

CairnRecords ==
  /\ archive \in [made : BOOLEAN, nzb : Postings, files : BOOLEAN] /\ moved \in Postings /\ posts \in Postings
  /\ posting \in [Posting -> [at : Keeper \union {NoKeeper}, nzb : Postings,
                              stage : {"idle", "posting", "posted", "stored"}]]
  /\ backfill \in [Keeper -> [stage : {"off", "listing", "upload", "clear"}, nzb : Postings]]
CairnMarks ==
  /\ kept \in [Keeper -> BOOLEAN] /\ moves \in 0 .. MaxMoves
  /\ newer \subseteq Keeper /\ archiving \subseteq Keeper
CairnWishes ==
  /\ asked \in [Wisher -> Keeper \union {"", "archived"}] /\ wishes \subseteq Keeper
  /\ wanted \subseteq Wisher /\ restore \in [Wisher -> {"", "queued", "linked"}]

LEMMA CairnTypesAre == CairnTypeOK <=> CairnRecords /\ CairnMarks /\ CairnWishes
  BY Zenon DEF CairnTypeOK, CairnRecords, CairnMarks, CairnWishes

LEMMA PostingsAre == 0 \in Postings /\ 1 \in Postings /\ \A n \in Postings : n < MaxPosts => n + 1 \in Postings
  BY CairnAssumption DEF Postings

LEMMA CairnTypesInitially == CairnInit => CairnTypeOK
  <1> SUFFICES ASSUME CairnInit PROVE CairnTypeOK
    OBVIOUS
  <1>1. CairnRecords
    <2>1. /\ archive \in {NoArchive, OldArchive} /\ posts = archive.nzb /\ moved = 0
          /\ posting = [p \in Posting |-> NotPosting] /\ backfill = [n \in Keeper |-> NoBackfill]
      BY DEF CairnInit
    <2>2. archive \in [made : BOOLEAN, nzb : Postings, files : BOOLEAN]
      <3>1. [made |-> FALSE, nzb |-> 0, files |-> FALSE] \in [made : BOOLEAN, nzb : Postings, files : BOOLEAN]
        BY PostingsAre
      <3>2. [made |-> TRUE, nzb |-> 1, files |-> FALSE] \in [made : BOOLEAN, nzb : Postings, files : BOOLEAN]
        BY PostingsAre
      <3> QED
        BY <2>1, <3>1, <3>2, Zenon DEF NoArchive, OldArchive
    <2>3. archive.nzb \in Postings
      BY <2>2
    <2> QED
      BY <2>1, <2>2, <2>3, PostingsAre DEF CairnRecords, NotPosting, NoBackfill
  <1>2. CairnMarks
    <2>1. kept = [n \in Keeper |-> FALSE] /\ moves = 0 /\ newer = {} /\ archiving = {}
      BY DEF CairnInit
    <2> QED
      BY <2>1, CairnAssumption DEF CairnMarks
  <1>3. CairnWishes
    <2>1. /\ asked = [u \in Wisher |-> ""] /\ restore = [u \in Wisher |-> ""]
          /\ wishes = {} /\ wanted = {}
      BY DEF CairnInit
    <2> QED
      BY <2>1 DEF CairnWishes
  <1> QED
    BY <1>1, <1>2, <1>3, CairnTypesAre

LEMMA CairnTypesKept == CairnTypeOK /\ [CairnNext]_cairnVars => CairnTypeOK'
  <1> SUFFICES ASSUME CairnTypeOK, [CairnNext]_cairnVars PROVE CairnTypeOK'
    OBVIOUS
  <1>t. CairnRecords /\ CairnMarks /\ CairnWishes
    BY CairnTypesAre
  <1>1. CairnRecords'
    <2>1. ASSUME UNCHANGED <<archive, moved, posting, backfill, posts>> PROVE CairnRecords'
      BY <1>t, <2>1 DEF CairnRecords
    <2>2. ASSUME NEW n \in Keeper, NEW p \in Posting, ArchiveBegins(p, n), UNCHANGED <<archive, moved, backfill>>
          PROVE  CairnRecords'
      BY <1>t, <2>2, PostingsAre DEF CairnRecords, ArchiveBegins
    <2>3. ASSUME NEW p \in Posting, ArchiveEnds(p), UNCHANGED <<moved, backfill, posts>>,
                 archive' \in [made : BOOLEAN, nzb : Postings, files : BOOLEAN]
          PROVE  CairnRecords'
      BY <1>t, <2>3, PostingsAre DEF CairnRecords, ArchiveEnds, NotPosting
    <2>4. ASSUME NEW n \in Keeper, CairnRestarts(n) PROVE CairnRecords'
      BY <1>t, <2>4, PostingsAre DEF CairnRecords, CairnRestarts, NotPosting, Listing, NoBackfill
    <2>5. ASSUME NEW n \in Keeper, BackfillLists(n) PROVE CairnRecords'
      BY <1>t, <2>5, PostingsAre DEF CairnRecords, BackfillLists, NoBackfill
    <2>6. ASSUME NEW n \in Keeper, BackfillUploads(n) PROVE CairnRecords'
      BY <1>t, <2>6, PostingsAre DEF CairnRecords, BackfillUploads, Uploaded, Listing
    <2>7. ASSUME NEW n \in Keeper, BackfillClears(n) PROVE CairnRecords'
      BY <1>t, <2>7, PostingsAre DEF CairnRecords, BackfillClears, Listing
    <2>8. ASSUME NEW p \in Posting, ArchivePosts(p) PROVE CairnRecords'
      <3>1. CASE ArchiveEnds(p)
        BY <1>t, <2>3, <2>8, <3>1 DEF ArchivePosts, CairnRecords
      <3>2. CASE posting' = [posting EXCEPT ![p].stage = "posted"]
        BY <1>t, <2>8, <3>2 DEF ArchivePosts, CairnRecords
      <3> QED
        BY <2>8, <3>1, <3>2 DEF ArchivePosts
    <2>9. ASSUME NEW p \in Posting, ArchiveStores(p) PROVE CairnRecords'
      <3> DEFINE q == posting[p]
                 nzb == IF q.at \in newer THEN 0 ELSE q.nzb
      <3>1. q \in [at : Keeper \union {NoKeeper}, nzb : Postings, stage : {"idle", "posting", "posted", "stored"}]
        BY <1>t DEF CairnRecords
      <3>2. nzb \in Postings /\ moved' \in Postings
        BY <1>t, <2>9, <3>1, PostingsAre DEF CairnRecords, ArchiveStores
      <3>3. posting' = [posting EXCEPT ![p] = [q EXCEPT !.stage = "stored", !.nzb = nzb]]
        BY <1>t, <2>9 DEF CairnRecords, ArchiveStores
      <3>4. UNCHANGED <<archive, backfill, posts>>
        BY <2>9 DEF ArchiveStores
      <3>5. posting' \in [Posting -> [at : Keeper \union {NoKeeper}, nzb : Postings,
                                     stage : {"idle", "posting", "posted", "stored"}]]
        <4> HIDE DEF nzb
        <4> QED
          BY <1>t, <3>1, <3>2, <3>3 DEF CairnRecords
      <3> QED
        BY <1>t, <3>2, <3>4, <3>5 DEF CairnRecords
    <2>10. ASSUME NEW p \in Posting, ArchiveRecords(p) PROVE CairnRecords'
      BY <1>t, <2>3, <2>10 DEF CairnRecords, ArchiveRecords
    <2>11. ASSUME NEW p \in Posting, ArchiveLost(p) PROVE CairnRecords'
      BY <1>t, <2>3, <2>11 DEF CairnRecords, ArchiveLost
    <2>12. CASE BackfillSweep
      BY <1>t, <2>12 DEF CairnRecords, BackfillSweep
    <2>13. ASSUME NEW n \in Keeper, CacheChanges(n) \/ WishArrives(n) \/ ReconcileCairns(n) PROVE CairnRecords'
      BY <2>1, <2>2, <2>13 DEF CacheChanges, WishArrives, ReconcileCairns
    <2>14. ASSUME NEW u \in Wisher, CairnCreate(u) \/ CairnAdd(u) \/ CairnDelete(u) \/ CairnRestore(u)
           PROVE  CairnRecords'
      BY <2>1, <2>14 DEF CairnCreate, CairnAdd, CairnDelete, CairnRestore
    <2>15. CASE UNCHANGED cairnVars
      BY <2>1, <2>15 DEF cairnVars
    <2> QED
      BY <2>4, <2>5, <2>6, <2>7, <2>8, <2>9, <2>10, <2>11, <2>12, <2>13, <2>14, <2>15 DEF CairnNext, CairnStep
  <1>2. CairnMarks'
    <2>1. ASSUME UNCHANGED <<kept, moves, newer>>, archiving' \subseteq archiving \union Keeper PROVE CairnMarks'
      BY <1>t, <2>1 DEF CairnMarks
    <2>2. ASSUME NEW n \in Keeper, CacheChanges(n) PROVE CairnMarks'
      BY <1>t, <2>2, CairnAssumption DEF CairnMarks, CacheChanges
    <2>3. ASSUME NEW n \in Keeper, CairnRestarts(n) PROVE CairnMarks'
      BY <1>t, <2>3, CairnAssumption DEF CairnMarks, CairnRestarts
    <2>4. ASSUME NEW n \in Keeper, WishArrives(n) \/ ReconcileCairns(n) PROVE CairnMarks'
      BY <2>1, <2>4 DEF WishArrives, ReconcileCairns, ArchiveBegins
    <2>5. ASSUME NEW n \in Keeper, BackfillLists(n) \/ BackfillUploads(n) \/ BackfillClears(n) PROVE CairnMarks'
      BY <2>1, <2>5 DEF BackfillLists, BackfillUploads, BackfillClears
    <2>6. ASSUME NEW u \in Wisher, CairnCreate(u) \/ CairnAdd(u) \/ CairnDelete(u) \/ CairnRestore(u)
          PROVE  CairnMarks'
      BY <2>1, <2>6 DEF CairnCreate, CairnAdd, CairnDelete, CairnRestore
    <2>7. ASSUME NEW p \in Posting, CairnStep(p) \/ ArchiveLost(p) PROVE CairnMarks'
      BY <2>1, <2>7 DEF CairnStep, ArchivePosts, ArchiveStores, ArchiveRecords, ArchiveLost, ArchiveEnds
    <2>8. CASE BackfillSweep \/ UNCHANGED cairnVars
      BY <2>1, <2>8 DEF BackfillSweep, cairnVars
    <2> QED
      BY <2>2, <2>3, <2>4, <2>5, <2>6, <2>7, <2>8 DEF CairnNext
  <1>3. CairnWishes'
    <2>1. ASSUME NEW u \in Wisher, CairnCreate(u) \/ CairnAdd(u) \/ CairnDelete(u) PROVE CairnWishes'
      <3> DEFINE Marked == Keeper \union {"", "archived"}
      <3>1. asked \in [Wisher -> Marked] /\ wishes \subseteq Keeper /\ wanted \subseteq Wisher /\ "" \in Marked
            /\ "archived" \in Marked /\ Keeper \subseteq Marked /\ \A a \in Marked : a \in Keeper \/ a = "" \/ a = "archived"
        BY <1>t DEF CairnWishes
      <3> HIDE DEF Marked
      <3>2. asked' \in [Wisher -> Marked] /\ wishes' \subseteq Keeper /\ wanted' \subseteq Wisher /\ restore' = restore
        BY <2>1, <3>1 DEF CairnCreate, CairnAdd, CairnDelete
      <3> QED
        BY <1>t, <3>2, Zenon DEF CairnWishes, Marked
    <2>2. ASSUME NEW u \in Wisher, CairnRestore(u) PROVE CairnWishes'
      <3>1. restore' \in [Wisher -> {"", "queued", "linked"}] /\ UNCHANGED <<asked, wishes, wanted>>
        BY <1>t, <2>2 DEF CairnWishes, CairnRestore
      <3> QED
        BY <1>t, <3>1 DEF CairnWishes
    <2>3. ASSUME UNCHANGED <<asked, wanted, restore>>, wishes' \subseteq wishes PROVE CairnWishes'
      BY <1>t, <2>3 DEF CairnWishes
    <2> QED
      BY <2>1, <2>2, <2>3 DEF CairnNext, CairnStep, cairnVars, CacheChanges, WishArrives,
       ReconcileCairns, CairnRestarts, BackfillLists, BackfillUploads, BackfillClears,
       ArchivePosts, ArchiveStores, ArchiveRecords, ArchiveLost, BackfillSweep
  <1> QED
    BY <1>1, <1>2, <1>3, Zenon DEF CairnTypeOK, CairnRecords, CairnMarks, CairnWishes

\* The filters are the owner's, and what is counted stays in its bounds.
RssFilters == feedFilter \in Criteria /\ sweep.filter \in Criteria /\ enabled \in BOOLEAN /\ overtaken \in BOOLEAN
RssMarks ==
  /\ seenDone \subseteq Items /\ attempts \in [Items -> 0 .. RssMaxAttempts]
  /\ reason \in [Items -> {"", "unwanted", "late", "handled"}]
RssDownloads == rssRows \in [Hashes -> {"none", "active", "over", "failed"}]
RssCounts == clears \in 0 .. edits /\ edits \in 0 .. MaxEdits /\ mishaps \in 0 .. MaxMishaps
RssBounded == RssFilters /\ RssMarks /\ RssDownloads /\ RssCounts

LEMMA RssBoundedInitially == RssFresh /\ enabled \in BOOLEAN => RssBounded
  <1> SUFFICES ASSUME RssFresh, enabled \in BOOLEAN PROVE RssBounded
    OBVIOUS
  <1>1. RssFilters
    BY RssAssumption DEF RssFresh, RssFilters, NoSweep
  <1>2. RssMaxAttempts \in Nat /\ MaxEdits \in Nat /\ MaxMishaps \in Nat
    BY RssAssumption
  <1>3. RssMarks
    <2>1. attempts = [i \in Items |-> 0]
      BY DEF RssFresh
    <2>2. attempts \in [Items -> 0 .. RssMaxAttempts]
      BY <1>2, <2>1
    <2>3. seenDone = {} /\ reason = [i \in Items |-> ""]
      BY DEF RssFresh
    <2> QED
      BY <2>2, <2>3 DEF RssMarks
  <1>4. RssDownloads
    BY DEF RssFresh, RssDownloads
  <1>5. RssCounts
    <2>1. clears = 0 /\ edits = 0 /\ mishaps = 0
      BY DEF RssFresh
    <2> QED
      BY <1>2, <2>1 DEF RssCounts
  <1> QED
    BY <1>1, <1>3, <1>4, <1>5 DEF RssBounded

LEMMA RssBoundedKept == RssIInv /\ RssBounded /\ [RssNext]_rssVars => RssBounded'
  <1> SUFFICES ASSUME RssIInv, RssBounded, [RssNext]_rssVars PROVE RssBounded'
    OBVIOUS
  <1>t. RssTypes /\ RssFilters /\ RssMarks /\ RssDownloads /\ RssCounts
    BY DEF RssIInv, RssBounded
  <1>i. sweep.stage \in {"item", "mark"} => sweep.item \in Items
    BY <1>t DEF RssTypes
  <1>h. sweep.stage = "next" /\ sweep.todo # <<>> => Head(sweep.todo) \in Items
    BY <1>t DEF RssTypes
  <1>1. RssFilters'
    <2>1. ASSUME UNCHANGED <<feedFilter, enabled>>, overtaken' \in {overtaken, FALSE},
                 sweep'.filter \in {sweep.filter, feedFilter}
          PROVE  RssFilters'
      BY <1>t, <2>1 DEF RssFilters
    <2>s. sweep = [stage |-> sweep.stage, filter |-> sweep.filter, todo |-> sweep.todo, item |-> sweep.item]
      BY <1>t DEF RssTypes
    <2>2. CASE SweepStarts
      BY <2>1, <2>2 DEF SweepStarts
    <2>3. CASE SweepNext
      <3>1. UNCHANGED <<feedFilter, enabled, overtaken>>
        BY <2>3 DEF SweepNext
      <3>2. sweep'.filter = sweep.filter
        BY <2>3, <2>s DEF SweepNext
      <3> QED
        BY <2>1, <3>1, <3>2
    <2>4. CASE SweepOver \/ QueueFull \/ ApiRestarts
      <3>1. UNCHANGED <<feedFilter, enabled>> /\ overtaken' = FALSE /\ sweep' = NoSweep(feedFilter)
        BY <2>4 DEF SweepOver, QueueFull, ApiRestarts
      <3>2. sweep'.filter = feedFilter
        BY <3>1 DEF NoSweep
      <3> QED
        BY <2>1, <3>1, <3>2
    <2>5. CASE ItemUnparsed \/ ItemRefused \/ ItemExists \/ ItemAdmitted \/ ItemUnfetched \/ ItemMarked
      <3>1. UNCHANGED <<feedFilter, enabled, overtaken>>
        BY <2>5 DEF ItemUnparsed, ItemRefused, ItemExists, ItemAdmitted, ItemUnfetched, ItemMarked
      <3>2. \E where \in {"next", "mark"} : sweep' = [sweep EXCEPT !.stage = where]
        BY <2>5 DEF ItemUnparsed, ItemRefused, ItemExists, ItemAdmitted, ItemUnfetched, ItemMarked
      <3>3. sweep'.filter = sweep.filter
        BY <2>s, <3>2
      <3> QED
        BY <2>1, <3>1, <3>3
    <2>6. CASE ToggleFeed
      BY <1>t, <2>6 DEF ToggleFeed, RssFilters
    <2>7. ASSUME NEW h \in Hashes, DownloadOver(h) PROVE RssFilters'
      BY <2>1, <2>7 DEF DownloadOver
    <2>8. ASSUME NEW f \in Criteria, UpdateFeed(f) PROVE RssFilters'
      <3>1. feedFilter' = f /\ UNCHANGED <<enabled, sweep>> /\ overtaken' = (sweep.stage # "idle")
        BY <2>8 DEF UpdateFeed
      <3> QED
        BY <1>t, <3>1 DEF RssFilters
    <2>9. CASE UNCHANGED rssVars
      BY <2>1, <2>9 DEF rssVars
    <2> QED
      BY <2>2, <2>3, <2>4, <2>5, <2>6, <2>7, <2>8, <2>9 DEF RssNext, SweepStep, SweepItem
  <1>2. RssMarks'
    <2>1. ASSUME NEW i \in Items, NEW why \in {"unwanted", "late", "handled"}, MarkSeen(i, why),
                 attempts' \in [Items -> 0 .. RssMaxAttempts]
          PROVE  RssMarks'
      BY <1>t, <2>1 DEF RssMarks, MarkSeen
    <2>2. ASSUME UNCHANGED <<seenDone, reason>>, attempts' \in [Items -> 0 .. RssMaxAttempts] PROVE RssMarks'
      BY <1>t, <2>2 DEF RssMarks
    <2>3. attempts \in [Items -> 0 .. RssMaxAttempts]
      BY <1>t DEF RssMarks
    <2>4. CASE SweepNext
      BY <1>h, <2>1, <2>2, <2>3, <2>4 DEF SweepNext
    <2>5. CASE ItemUnparsed
      <3>1. attempts' \in [Items -> 0 .. RssMaxAttempts]
        BY <1>i, <2>3, <2>5, RssAssumption DEF ItemUnparsed
      <3> QED
        BY <1>i, <2>1, <2>2, <2>5, <3>1 DEF ItemUnparsed
    <2>6. CASE ItemRefused \/ ItemExists \/ ItemMarked
      BY <1>i, <2>1, <2>3, <2>6 DEF ItemRefused, ItemExists, ItemMarked
    <2>7. CASE SweepStarts \/ SweepOver \/ ItemAdmitted \/ ItemUnfetched \/ QueueFull
      BY <2>2, <2>3, <2>7 DEF SweepStarts, SweepOver, ItemAdmitted, ItemUnfetched, QueueFull
    <2>8. CASE ToggleFeed \/ ApiRestarts \/ UNCHANGED rssVars
      BY <2>2, <2>3, <2>8 DEF ToggleFeed, ApiRestarts, rssVars
    <2>9. ASSUME NEW h \in Hashes, DownloadOver(h) PROVE RssMarks'
      BY <2>2, <2>3, <2>9 DEF DownloadOver
    <2>10. ASSUME NEW f \in Criteria, UpdateFeed(f) PROVE RssMarks'
      <3>1. attempts' = [i \in Items |-> 0] /\ RssMaxAttempts \in Nat
        BY <2>10, RssAssumption DEF UpdateFeed
      <3>2. attempts' \in [Items -> 0 .. RssMaxAttempts]
        BY <3>1
      <3>3. seenDone' = {} /\ reason' = [i \in Items |-> ""]
        BY <2>10 DEF UpdateFeed
      <3> QED
        BY <3>2, <3>3 DEF RssMarks
    <2> QED
      BY <2>4, <2>5, <2>6, <2>7, <2>8, <2>9, <2>10 DEF RssNext, SweepStep, SweepItem
  <1>3. RssDownloads'
    <2>1. CASE UNCHANGED rssRows
      BY <1>t, <2>1 DEF RssDownloads
    <2>2. CASE ItemAdmitted
      BY <1>t, <1>i, <2>2 DEF RssDownloads, ItemAdmitted
    <2>3. ASSUME NEW h \in Hashes, DownloadOver(h) PROVE RssDownloads'
      BY <1>t, <2>3 DEF RssDownloads, DownloadOver
    <2> QED
      BY <2>1, <2>2, <2>3 DEF RssNext, SweepStep, SweepItem, rssVars, SweepStarts, SweepNext, SweepOver, ItemUnparsed,
         ItemRefused, ItemExists, ItemUnfetched, QueueFull, ItemMarked, ToggleFeed, ApiRestarts, UpdateFeed
  <1>4. RssCounts'
    <2>1. ASSUME UNCHANGED <<clears, edits>>, mishaps' = mishaps \/ (mishaps < MaxMishaps /\ mishaps' = mishaps + 1)
          PROVE  RssCounts'
      BY <1>t, <2>1, RssAssumption DEF RssCounts
    <2>2. CASE SweepStep
      BY <2>1, <2>2 DEF SweepStep, SweepStarts, SweepNext, SweepOver, SweepItem, ItemUnparsed, ItemRefused, ItemExists,
         ItemAdmitted, ItemUnfetched, QueueFull, ItemMarked
    <2>3. CASE ApiRestarts \/ UNCHANGED rssVars
      BY <2>1, <2>3 DEF ApiRestarts, rssVars
    <2>4. ASSUME NEW h \in Hashes, DownloadOver(h) PROVE RssCounts'
      BY <2>1, <2>4 DEF DownloadOver
    <2>5. CASE ToggleFeed
      BY <1>t, <2>5, RssAssumption DEF RssCounts, ToggleFeed
    <2>6. ASSUME NEW f \in Criteria, UpdateFeed(f) PROVE RssCounts'
      <3>1. edits < MaxEdits /\ edits' = edits + 1 /\ clears' = clears + 1 /\ mishaps' = mishaps
        BY <2>6 DEF UpdateFeed
      <3> QED
        BY <1>t, <3>1, RssAssumption DEF RssCounts
    <2> QED
      BY <2>2, <2>3, <2>4, <2>5, <2>6 DEF RssNext
  <1> QED
    BY <1>1, <1>2, <1>3, <1>4 DEF RssBounded

\* What an item was added for is bounded by what can have gone wrong (AddedOnce).
LEMMA RssTypesSay == RssIInv /\ RssBounded => RssTypeOK
  <1> SUFFICES ASSUME RssIInv, RssBounded PROVE RssTypeOK
    OBVIOUS
  <1>1. clears \in 0 .. MaxEdits /\ edits \in 0 .. MaxEdits /\ mishaps \in 0 .. MaxMishaps
    BY RssAssumption DEF RssBounded, RssCounts
  <1>2. additions \in [Items -> 0 .. (1 + MaxEdits + MaxMishaps)]
    <2>1. additions \in [Items -> Nat]
      BY DEF RssIInv, RssTypes
    <2>2. ASSUME NEW i \in Items PROVE additions[i] <= 1 + MaxEdits + MaxMishaps
      <3>1. additions[i] \in Nat /\ additions[i] <= 1 + clears + mishaps \div 2
        BY <2>1, RssIInvSays DEF AddedOnce
      <3>2. \A a, c, m, e, f \in Nat : c <= e /\ m <= f /\ a <= 1 + c + m \div 2 => a <= 1 + e + f
        OBVIOUS
      <3> QED
        BY <1>1, <3>1, RssAssumption
    <2> QED
      BY <2>1, <2>2, RssAssumption
  <1>3. sweep.stage \in {"idle", "next", "item", "mark"}
    BY DEF RssIInv, RssTypes
  <1> QED
    BY <1>1, <1>2, <1>3 DEF RssTypeOK, RssBounded, RssFilters, RssMarks, RssDownloads

-----------------------------------------------------------------------------
(* Together.                                                               *)

\* What each component keeps of its own state, whichever of them a behaviour explores.
SharedIInv == ByosIInv /\ PoolIInv /\ StreamIInv /\ SpeedIInv
StoredIInv == CairnIInv /\ StorageIInv
ChosenIInv == RssIInv /\ SearchIInv /\ WarmIInv
AnswerIInv == RangeIInv /\ SegIInv /\ RarIInv

\* What the sharers of this code share is counted, for any number of them: the dispatcher of
\* the mirror queue holds a token and a reservation for exactly the transfers that run, and no
\* job has two (byos pool.go); an NNTP pool is open and registered while somebody uses it and
\* accounts for what it has lent (usenet pool.go); the guards of the stream server count the
\* requests they have let in, whichever way each leaves (streamlimit.go); and the tests of a
\* minute overrun its budget by less than one of them (speedtest.go).
THEOREM SharedIsCountedHolds == PartsSpec => []SharedIsCounted
  <1>1. PartsInit => SharedIInv
    BY ByosInitially, PoolInitially, StreamInitially, SpeedInitially DEF PartsInit, SharedIInv
  <1>2. SharedIInv /\ [PartsNext]_partsVars => SharedIInv'
    <2> SUFFICES ASSUME SharedIInv, [PartsNext]_partsVars PROVE SharedIInv'
      OBVIOUS
    <2>1. [ByosNext]_byosVars /\ [PoolNext]_poolVars /\ [StreamNext]_streamVars /\ [SpeedNext]_speedVars
      BY DEF PartsNext, Resting, partsVars
    <2> QED
      BY <2>1, ByosStepKeeps, PoolStepKeeps, StreamStepKeeps, SpeedStepKeeps DEF SharedIInv
  <1>3. SharedIInv => SharedIsCounted
    BY BooksAreGuards DEF SharedIInv, SharedIsCounted, ByosIInv, PoolIInv, StreamIInv, SpeedIInv
  <1> QED
    BY <1>1, <1>2, <1>3, PTL DEF PartsSpec

\* What a row says is stored can be reached, in every interleaving: an archive leads to an NZB
\* while goroutines of several services post it, move it and sweep after it (archive.go, cairn's
\* main.go), and a storage is saved, and a transfer writes, where the row's remotes lead
\* (storage_connect.go, storage.go).
THEOREM StoredIsReachableHolds == PartsSpec => []StoredIsReachable
  <1>1. PartsInit => StoredIInv
    BY CairnInitially, StorageInitially DEF PartsInit, StoredIInv
  <1>2. StoredIInv /\ [PartsNext]_partsVars => StoredIInv'
    <2> SUFFICES ASSUME StoredIInv, [PartsNext]_partsVars PROVE StoredIInv'
      OBVIOUS
    <2>1. [CairnNext]_cairnVars /\ [StorageNext]_storageVars
      BY DEF PartsNext, Resting, partsVars
    <2> QED
      BY <2>1, CairnStepKeeps, StorageStepKeeps DEF StoredIInv
  <1>3. StoredIInv => StoredIsReachable
    BY StorageIInvSays DEF StoredIInv, CairnIInv, MarkedInv, StoredIsReachable
  <1> QED
    BY <1>1, <1>2, <1>3, PTL DEF PartsSpec

\* What is added, answered or fetched ahead is what the rules choose, whatever fails and whoever
\* is overtaken: a feed's item once and only if wanted (rss.go), an answer fresh, rightly
\* labelled and the best of its twins (search.go, fanout.go), and the next release of a title
\* only after the better ones, with nothing forgotten (prewarm.go).
THEOREM ChosenIsBestHolds == PartsSpec => []ChosenIsBest
  <1>1. PartsInit => ChosenIInv
    BY RssInitially, SearchInitially, WarmInitially DEF PartsInit, ChosenIInv
  <1>2. ChosenIInv /\ [PartsNext]_partsVars => ChosenIInv'
    <2> SUFFICES ASSUME ChosenIInv, [PartsNext]_partsVars PROVE ChosenIInv'
      OBVIOUS
    <2>1. [RssNext]_rssVars /\ [SearchNext]_searchVars /\ [PrewarmNext]_prewarmVars
      BY DEF PartsNext, Resting, partsVars
    <2> QED
      BY <2>1, RssSteps, SearchStepKeeps, WarmStepKeeps DEF ChosenIInv
  <1>3. ChosenIInv => ChosenIsBest
    BY RssIInvSays, SearchIInvSays, WarmIInvSays DEF ChosenIsBest, ChosenIInv
  <1> QED
    BY <1>1, <1>2, <1>3, PTL DEF PartsSpec

\* A reader gets the file it asked for, whatever its pieces are stored as and whatever it skips:
\* a range of a file, of an encrypted one, of a zip (range.go, encrypt.go, zipstream.go), the
\* segments of a post that fetches put in the cache (segment_reader.go), the volumes of an
\* archive (stream_direct.go, rar.go).
THEOREM AnswerIsFileHolds == PartsSpec => []AnswerIsFile
  <1>1. PartsInit => AnswerIInv
    BY RangeInitially, SegInitially, RarInitially DEF PartsInit, AnswerIInv
  <1>2. AnswerIInv /\ [PartsNext]_partsVars => AnswerIInv'
    <2> SUFFICES ASSUME AnswerIInv, [PartsNext]_partsVars PROVE AnswerIInv'
      OBVIOUS
    <2>1. [RangeNext]_rangeVars /\ [SegmentNext]_segmentVars /\ [RarNext]_rarVars
      BY DEF PartsNext, Resting, partsVars
    <2> QED
      BY <2>1, RangeInductive, SegStepKeeps, RarStepKeeps DEF AnswerIInv
  <1>3. AnswerIInv => AnswerIsFile
    BY RangeImplies, SegIsSafe, RarIsSafe DEF AnswerIsFile, AnswerIInv
  <1> QED
    BY <1>1, <1>2, <1>3, PTL DEF PartsSpec

=============================================================================
