------------------------------- MODULE Cairn -------------------------------
(***************************************************************************)
(* Cairn: a user's wish to keep a release is a row of user_cairns, the     *)
(* service beside the node's cache posts the cached files to Usenet, and   *)
(* a row of cairn_archives says where the NZB of the posting is.  One      *)
(* release, the services of several nodes (each with its own `active`      *)
(* marks), the API that takes wishes and restores, and the move of the     *)
(* NZBs from the database to a store of their own.                         *)
(* Sources: api/internal/handlers/cairn.go, shared/auth/cairn.go,          *)
(* shared/cairn/archive.go, cairn/cmd/main.go.                             *)
(***************************************************************************)
EXTENDS Naturals, FiniteSets

CONSTANTS Keeper,      \* the cairn services, one at each node's cache
          Wisher,      \* the users who may archive and restore
          Posting,     \* the goroutines that run Archive
          NoKeeper,    \* no node
          MaxPosts,    \* bound: postings, and attempts that fail
          MaxMoves     \* bound: changes of the cache, restarts

ASSUME CairnAssumption == NoKeeper \notin Keeper /\ MaxPosts \in Nat \ {0} /\ MaxMoves \in Nat

VARIABLES kept,        \* node -> the release is in its cache
          wanted,      \* the users with a row in user_cairns
          asked,       \* user -> what cairnCreate read: "" | "archived" | node
          archive,     \* the row of cairn_archives
          moved,       \* the NZB in the store of NZBs: a posting, 0 for none
          newer,       \* the nodes whose service has a store of NZBs
          posting,     \* goroutine -> [at, stage, nzb]
          archiving,   \* the nodes whose service holds the `active` mark
          wishes,      \* the nodes a CairnRequested event is on its way to
          backfill,    \* node -> what its backfill of NZBs is at
          restore,     \* user -> the job of cairnRestore: "" | "queued" | "linked"
          posts, moves
cairnVars == <<kept, wanted, asked, archive, moved, newer, posting, archiving,
               wishes, backfill, restore, posts, moves>>

\* No row; a row as an earlier release wrote it has its NZB and no layout.
NoArchive == [made |-> FALSE, nzb |-> 0, files |-> FALSE]
OldArchive == [made |-> TRUE, nzb |-> 1, files |-> FALSE]
NotPosting == [at |-> NoKeeper, stage |-> "idle", nzb |-> 0]

NoBackfill == [stage |-> "off", nzb |-> 0]
Listing == [stage |-> "listing", nzb |-> 0]
Uploaded == [stage |-> "clear", nzb |-> 0]

CairnInit ==
    /\ archive \in {NoArchive, OldArchive}
    /\ posts = archive.nzb
    /\ kept = [n \in Keeper |-> FALSE] /\ wanted = {} /\ moved = 0 /\ newer = {}
    /\ asked = [u \in Wisher |-> ""] /\ restore = [u \in Wisher |-> ""]
    /\ posting = [p \in Posting |-> NotPosting] /\ archiving = {} /\ wishes = {}
    /\ backfill = [n \in Keeper |-> NoBackfill] /\ moves = 0

-----------------------------------------------------------------------------
\* The cache of a node gains the release (a download) or loses it (eviction).
CacheChanges(n) ==
    /\ moves < MaxMoves /\ moves' = moves + 1
    /\ kept' = [kept EXCEPT ![n] = ~@]
    /\ UNCHANGED <<wanted, asked, archive, moved, newer, posting, archiving,
                   wishes, backfill, restore, posts>>

\* cairnCreate looks for an archive, then for a complete job and its node.
CairnCreate(u) ==
    /\ asked[u] = ""
    /\ \/ archive.made /\ asked' = [asked EXCEPT ![u] = "archived"]
       \/ ~archive.made /\ \E n \in Keeper : kept[n] /\ asked' = [asked EXCEPT ![u] = n]
    /\ UNCHANGED <<kept, wanted, archive, moved, newer, posting, archiving,
                   wishes, backfill, restore, posts, moves>>

\* Then it saves the wish, and asks the node's service (that event can be lost).
CairnAdd(u) ==
    /\ asked[u] # "" /\ asked' = [asked EXCEPT ![u] = ""]
    /\ wanted' = wanted \union {u}
    /\ \/ asked[u] # "archived" /\ wishes' = wishes \union {asked[u]}
       \/ wishes' = wishes
    /\ UNCHANGED <<kept, archive, moved, newer, posting, archiving, backfill,
                   restore, posts, moves>>

\* cairnDelete takes back the wish; the archive stays.
CairnDelete(u) ==
    /\ u \in wanted /\ wanted' = wanted \ {u}
    /\ UNCHANGED <<kept, asked, archive, moved, newer, posting, archiving,
                   wishes, backfill, restore, posts, moves>>

-----------------------------------------------------------------------------
\* PendingCairns: a wish of some user and no archive.
Pending == wanted # {} /\ ~archive.made

\* Bug: the archiver forgets to ask for the mark.
ArchiveBeginsTwice(p, n) ==
    /\ posting[p].stage = "idle" /\ ~archive.made /\ kept[n] /\ posts < MaxPosts
    /\ archiving' = archiving \union {n}
    /\ posts' = posts + 1
    /\ posting' = [posting EXCEPT ![p] = [at |-> n, stage |-> "posting", nzb |-> posts']]

\* Archive: the mark, the row that another service may have written meanwhile,
\* the manifest of this node's cache.  Without them it returns at once.
ArchiveBegins(p, n) ==
    /\ posting[p].stage = "idle" /\ n \notin archiving /\ ~archive.made /\ kept[n]
    /\ posts < MaxPosts
    /\ archiving' = archiving \union {n}
    /\ posts' = posts + 1
    /\ posting' = [posting EXCEPT ![p] = [at |-> n, stage |-> "posting", nzb |-> posts']]

WishArrives(n) ==
    /\ n \in wishes /\ wishes' = wishes \ {n}
    /\ \/ \E p \in Posting : ArchiveBegins(p, n)
       \/ UNCHANGED <<posting, archiving, posts>>
    /\ UNCHANGED <<kept, wanted, asked, archive, moved, newer, backfill, restore, moves>>

\* The reconciliation of a service archives what is wanted and in its cache.
ReconcileCairns(n) ==
    /\ Pending /\ \E p \in Posting : ArchiveBegins(p, n)
    /\ UNCHANGED <<kept, wanted, asked, archive, moved, newer, wishes, backfill,
                   restore, moves>>

\* Bug: only an archive that succeeds gives the mark back.
ArchiveEndsMarked(p) ==
    /\ archiving' = IF posting[p].stage = "stored" THEN archiving \ {posting[p].at} ELSE archiving
    /\ posting' = [posting EXCEPT ![p] = NotPosting]

ArchiveEnds(p) ==
    /\ archiving' = archiving \ {posting[p].at}
    /\ posting' = [posting EXCEPT ![p] = NotPosting]

\* Every file is posted, or the first that fails ends the archive.
ArchivePosts(p) ==
    /\ posting[p].stage = "posting"
    /\ \/ posting' = [posting EXCEPT ![p].stage = "posted"] /\ UNCHANGED archiving
       \/ posts < MaxPosts /\ ArchiveEnds(p)
    /\ UNCHANGED <<kept, wanted, asked, archive, moved, newer, wishes, backfill,
                   restore, posts, moves>>

\* The NZB goes to the store of NZBs where the service has one, else to the
\* node's own store, with a copy for the row.
ArchiveStores(p) ==
    /\ posting[p].stage = "posted"
    /\ moved' = IF posting[p].at \in newer THEN posting[p].nzb ELSE moved
    /\ posting' = [posting EXCEPT ![p].stage = "stored",
                     ![p].nzb = IF posting[p].at \in newer THEN 0 ELSE @]
    /\ UNCHANGED <<kept, wanted, asked, archive, newer, archiving, wishes, backfill,
                   restore, posts, moves>>

\* Bug: the row is written before the NZB is stored.
ArchiveRecordsEarly(p) ==
    /\ posting[p].stage \in {"posted", "stored"}
    /\ archive' = [made |-> TRUE, files |-> TRUE,
                   nzb |-> IF posting[p].at \in newer THEN 0 ELSE posting[p].nzb]
    /\ ArchiveEnds(p)
    /\ UNCHANGED <<kept, wanted, asked, moved, newer, wishes, backfill, restore,
                   posts, moves>>

\* SetCairnArchive: the row last, with the layout.
ArchiveRecords(p) ==
    /\ posting[p].stage = "stored"
    /\ archive' = [made |-> TRUE, nzb |-> posting[p].nzb, files |-> TRUE]
    /\ ArchiveEnds(p)
    /\ UNCHANGED <<kept, wanted, asked, moved, newer, wishes, backfill, restore,
                   posts, moves>>

\* The store or the database refuses: nothing is kept of the posting.
ArchiveLost(p) ==
    /\ posting[p].stage \in {"posted", "stored"} /\ posts < MaxPosts
    /\ ArchiveEnds(p)
    /\ UNCHANGED <<kept, wanted, asked, archive, moved, newer, wishes, backfill,
                   restore, posts, moves>>

-----------------------------------------------------------------------------
\* A service restarts, perhaps as the release that has a store of NZBs; that
\* one moves the NZBs of the rows as it starts.
CairnRestarts(n) ==
    /\ moves < MaxMoves /\ moves' = moves + 1
    /\ posting' = [p \in Posting |-> IF posting[p].at = n THEN NotPosting ELSE posting[p]]
    /\ archiving' = archiving \ {n} /\ wishes' = wishes \ {n}
    /\ newer' \in {newer, newer \union {n}}
    /\ backfill' = [backfill EXCEPT ![n] = IF n \in newer' THEN Listing ELSE NoBackfill]
    /\ UNCHANGED <<kept, wanted, asked, archive, moved, restore, posts>>

\* A batch of rows that still have their NZB; none ends the backfill.
BackfillLists(n) ==
    /\ backfill[n] = Listing
    /\ backfill' = [backfill EXCEPT ![n] = IF archive.nzb = 0 THEN NoBackfill
                                          ELSE [stage |-> "upload", nzb |-> archive.nzb]]
    /\ UNCHANGED <<kept, wanted, asked, archive, moved, newer, posting, archiving,
                   wishes, restore, posts, moves>>

\* Bug: a failed upload goes on to clear the row.
BackfillUploadsAny(n) ==
    /\ backfill[n].stage = "upload"
    /\ moved' \in {moved, backfill[n].nzb}
    /\ backfill' = [backfill EXCEPT ![n] = Uploaded]
    /\ UNCHANGED <<kept, wanted, asked, archive, newer, posting, archiving, wishes,
                   restore, posts, moves>>

\* The copy of the list goes to the store unless an NZB is there; a failed
\* upload leaves the row for the next batch.
BackfillUploads(n) ==
    /\ backfill[n].stage = "upload"
    /\ \/ /\ moved' = IF moved = 0 THEN backfill[n].nzb ELSE moved
          /\ backfill' = [backfill EXCEPT ![n] = Uploaded]
       \/ moved = 0 /\ backfill' = [backfill EXCEPT ![n] = Listing] /\ UNCHANGED moved
    /\ UNCHANGED <<kept, wanted, asked, archive, newer, posting, archiving, wishes,
                   restore, posts, moves>>

BackfillClears(n) ==
    /\ backfill[n] = Uploaded
    /\ archive' = [archive EXCEPT !.nzb = 0]
    /\ backfill' = [backfill EXCEPT ![n] = Listing]
    /\ UNCHANGED <<kept, wanted, asked, moved, newer, posting, archiving, wishes,
                   restore, posts, moves>>

\* Where an NZB of the archive can be read: the store of NZBs, then the row.
ArchiveNZB == IF moved # 0 THEN moved ELSE archive.nzb

\* cairnBackfillSweep of the API: the layout of a row without one, from its NZB.
BackfillSweep ==
    /\ newer # {} /\ archive.made /\ ~archive.files /\ ArchiveNZB # 0
    /\ archive' = [archive EXCEPT !.files = TRUE]
    /\ UNCHANGED <<kept, wanted, asked, moved, newer, posting, archiving, wishes,
                   backfill, restore, posts, moves>>

\* cairnRestore: what is in a cache is linked to the user; else a user with the
\* wish gets a job, once, for the ingest to fetch from the posting.
CairnRestore(u) ==
    /\ archive.made /\ restore[u] = ""
    /\ \/ /\ \E n \in Keeper : kept[n]
          /\ restore' = [restore EXCEPT ![u] = "linked"]
       \/ /\ \A n \in Keeper : ~kept[n] /\ u \in wanted
          /\ restore' = [restore EXCEPT ![u] = "queued"]
    /\ UNCHANGED <<kept, wanted, asked, archive, moved, newer, posting, archiving,
                   wishes, backfill, posts, moves>>

CairnStep(p) == ArchivePosts(p) \/ ArchiveStores(p) \/ ArchiveRecords(p)

CairnNext ==
    \/ \E n \in Keeper : \/ CacheChanges(n) \/ WishArrives(n) \/ ReconcileCairns(n)
                         \/ CairnRestarts(n) \/ BackfillLists(n)
                         \/ BackfillUploads(n) \/ BackfillClears(n)
    \/ \E u \in Wisher : CairnCreate(u) \/ CairnAdd(u) \/ CairnDelete(u) \/ CairnRestore(u)
    \/ \E p \in Posting : CairnStep(p) \/ ArchiveLost(p)
    \/ BackfillSweep

\* A goroutine goes on, and a service's reconciliation runs every five minutes.
CairnFairness ==
    /\ \A p \in Posting : WF_cairnVars(CairnStep(p))
    /\ \A n \in Keeper : WF_cairnVars(ReconcileCairns(n))

CairnSpec == CairnInit /\ [][CairnNext]_cairnVars /\ CairnFairness

-----------------------------------------------------------------------------
\* The postings there may be, and none.
Postings == 0..MaxPosts

\* Types of the variables.
CairnTypeOK ==
    /\ kept \in [Keeper -> BOOLEAN] /\ wanted \subseteq Wisher
    /\ asked \in [Wisher -> Keeper \union {"", "archived"}]
    /\ archive \in [made : BOOLEAN, nzb : Postings, files : BOOLEAN]
    /\ moved \in Postings /\ newer \subseteq Keeper
    /\ posting \in [Posting -> [at : Keeper \union {NoKeeper}, nzb : Postings,
                                stage : {"idle", "posting", "posted", "stored"}]]
    /\ archiving \subseteq Keeper /\ wishes \subseteq Keeper
    /\ backfill \in [Keeper -> [stage : {"off", "listing", "upload", "clear"}, nzb : Postings]]
    /\ restore \in [Wisher -> {"", "queued", "linked"}]
    /\ posts \in Postings /\ moves \in 0..MaxMoves

\* A row of cairn_archives leads to an NZB at every moment, while services of
\* the old and the new release archive, move and clear side by side: what
\* cairnRestore queues can be fetched (archive.go:94-99, main.go:107-118).
ArchiveReadable == archive.made => ArchiveNZB # 0

\* One service posts a release once at a time, whatever events and
\* reconciliations ask for it (archive.go:42-62).
OneArchiver ==
    \A p, q \in Posting : posting[p].at = posting[q].at /\ posting[p].at # NoKeeper => p = q

\* A wish for a release that stays in the cache of a node is fulfilled or
\* taken back, even when the event was lost (main.go:73-93).
WishesFulfilled ==
    \A n \in Keeper : (Pending /\ kept[n]) ~> (~Pending \/ ~kept[n] \/ posts = MaxPosts)
=============================================================================
