----------------------------- MODULE MCServices -----------------------------
(*****************************************************************************)
(* What serves, mirrors, archives and charges: components that share no state, *)
(* each on a small instance, side by side. A behaviour is a behaviour of the *)
(* component its focus names; the others rest.                               *)
(*****************************************************************************)
EXTENDS
  ByosQueue, SharedPools, StreamServer, SpeedTest, StreamRanges, SegmentReader, RarVolumes,
  Cairn, RssSweep, Wallet, StorageConnect, IndexerSearch, Prewarm, TLC

CONSTANTS
  Foci,        \* the components a run explores
  j1, j2, u1, u2, g1, g2, r1, r2, e1, e2, t1, t2, q1, q2, v1, any, i1, n1, z1, z2, z3, k1, k2,
  c1, c2, w1, p1, p2, none, u3, u4, t3, t4, t5, t6, b1, b2, b3, b4, x4, x5, y1, s1, s2, c5, c6,
  v2, k3, k4, k5, k6, x1, x2, x3, o1, code, rq, m1, m2, ra, rb, qa, ta

\* The instances.
Owners == j1 :> u1 @@ j2 :> u2
Zips == {<<1>>, <<2, 0, 3>>, <<1, 7, 2>>, <<8, 1>>, <<6, 6>>}
Real == 0 :> 1 @@ 1 :> 2 @@ 2 :> 1
Nzb == 0 :> 2 @@ 1 :> 3 @@ 2 :> 2
Losses == {{}, {0}, {1}, {1, 2}}
SomeLosses == {{1}}
Blk(f, from, len) == [type |-> "file", file |-> f, from |-> from, len |-> len, stored |-> TRUE]
EndBlk == [type |-> "end", file |-> "none", from |-> 0, len |-> 0, stored |-> TRUE]
Vol(style, n, real, blocks, cut) ==
  [name |-> [style |-> style, n |-> n], real |-> [style |-> "part", n |-> real],
   blocks |-> blocks, cut |-> cut]
B1 == <<Blk("nfo", 0, 1), Blk("film", 0, 2), EndBlk>>
B2 == <<Blk("film", 2, 3)>>
B3 == <<Blk("film", 5, 1), Blk("clip", 0, 2), EndBlk>>
Arc(vols, par2) == [volumes |-> vols, par2 |-> par2, videos |-> {"film", "clip"},
                    sizes |-> [nfo |-> 1, film |-> 6, clip |-> 2]]
Obfuscated == <<Vol("obf", 0, 3, B3, 0), Vol("obf", 0, 1, B1, 0), Vol("obf", 0, 2, B2, 0)>>
Arcs == {
  Arc(<<Vol("part", 2, 2, B2, 0), Vol("part", 1, 1, B1, 0), Vol("part", 3, 3, B3, 0)>>, FALSE),
  Arc(<<Vol("rNN", 0, 2, B2, 0), Vol("rNN", 1, 3, B3, 0), Vol("rar", 0, 1, B1, 0)>>, TRUE),
  Arc(Obfuscated, TRUE), Arc(Obfuscated, FALSE),
  Arc(<<Vol("part", 1, 1, B1, 0), Vol("part", 2, 2, B2, 2), Vol("part", 3, 3, B3, 0)>>, FALSE)}
RssFeed == <<"a", "b">>
RssFacts == [i \in {"a", "b"} |->
  IF i = "a" THEN [tags |-> {"1080p"}, year |-> 0, size |-> 0, words |-> {"show"}]
  ELSE [tags |-> {}, year |-> 2001, size |-> 3, words |-> {"show", "cam"}]]
RssSource == [i \in {"a", "b"} |-> IF i = "a" THEN "usenet" ELSE "torrent"]
RssHash == [i \in {"a", "b"} |-> i]
RssCriteria ==
  {[tags |-> {}, yearMin |-> 0, sizeMin |-> 0, sizeMax |-> 0, except |-> {"cam"}, keywords |-> {}],
   [tags |-> {"SDR"}, yearMin |-> 2000, sizeMin |-> 2, sizeMax |-> 4, except |-> {},
    keywords |-> {"show"}]}
Calls == (t3 :> <<"topup", u3, k3, 5>>) @@ (t4 :> <<"topup", u3, k3, 5>>) @@
         (b1 :> <<"buy", u3, k6, 2>>) @@ (b2 :> <<"buy", u3, k6, 2>>) @@
         (x4 :> <<"renew", u3, x1, 2>>) @@ (x5 :> <<"renew", u3, x2, 2>>) @@
         (y1 :> <<"debit", u3, x3, 1>>) @@ (t5 :> <<"topup", u4, k4, 3>>) @@
         (t6 :> <<"topup", u3, k5, 2>>) @@
         (b3 :> <<"buy", u4, k6, 2>>) @@ (b4 :> <<"buy", u3, x2, 2>>) @@
         (s1 :> <<"sale", u4, o1, 0>>) @@ (s2 :> <<"sale", u4, o1, 0>>) @@
         (c5 :> <<"redeem", u3, code, 0>>) @@ (c6 :> <<"redeem", u4, code, 0>>) @@
         (v2 :> <<"visit", u3, x3, 0>>)
KindOf      == [c \in Call |-> Calls[c][1]]
CallUser    == [c \in Call |-> Calls[c][2]]
CallRef     == [c \in Call |-> Calls[c][3]]
CallCents   == [c \in Call |-> Calls[c][4]]
WhoReferred == [u \in User |-> IF u = u4 THEN u3 ELSE NoUser]
\* The calls that are made together.
MadeSets ==
  {{t3, t4, b1, b4},           \* a top-up delivered twice, two purchases
   {t6, b1, b2},               \* a purchase submitted twice
   {t6, b1, t5, b3},           \* its key used by another user
   {t3, b1, x4, x5},           \* two renewals at the end of a period
   {t3, b2, y1, s1},           \* an adjustment; a sale that rewards the purchaser
   {s1, s2, v2},               \* a sale delivered twice beside a visit
   {s1, c5, c6, v2}}           \* a code redeemed twice, and a sale
\* A pool under a passphrase, and a single storage in clear.
Had == {RowOf("p", "k", <<"p">>), RowOf("p", Clear, <<>>)}
\* Two users have entered the same indexer under ids of their own; one has another besides.
Indexer(i, b) == [id |-> i, base |-> b]
Hit(t, g, f) == [title |-> t, size |-> 1, grabs |-> g, fits |-> f]
Asked == [q \in Search |->
  IF q = "q1" THEN <<Indexer("o", "n"), Indexer("system", "m")>> ELSE <<Indexer("p", "n")>>]
Lists == [b \in {"n", "m"} |->
  IF b = "n" THEN {<<Hit("t", 1, TRUE), Hit("w", 1, FALSE)>>} ELSE {<<Hit("t", 2, TRUE)>>}]
Named == [t \in Title |-> 3]
Screened == [t \in Title |-> {3}]

-----------------------------------------------------------------------------
VARIABLE focus

partsVars ==
  <<focus,
    byosVars, poolVars, streamVars, speedVars, rangeVars, segmentVars, rarVars, cairnVars,
    rssVars, vars, storageVars, searchVars, prewarmVars>>

\* The components of which a behaviour is not one stay as they are.
Resting(f) ==
  /\ IF f = "byos" THEN TRUE ELSE UNCHANGED byosVars
  /\ IF f = "pools" THEN TRUE ELSE UNCHANGED poolVars
  /\ IF f = "streams" THEN TRUE ELSE UNCHANGED streamVars
  /\ IF f = "speedtest" THEN TRUE ELSE UNCHANGED speedVars
  /\ IF f = "ranges" THEN TRUE ELSE UNCHANGED rangeVars
  /\ IF f = "segments" THEN TRUE ELSE UNCHANGED segmentVars
  /\ IF f = "rar" THEN TRUE ELSE UNCHANGED rarVars
  /\ IF f = "cairn" THEN TRUE ELSE UNCHANGED cairnVars
  /\ IF f = "rss" THEN TRUE ELSE UNCHANGED rssVars
  /\ IF f = "wallet" THEN TRUE ELSE UNCHANGED vars
  /\ IF f = "storage" THEN TRUE ELSE UNCHANGED storageVars
  /\ IF f = "search" THEN TRUE ELSE UNCHANGED searchVars
  /\ IF f = "warmer" THEN TRUE ELSE UNCHANGED prewarmVars
  /\ UNCHANGED focus

PartsInit ==
  /\ focus \in Foci
  /\ ByosInit
  /\ PoolInit
  /\ StreamInit
  /\ SpeedInit
  /\ RangeInit
  /\ SegmentInit
  /\ RarInit
  /\ CairnInit /\ (focus # "cairn" => archive = NoArchive)
  /\ RssFresh /\ enabled = (focus = "rss")
  /\ Init /\ (focus # "wallet" => pc[t4] = "start" /\ pc[t3] = "start")
  /\ StorageInit /\ (focus # "storage" => stored = <<>>)
  /\ SearchInit
  /\ PrewarmInit

PartsNext ==
  /\ \/ focus = "byos" /\ ByosNext
     \/ focus = "pools" /\ PoolNext
     \/ focus = "streams" /\ StreamNext
     \/ focus = "speedtest" /\ SpeedNext
     \/ focus = "ranges" /\ RangeNext
     \/ focus = "segments" /\ SegmentNext
     \/ focus = "rar" /\ RarNext
     \/ focus = "cairn" /\ CairnNext
     \/ focus = "rss" /\ RssNext
     \/ focus = "wallet" /\ Next
     \/ focus = "storage" /\ StorageNext
     \/ focus = "search" /\ SearchNext
     \/ focus = "warmer" /\ PrewarmNext
  /\ Resting(focus)

PartsSpec == PartsInit /\ [][PartsNext]_partsVars

\* The fairness each module states, for its own behaviours.
PartsFairness ==
  /\ \A g \in Go : WF_byosVars(focus = "byos" /\ GoStep(g))
  /\ WF_byosVars(focus = "byos" /\ ListQueue)
  /\ \A j \in Item : WF_byosVars(focus = "byos" /\ RefuseItem(j))
  /\ \A j \in Item : SF_byosVars(focus = "byos" /\ \E g \in Go : SubmitItem(j, g))
  /\ \A t \in Timer : WF_poolVars(focus = "pools" /\ TimerFires(t))
  /\ \A t \in Timer : WF_poolVars(focus = "pools" /\ LingerOver(t))
  /\ \A e \in PoolEntry : WF_poolVars(focus = "pools" /\ OrphanOffered(e))
  /\ \A e \in PoolEntry : WF_poolVars(focus = "pools" /\ OrphanPut(e))
  /\ \A r \in Reading : WF_streamVars(focus = "streams" /\ StreamStep(r))
  /\ \A r \in Reading : WF_streamVars(focus = "streams" /\ Prewarm(r))
  /\ WF_segmentVars(focus = "segments" /\ ReaderStep)
  /\ \A f \in Fetcher : WF_segmentVars(focus = "segments" /\ WorkerStep(f))
  /\ WF_rarVars(focus = "rar" /\ ReadFragment)
  /\ WF_rarVars(focus = "rar" /\ RarReadOver)
  /\ \A p \in Posting : WF_cairnVars(focus = "cairn" /\ CairnStep(p))
  /\ \A n \in Keeper : WF_cairnVars(focus = "cairn" /\ ReconcileCairns(n))
  /\ WF_rssVars(focus = "rss" /\ SweepStep)
  /\ WF_searchVars(focus = "search" /\ SearchTick)
  /\ \A q \in Search : WF_searchVars(focus = "search" /\ SearchStep(q))
  /\ \A r \in Retrier : WF_prewarmVars(focus = "warmer" /\ RetrierStep(r))
  /\ \A a \in Caller : WF_prewarmVars(focus = "warmer" /\ ActorStep(a))
  /\ WF_prewarmVars(focus = "warmer" /\ \E i \in DOMAIN warmRows : WarmEnds(i, "failed") \/ WarmEnds(i, "complete"))
LivePartsSpec == PartsSpec /\ PartsFairness

\* The variables of each component have the types the code gives them.
ServicesTypeOK ==
  /\ focus = "byos" => ByosTypeOK
  /\ focus = "pools" => PoolTypeOK
  /\ focus = "streams" => StreamTypeOK
  /\ focus = "speedtest" => SpeedTypeOK
  /\ focus = "ranges" => RangeTypeOK
  /\ focus = "segments" => SegmentTypeOK
  /\ focus = "rar" => RarTypeOK
  /\ focus = "cairn" => CairnTypeOK
  /\ focus = "rss" => RssTypeOK
  /\ focus = "storage" => StorageTypeOK
  /\ focus = "search" => SearchTypeOK
  /\ focus = "warmer" => PrewarmTypeOK
  /\ WalletInv

-----------------------------------------------------------------------------
\* What is shared is given back once and never taken from its user: a mirroring has one
\* transfer and its places are balanced (pool.go of byos), a pool stays open and
\* registered while it is used (pool.go of usenet), and the guards on streams and speed
\* tests count who is in (streamlimit.go, speedtest.go).
SharedIsCounted ==
  /\ OneTransfer
  /\ BooksBalance
  /\ OpenWhileUsed
  /\ SharedIsOpen
  /\ LentAccounted
  /\ GuardsBalance
  /\ SpeedBounded

\* The bytes of an answer are the file's: ranges of encrypted files and zips (stream.go,
\* ziplayout.go), segments read ahead, with zeros for lost articles only (readerat.go),
\* and fragments of volumes (rar.go).
AnswerIsFile ==
  /\ AnswerIsSlice
  /\ DirectoryLeads
  /\ NoNilChunk
  /\ ZerosOnlyLost
  /\ HolesLimited
  /\ RarReadIsFile

\* What a row says is stored can be reached: an archive has its NZB where the row says
\* and one node makes it (archive.go), a storage that was saved was reached, and a
\* transfer goes where its row said (storage_connect.go).
StoredIsReachable ==
  /\ ArchiveReadable
  /\ OneArchiver
  /\ TransferKeepsItsRow
  /\ SavedWasReached

\* What is added, answered or fetched ahead is what the rules choose: a feed's item once
\* and only if wanted (rss.go), answers fresh, of the indexer they are labelled with and
\* the best of their twins (search.go, fanout.go), and a title's next release only after
\* the better ones (prewarm.go).
ChosenIsBest ==
  /\ AddedOnce
  /\ UnwantedIsUnwanted
  /\ AnswersAreFresh
  /\ LabelNamesIndexer
  /\ BestOfTwins
  /\ BetterWereTried
  /\ NothingForgotten

\* A reader gets an answer: segments and volumes are read to the end, a warming and a
\* search end, and an idle pool is closed (readerat.go, rar.go, cairn.go, fanout.go,
\* pool.go).
ReadersFinish ==
  /\ IdleCloses
  /\ PrewarmEnds
  /\ ReadsEnd
  /\ RarReadEnds
  /\ SearchAnswers

\* What loops do behind the requests comes to an end: a mirroring, a wish for an archive,
\* a feed's item, a title's fallback (main.go of byos and cairn, rss.go, workers.go).
BackgroundWorkEnds ==
  /\ ItemsEnd
  /\ WishesFulfilled
  /\ ItemsDealtWith
  /\ TitleEnds
=============================================================================
