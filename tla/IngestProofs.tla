---------------------------- MODULE IngestProofs ----------------------------
(***************************************************************************)
(* What the bundle of ingest components promises for every value of its    *)
(* constants, put together from the inductive invariants of RunnerProofs   *)
(* and those of a check of the cache and of the requests for a release,    *)
(* which come first.                                                       *)
(***************************************************************************)
EXTENDS MCIngest, RunnerProofs

-----------------------------------------------------------------------------
(* A check of the cache.                                                   *)

Entries == [has : BOOLEAN, left : Nat, age : Nat]

CheckTypes ==
  /\ recent \in [Process -> [Torrent -> Entries]] /\ shared \in [Torrent -> Entries]
  /\ status \in [Ask -> [Torrent -> {"unknown", "cached", "acceleratable"}]]
  /\ tier \in [Ask -> {"start", "here", "archive", "live", "asked", "answered"}]
  /\ DOMAIN rowsSeen = Ask /\ DOMAIN todo = Ask
  /\ hereSince \in [Ask -> SUBSET Torrent] /\ DOMAIN agesUsed = Ask

\* What has been here since the check began has had a row since then, and from the tier that
\* trusts rows on it is called cached; before, nothing is called anything else.
RowsInv ==
  \A a \in Ask :
    /\ hereSince[a] \subseteq rowsSeen[a]
    /\ tier[a] = "here" => \A t \in Torrent : status[a][t] \in {"unknown", "cached"}
    /\ tier[a] \notin {"start", "here"} => \A t \in rowsSeen[a] \intersect Torrent : status[a][t] = "cached"

\* In the table an entry lives one life; in memory it has begun by the end of that one.
Life(e, most) == e.age + e.left <= most
LivesInv ==
  /\ \A t \in Torrent : Life(shared[t], CacheLife)
  /\ \A p \in Process, t \in Torrent : Life(recent[p][t], 2 * CacheLife - 1)
  /\ \A a \in Ask : \A n \in agesUsed[a] : n < 2 * CacheLife

CheckIInv == CheckTypes /\ RowsInv /\ LivesInv

LEMMA LivesNumbers == CacheLife \in Nat /\ CacheLife >= 1 /\ 2 * CacheLife - 1 \in Nat
  BY CheckAssumption

LEMMA NewEntry ==
  ASSUME NEW has \in BOOLEAN, NEW age \in Nat
  PROVE  /\ Entry(has, age) \in Entries
         /\ age = 0 => Life(Entry(has, age), CacheLife)
         /\ age < CacheLife => Life(Entry(has, age), 2 * CacheLife - 1)
  <1>1. Entry(has, age) \in Entries
    BY LivesNumbers DEF Entry, Entries
  <1>2. Entry(has, age).left = CacheLife /\ Entry(has, age).age = age
    BY DEF Entry
  <1>3. /\ age = 0 => age + CacheLife <= CacheLife
        /\ age < CacheLife => age + CacheLife <= 2 * CacheLife - 1
    BY LivesNumbers
  <1> QED
    BY <1>1, <1>2, <1>3 DEF Life

LEMMA ShorterLife ==
  ASSUME NEW e \in Entries, Life(e, CacheLife)
  PROVE  Life(e, 2 * CacheLife - 1)
  BY LivesNumbers DEF Life, Entries

LEMMA ExpiredLives == Expired \in Entries /\ Life(Expired, CacheLife) /\ Life(Expired, 2 * CacheLife - 1)
  BY LivesNumbers DEF Expired, Entries, Life

LEMMA OlderLives ==
  ASSUME NEW e \in Entries, NEW most \in Nat, Life(e, most)
  PROVE  Older(e) \in Entries /\ Life(Older(e), most)
  <1>1. CASE e.left = 0
    <2>1. Older(e) = Expired
      BY <1>1 DEF Older
    <2>2. Life(Expired, most)
      BY DEF Expired, Life
    <2> QED
      BY <2>1, <2>2, ExpiredLives
  <1>2. CASE e.left # 0
    <2>1. /\ Older(e) = [e EXCEPT !.left = e.left - 1, !.age = e.age + 1]
          /\ e.left \in Nat /\ e.age \in Nat /\ e.has \in BOOLEAN
      BY <1>2 DEF Older, Entries
    <2>2. e.left - 1 \in Nat /\ e.age + 1 \in Nat /\ (e.age + 1) + (e.left - 1) <= most
      BY <1>2, <2>1 DEF Life
    <2>3. Older(e) \in Entries /\ Older(e).left = e.left - 1 /\ Older(e).age = e.age + 1
      BY <2>1, <2>2 DEF Entries
    <2> QED
      BY <2>2, <2>3 DEF Life
  <1> QED
    BY <1>1, <1>2

LEMMA CheckInitially == CheckInit => CheckIInv
  <1> SUFFICES ASSUME CheckInit PROVE CheckIInv
    OBVIOUS
  <1>1. CheckTypes
    BY ExpiredLives DEF CheckInit, CheckTypes
  <1>2. RowsInv
    BY DEF CheckInit, RowsInv
  <1>3. LivesInv
    BY ExpiredLives DEF CheckInit, LivesInv
  <1> QED
    BY <1>1, <1>2, <1>3 DEF CheckIInv

\* A status that is there stays.
LEMMA SetStatusIs ==
  ASSUME CheckIInv, NEW a \in Ask, NEW S, NEW s \in {"cached", "acceleratable"}
  PROVE  /\ SetStatus(a, S, s) \in [Ask -> [Torrent -> {"unknown", "cached", "acceleratable"}]]
         /\ \A b \in Ask \ {a} : SetStatus(a, S, s)[b] = status[b]
         /\ \A t \in Torrent : status[a][t] = "cached" => SetStatus(a, S, s)[a][t] = "cached"
         /\ \A t \in Torrent : SetStatus(a, S, s)[a][t] \in {status[a][t], s}
         /\ \A t \in S \intersect Torrent : status[a][t] = "unknown" => SetStatus(a, S, s)[a][t] = s
  BY DEF SetStatus, CheckIInv, CheckTypes

\* Everything but the entries stays, or what a request has seen only shrinks.
LEMMA RowsKept ==
  ASSUME CheckIInv, CheckTypes', RowsInv', LivesInv'
  PROVE  CheckIInv'
  BY DEF CheckIInv

LEMMA BeginCheckKeeps ==
  ASSUME CheckIInv, NEW a \in Ask, BeginCheck(a)
  PROVE  CheckIInv'
  <1>1. CheckTypes'
    BY DEF CheckIInv, CheckTypes, BeginCheck, stored, entries
  <1>2. RowsInv'
    BY DEF CheckIInv, CheckTypes, RowsInv, BeginCheck
  <1>3. LivesInv'
    BY DEF CheckIInv, CheckTypes, LivesInv, BeginCheck, entries
  <1> QED
    BY <1>1, <1>2, <1>3 DEF CheckIInv

LEMMA LookHereKeeps ==
  ASSUME CheckIInv, NEW a \in Ask, NEW t \in Torrent, LookHere(a, t)
  PROVE  CheckIInv'
  <1>1. UNCHANGED <<entries, tier, rowsSeen, hereSince, agesUsed>> /\ tier[a] = "here"
        /\ todo' = [todo EXCEPT ![a] = @ \ {t}] /\ status' \in {status, SetStatus(a, {t}, "cached")}
    BY DEF LookHere
  <1>2. CheckTypes' /\ LivesInv'
    BY <1>1, SetStatusIs DEF CheckIInv, CheckTypes, LivesInv, entries
  <1>3. RowsInv'
    BY <1>1, SetStatusIs DEF CheckIInv, RowsInv
  <1> QED
    BY <1>2, <1>3 DEF CheckIInv

LEMMA TrustRowsKeeps ==
  ASSUME CheckIInv, NEW a \in Ask, TrustRows(a)
  PROVE  CheckIInv'
  <1>1. /\ UNCHANGED <<entries, rowsSeen, hereSince, agesUsed>>
        /\ tier[a] = "here" /\ tier' = [tier EXCEPT ![a] = "archive"] /\ DOMAIN todo' = DOMAIN todo
        /\ status' = SetStatus(a, rowsSeen[a], "cached")
    BY DEF TrustRows
  <1>2. CheckTypes' /\ LivesInv'
    BY <1>1, SetStatusIs DEF CheckIInv, CheckTypes, LivesInv, entries
  <1>3. RowsInv'
    <2>1. \A t \in rowsSeen[a] \intersect Torrent : status[a][t] \in {"unknown", "cached"}
      BY <1>1 DEF CheckIInv, RowsInv
    <2>2. \A t \in rowsSeen[a] \intersect Torrent : status'[a][t] = "cached"
      BY <1>1, <2>1, SetStatusIs
    <2>3. tier'[a] = "archive" /\ \A b \in Ask \ {a} : tier'[b] = tier[b] /\ status'[b] = status[b]
      BY <1>1, SetStatusIs DEF CheckIInv, CheckTypes
    <2> QED
      BY <1>1, <2>2, <2>3 DEF CheckIInv, RowsInv
  <1> QED
    BY <1>2, <1>3 DEF CheckIInv

\* A tier after the rows names nothing that they have named.
LEMMA LaterTierKeeps ==
  ASSUME CheckIInv, NEW a \in Ask, tier[a] \notin {"start", "here"},
         UNCHANGED <<rowsSeen, hereSince>>, NEW next, next \notin {"start", "here"},
         tier' = [tier EXCEPT ![a] = next], NEW S, NEW s \in {"cached", "acceleratable"},
         status' \in {status, SetStatus(a, S, s)}
  PROVE  RowsInv'
  <1>1. tier'[a] = next /\ \A b \in Ask \ {a} : tier'[b] = tier[b] /\ status'[b] = status[b]
    BY SetStatusIs DEF CheckIInv, CheckTypes
  <1>2. \A t \in Torrent : status[a][t] = "cached" => status'[a][t] = "cached"
    BY SetStatusIs
  <1> QED
    BY <1>1, <1>2 DEF CheckIInv, RowsInv

LEMMA LookInArchiveKeeps ==
  ASSUME CheckIInv, NEW a \in Ask, NEW t \in Torrent, LookInArchive(a, t)
  PROVE  CheckIInv'
  <1>1. /\ UNCHANGED <<entries, tier, rowsSeen, hereSince, agesUsed>> /\ tier[a] = "archive"
        /\ DOMAIN todo' = DOMAIN todo /\ status' \in {status, SetStatus(a, {t}, "cached")}
    BY DEF LookInArchive
  <1>2. CheckTypes' /\ LivesInv'
    BY <1>1, SetStatusIs DEF CheckIInv, CheckTypes, LivesInv, entries
  <1>3. tier' = [tier EXCEPT ![a] = "archive"]
    BY <1>1 DEF CheckIInv, CheckTypes
  <1>4. RowsInv'
    BY <1>1, <1>3, LaterTierKeeps
  <1> QED
    BY <1>2, <1>4 DEF CheckIInv

LEMMA LookForQuickKeeps ==
  ASSUME CheckIInv, NEW a \in Ask, LookForQuick(a)
  PROVE  CheckIInv'
  <1>1. /\ UNCHANGED <<entries, rowsSeen, todo, hereSince, agesUsed>> /\ tier[a] = "archive"
        /\ status' = SetStatus(a, quick, "acceleratable")
    BY DEF LookForQuick
  <1>2. PICK next \in {"answered", "live"} : tier' = [tier EXCEPT ![a] = next]
    BY DEF LookForQuick
  <1>3. CheckTypes' /\ LivesInv'
    BY <1>1, <1>2, SetStatusIs DEF CheckIInv, CheckTypes, LivesInv, entries
  <1>4. RowsInv'
    BY <1>1, <1>2, LaterTierKeeps
  <1> QED
    BY <1>3, <1>4 DEF CheckIInv

LEMMA LookUpKeeps ==
  ASSUME CheckIInv, NEW a \in Ask, LookUp(a)
  PROVE  CheckIInv'
  <1> DEFINE p == ProcessOf[a]
             inMem == {t \in Unknown(a) : recent[p][t].left > 0}
             inTable == {t \in Unknown(a) \ inMem : shared[t].left > 0}
             found == [t \in inMem \union inTable |-> IF t \in inMem THEN recent[p][t] ELSE shared[t]]
             entry(t) == IF t \in inMem THEN recent[p][t]
                        ELSE IF t \in inTable THEN Entry(shared[t].has, shared[t].age) ELSE recent[p][t]
  <1>1. /\ UNCHANGED <<shared, rowsSeen, hereSince>> /\ tier[a] = "live" /\ DOMAIN todo' = DOMAIN todo
        /\ agesUsed' = [agesUsed EXCEPT ![a] = {found[t].age : t \in DOMAIN found}]
        /\ status' = SetStatus(a, {t \in DOMAIN found : found[t].has}, "acceleratable")
    BY DEF LookUp
  <1>2. recent' = [recent EXCEPT ![p] = [t \in Torrent |-> entry(t)]]
    BY DEF LookUp, MemLookup
  <1>3. PICK next \in {"answered", "asked"} : tier' = [tier EXCEPT ![a] = next]
    BY DEF LookUp
  <1>4. p \in Process /\ Unknown(a) \subseteq Torrent
    BY DEF Process, Unknown
  <1>5. \A t \in Torrent : /\ recent[p][t] \in Entries /\ Life(recent[p][t], 2 * CacheLife - 1)
                           /\ shared[t] \in Entries /\ Life(shared[t], CacheLife)
    BY <1>4 DEF CheckIInv, CheckTypes, LivesInv
  <1>6. \A t \in Torrent : shared[t].left > 0 => shared[t].age \in Nat /\ shared[t].age < CacheLife
    BY <1>5, LivesNumbers DEF Life, Entries
  <1>7. \A t \in Torrent : entry(t) \in Entries /\ Life(entry(t), 2 * CacheLife - 1)
    <2> SUFFICES ASSUME NEW t \in Torrent PROVE entry(t) \in Entries /\ Life(entry(t), 2 * CacheLife - 1)
      OBVIOUS
    <2>1. CASE t \in inTable /\ t \notin inMem
      <3>1. shared[t].has \in BOOLEAN /\ shared[t].age \in Nat /\ shared[t].age < CacheLife
        BY <1>5, <1>6, <2>1 DEF Entries
      <3>2. entry(t) = Entry(shared[t].has, shared[t].age)
        BY <2>1
      <3> QED
        BY <3>1, <3>2, NewEntry
    <2>2. CASE t \in inMem \/ t \notin inTable
      BY <1>5, <2>2
    <2> QED
      BY <2>1, <2>2
  <1>8. \A t \in DOMAIN found : found[t].age < 2 * CacheLife
    <2> SUFFICES ASSUME NEW t \in inMem \union inTable PROVE found[t].age < 2 * CacheLife
      OBVIOUS
    <2>1. CASE t \in inMem
      <3>1. recent[p][t].left > 0 /\ t \in Torrent
        BY <1>4, <2>1
      <3>2. recent[p][t].age < 2 * CacheLife
        BY <1>5, <3>1, LivesNumbers DEF Life, Entries
      <3> QED
        BY <2>1, <3>2
    <2>2. CASE t \notin inMem
      <3>1. shared[t].age \in Nat /\ shared[t].age < CacheLife
        BY <1>4, <1>6, <2>2
      <3>2. shared[t].age < 2 * CacheLife
        BY <3>1, LivesNumbers
      <3> QED
        BY <2>2, <3>2
    <2> QED
      BY <2>1, <2>2
  <1> HIDE DEF entry, found, inMem, inTable
  <1>9. CheckTypes'
    BY <1>1, <1>2, <1>3, <1>4, <1>7, SetStatusIs DEF CheckIInv, CheckTypes
  <1>10. RowsInv'
    BY <1>1, <1>3, LaterTierKeeps
  <1>11. LivesInv'
    <2>1. \A q \in Process, t \in Torrent : recent'[q][t] = IF q = p THEN entry(t) ELSE recent[q][t]
      BY <1>2, <1>4 DEF CheckIInv, CheckTypes
    <2>2. \A b \in Ask : agesUsed'[b] = IF b = a THEN {found[t].age : t \in DOMAIN found} ELSE agesUsed[b]
      BY <1>1 DEF CheckIInv, CheckTypes
    <2> QED
      BY <1>1, <1>7, <1>8, <2>1, <2>2 DEF CheckIInv, LivesInv
  <1> QED
    BY <1>9, <1>10, <1>11 DEF CheckIInv

LEMMA ProviderAnswersKeeps ==
  ASSUME CheckIInv, NEW a \in Ask, ProviderAnswers(a)
  PROVE  CheckIInv'
  <1>1. /\ UNCHANGED <<rowsSeen, todo, hereSince, agesUsed>> /\ tier[a] = "asked"
        /\ tier' = [tier EXCEPT ![a] = "answered"]
    BY DEF ProviderAnswers
  <1>2. CASE UNCHANGED <<entries, status>>
    <2>1. CheckTypes' /\ LivesInv'
      BY <1>1, <1>2 DEF CheckIInv, CheckTypes, LivesInv, entries
    <2>2. RowsInv'
      BY <1>1, <1>2, LaterTierKeeps
    <2> QED
      BY <2>1, <2>2 DEF CheckIInv
  <1>3. CASE ~UNCHANGED <<entries, status>>
    <2> DEFINE hasOf(said, t) == t \in said /\ offers[t]
    <2>1. PICK said \in SUBSET todo[a] :
            /\ recent' = [recent EXCEPT ![ProcessOf[a]] = [t \in Torrent |->
                 IF t \in todo[a] THEN Entry(hasOf(said, t), 0) ELSE recent[ProcessOf[a]][t]]]
            /\ shared' = [t \in Torrent |-> IF t \in todo[a] THEN Entry(hasOf(said, t), 0) ELSE shared[t]]
            /\ status' = SetStatus(a, {t \in todo[a] : hasOf(said, t)}, "acceleratable")
      BY <1>3 DEF ProviderAnswers
    <2>2. \A t : hasOf(said, t) \in BOOLEAN
      OBVIOUS
    <2> HIDE DEF hasOf
    <2>3. ProcessOf[a] \in Process
      BY DEF Process
    <2>4. \A t : /\ Entry(hasOf(said, t), 0) \in Entries
                 /\ Life(Entry(hasOf(said, t), 0), CacheLife)
                 /\ Life(Entry(hasOf(said, t), 0), 2 * CacheLife - 1)
      <3> TAKE t
      <3>1. hasOf(said, t) \in BOOLEAN /\ 0 \in Nat /\ 0 < CacheLife
        BY <2>2, LivesNumbers
      <3> QED
        BY <3>1, NewEntry
    <2>5. CheckTypes'
      BY <1>1, <2>1, <2>3, <2>4, SetStatusIs DEF CheckIInv, CheckTypes
    <2>6. RowsInv'
      BY <1>1, <2>1, LaterTierKeeps
    <2>7. LivesInv'
      BY <1>1, <2>1, <2>3, <2>4 DEF CheckIInv, CheckTypes, LivesInv
    <2> QED
      BY <2>5, <2>6, <2>7 DEF CheckIInv
  <1> QED
    BY <1>2, <1>3

LEMMA StoreMoves ==
  ASSUME CheckIInv, NEW t \in Torrent, EvictBlob(t) \/ EvictRow(t) \/ Offers(t)
  PROVE  CheckIInv'
  <1>1. UNCHANGED <<entries, tier, rowsSeen, todo, status, agesUsed>>
        /\ hereSince' \in {hereSince, [a \in Ask |-> hereSince[a] \ {t}]}
    BY DEF EvictBlob, EvictRow, Offers, asking
  <1>2. hereSince' \in [Ask -> SUBSET Torrent] /\ \A a \in Ask : hereSince'[a] \subseteq hereSince[a]
    BY <1>1 DEF CheckIInv, CheckTypes
  <1> QED
    BY <1>1, <1>2 DEF CheckIInv, CheckTypes, RowsInv, LivesInv, entries

LEMMA TimeGoesByKeeps ==
  ASSUME CheckIInv, TimeGoesBy
  PROVE  CheckIInv'
  <1>1. /\ UNCHANGED asking
        /\ recent' = [p \in Process |-> [t \in Torrent |-> Older(recent[p][t])]]
        /\ shared' = [t \in Torrent |-> Older(shared[t])]
    BY DEF TimeGoesBy
  <1>2. \A t \in Torrent : Older(shared[t]) \in Entries /\ Life(Older(shared[t]), CacheLife)
    BY OlderLives, LivesNumbers DEF CheckIInv, CheckTypes, LivesInv
  <1>3. \A p \in Process, t \in Torrent :
          Older(recent[p][t]) \in Entries /\ Life(Older(recent[p][t]), 2 * CacheLife - 1)
    BY OlderLives, LivesNumbers DEF CheckIInv, CheckTypes, LivesInv
  <1> QED
    BY <1>1, <1>2, <1>3 DEF CheckIInv, CheckTypes, RowsInv, LivesInv, asking

LEMMA CheckStepKeeps == CheckIInv /\ [CheckNext]_checkVars => CheckIInv'
  <1>1. CheckIInv /\ UNCHANGED checkVars => CheckIInv'
    BY DEF checkVars, entries, asking, CheckIInv, CheckTypes, RowsInv, LivesInv
  <1> QED
    BY <1>1, BeginCheckKeeps, LookHereKeeps, TrustRowsKeeps, LookInArchiveKeeps, LookForQuickKeeps,
       LookUpKeeps, ProviderAnswersKeeps, StoreMoves, TimeGoesByKeeps
    DEF CheckNext, CheckStep

LEMMA CheckedRight == CheckIInv => HereIsCached /\ TwoLivesAtMost
  BY DEF CheckIInv, CheckTypes, RowsInv, LivesInv, HereIsCached, TwoLivesAtMost

-----------------------------------------------------------------------------
(* The requests for a release.                                             *)

RowStates == {"none", "active", "complete", "failed", "evicted"}
Knowing   == [hit : BOOLEAN, others : {"none", "active", "complete"}, failed : BOOLEAN]

GrabTypes ==
  /\ accountRow \in [Grabber -> [Contents -> RowStates]]
  /\ keptRows \subseteq Contents /\ cached \subseteq Contents
  /\ nzbUrl \in [Links -> Contents \union {NoContent}]
  /\ heldKey \in [Links \union Contents -> Grab \union {NoGrab}]
  /\ grabAt \in [Grab -> Nat \ {0}]
  /\ body \in [Grab -> Contents \union {NoContent}] /\ key \in [Grab -> Contents \union {NoContent}]
  /\ known \in [Grab -> Knowing]

Working(g) == grabAt[g] > 1 /\ ~Over(g)

\* A request works on what its link may bring, and a link is mapped to nothing else.
RolledInv ==
  /\ \A g \in Grab : key[g] # NoContent => key[g] \in Rolls[g]
  /\ \A g \in Grab : Working(g) => key[g] \in Rolls[g] /\ body[g] \in Rolls[g]
  /\ \A g \in Grab : LinkOf[g] # NoLink /\ nzbUrl[LinkOf[g]] # NoContent => nzbUrl[LinkOf[g]] \in Rolls[g]

\* Every facade locks before it looks, and a native request maps only a link that still has no
\* content.
LockedInv ==
  /\ \A g \in Grab : grabAt[g] > 2 /\ ~Over(g) => heldKey[LockKey(g)] = g
  /\ \A g \in Grab : LinkOf[g] # NoLink /\ FacadeOf[g] = "native" /\ grabAt[g] = 4
       => nzbUrl[LinkOf[g]] = NoContent

\* Past the map a request for a link works on the link's content, unless StremThru has
\* replaced that.
MappedInv ==
  \A g \in Grab :
    LinkOf[g] \in Links \ remapped /\ (IF Over(g) THEN key[g] # NoContent ELSE grabAt[g] > 4)
      => key[g] = nzbUrl[LinkOf[g]]

\* Until a link or the map decides, a request works on what it has fetched, of which it has
\* read nothing yet.
FreshInv ==
  \A g \in Grab :
    /\ grabAt[g] <= 3 => known[g] = Unread
    /\ grabAt[g] <= 4 => key[g] = body[g]

\* Whatever exists of a content that only Usenet brings has come from its NZB, and so has
\* what a request has read of it, or is about to admit.
UsenetOnly(c) == \A g \in Grab : c \in Rolls[g] => Usenet(g)
Stored == {c \in Contents : UsenetOnly(c) => c \in nzbFile}
Informed(g) == key[g] # NoContent /\ (known[g].hit \/ known[g].others # "none" \/ (Usenet(g) /\ AtStep(g, "admit")))
StoredInv ==
  /\ \A u \in Grabber, c \in Contents : accountRow[u][c] # "none" => c \in Stored
  /\ keptRows \union cached \subseteq Stored
  /\ \A g \in Grab : Informed(g) => key[g] \in Stored

GrabIInv == GrabTypes /\ RolledInv /\ LockedInv /\ MappedInv /\ FreshInv /\ StoredInv

\* The places of the steps that the invariant speaks of.
InPlace(steps, facade) ==
  \A n \in 1 .. Len(steps) :
    /\ steps[n] = "fetch" <=> n = 1
    /\ steps[n] = "lock" <=> n = 2
    /\ steps[n] = "link" <=> n = 3 /\ facade = "native"
    /\ steps[n] = "relink" <=> n = 3 /\ facade = "newz"
    /\ steps[n] = "map" <=> n = 4 /\ facade \in {"native", "newz"}

LEMMA Places ==
  ASSUME NEW g \in Grab
  PROVE  Len(StepsOf(g)) \in 8 .. 13 /\ InPlace(StepsOf(g), FacadeOf[g])
  <1>1. FacadeOf[g] \in Facades
    BY SubmissionAssumption
  <1>2. CASE FacadeOf[g] = "native"
    <2>1. StepsOf(g) = NativeSteps /\ Len(NativeSteps) = 13
      BY <1>2 DEF StepsOf, NativeSteps
    <2>2. InPlace(NativeSteps, "native")
      BY <2>1 DEF InPlace, NativeSteps
    <2> QED
      BY <1>2, <2>1, <2>2
  <1>3. CASE FacadeOf[g] = "newz"
    <2>1. StepsOf(g) = NewzSteps /\ Len(NewzSteps) = 11
      BY <1>3 DEF StepsOf, NewzSteps
    <2>2. InPlace(NewzSteps, "newz")
      BY <2>1 DEF InPlace, NewzSteps
    <2> QED
      BY <1>3, <2>1, <2>2
  <1>4. CASE FacadeOf[g] = "arrNzb"
    <2>1. StepsOf(g) = ArrNzbSteps /\ Len(ArrNzbSteps) = 9
      BY <1>4 DEF StepsOf, ArrNzbSteps
    <2>2. InPlace(ArrNzbSteps, "arrNzb")
      BY <2>1 DEF InPlace, ArrNzbSteps
    <2> QED
      BY <1>4, <2>1, <2>2
  <1>5. CASE FacadeOf[g] = "magnet"
    <2>1. StepsOf(g) = MagnetSteps /\ Len(MagnetSteps) = 9
      BY <1>5 DEF StepsOf, MagnetSteps
    <2>2. InPlace(MagnetSteps, "magnet")
      BY <2>1 DEF InPlace, MagnetSteps
    <2> QED
      BY <1>5, <2>1, <2>2
  <1>6. CASE FacadeOf[g] = "debridApi"
    <2>1. StepsOf(g) = DebridApiSteps /\ Len(DebridApiSteps) = 8
      BY <1>6 DEF StepsOf, DebridApiSteps
    <2>2. InPlace(DebridApiSteps, "debridApi")
      BY <2>1 DEF InPlace, DebridApiSteps
    <2> QED
      BY <1>6, <2>1, <2>2
  <1> QED
    BY <1>1, <1>2, <1>3, <1>4, <1>5, <1>6 DEF Facades

\* An NZB facade stores just before it admits, and nothing else comes just before.
LEMMA StoredBefore ==
  ASSUME NEW g \in Grab, Usenet(g), NEW n \in 1 .. Len(StepsOf(g)), n + 1 <= Len(StepsOf(g)),
         StepsOf(g)[n + 1] = "admit"
  PROVE  StepsOf(g)[n] = "store"
  <1>1. CASE FacadeOf[g] = "native"
    <2>1. StepsOf(g) = NativeSteps /\ Len(NativeSteps) = 13
      BY <1>1 DEF StepsOf, NativeSteps
    <2>2. \A m \in 1 .. 12 : NativeSteps[m + 1] = "admit" => NativeSteps[m] = "store"
      BY DEF NativeSteps
    <2> QED
      BY <2>1, <2>2
  <1>2. CASE FacadeOf[g] = "newz"
    <2>1. StepsOf(g) = NewzSteps /\ Len(NewzSteps) = 11
      BY <1>2 DEF StepsOf, NewzSteps
    <2>2. \A m \in 1 .. 10 : NewzSteps[m + 1] = "admit" => NewzSteps[m] = "store"
      BY DEF NewzSteps
    <2> QED
      BY <2>1, <2>2
  <1>3. CASE FacadeOf[g] = "arrNzb"
    <2>1. StepsOf(g) = ArrNzbSteps /\ Len(ArrNzbSteps) = 9
      BY <1>3 DEF StepsOf, ArrNzbSteps
    <2>2. \A m \in 1 .. 8 : ArrNzbSteps[m + 1] = "admit" => ArrNzbSteps[m] = "store"
      BY DEF ArrNzbSteps
    <2> QED
      BY <2>1, <2>2
  <1> QED
    BY <1>1, <1>2, <1>3 DEF Usenet

\* Past the first steps a request that names a link has been mapped.
LEMMA Later ==
  ASSUME GrabTypes, NEW g \in Grab, NEW s, AtStep(g, s), s \notin {"fetch", "lock", "link", "relink", "map"}
  PROVE  grabAt[g] > 2 /\ ~Over(g) /\ (LinkOf[g] # NoLink => grabAt[g] > 4)
  <1>1. grabAt[g] \in 1 .. Len(StepsOf(g)) /\ StepsOf(g)[grabAt[g]] = s
    BY Places DEF AtStep, Over, GrabTypes
  <1>2. LinkOf[g] # NoLink => FacadeOf[g] \in {"native", "newz"}
    BY SubmissionAssumption
  <1>3. grabAt[g] # 1 /\ grabAt[g] # 2
    BY <1>1, Places DEF InPlace
  <1>4. LinkOf[g] # NoLink => grabAt[g] # 3 /\ grabAt[g] # 4
    BY <1>1, <1>2, Places DEF InPlace
  <1> QED
    BY <1>1, <1>3, <1>4 DEF AtStep

LEMMA NotPast ==
  ASSUME NEW n \in 8 .. 13
  PROVE  /\ n + 1 # 4 /\ ~(n + 1 <= 3) /\ ~(n + 1 <= 4)
         /\ ~(2 > n) /\ ~(3 > n) /\ ~(4 > n) /\ ~(5 > n)
  OBVIOUS

\* A request is about to fetch, or it is past its last step.
LEMMA FirstOrPast ==
  ASSUME NEW n \in 8 .. 13, NEW m, m = 1 \/ m = n + 1
  PROVE  /\ m \in Nat \ {0} /\ (m # 1 => m >= 9)
         /\ m > n \/ m = 1
         /\ m > 1 => m > n
         /\ m = 1 => ~(m > n)
  OBVIOUS

LEMMA GrabInitially == SubmissionInit => GrabIInv
  <1> SUFFICES ASSUME SubmissionInit PROVE GrabIInv
    OBVIOUS
  <1>1. \A g \in Grab : grabAt[g] = 1 \/ (grabAt[g] = Len(StepsOf(g)) + 1 /\ grabAt[g] \in Nat /\ grabAt[g] >= 9)
    <2>1. PICK round \in Rounds : grabAt = [g \in Grab |-> IF g \in round THEN 1 ELSE Len(StepsOf(g)) + 1]
      BY DEF SubmissionInit
    <2> SUFFICES ASSUME NEW g \in Grab, grabAt[g] # 1
                 PROVE  grabAt[g] = Len(StepsOf(g)) + 1 /\ grabAt[g] \in Nat /\ grabAt[g] >= 9
      OBVIOUS
    <2>2. grabAt[g] = Len(StepsOf(g)) + 1
      BY <2>1
    <2>3. Len(StepsOf(g)) \in 8 .. 13
      BY Places
    <2> QED
      BY <2>2, <2>3, FirstOrPast
  <1>2. grabAt \in [Grab -> Nat \ {0}]
    BY <1>1, Places DEF SubmissionInit
  <1>3. \A g \in Grab : ~Working(g) /\ (Over(g) \/ grabAt[g] = 1) /\ (grabAt[g] = 1 => ~Over(g))
    <2> SUFFICES ASSUME NEW g \in Grab
                 PROVE  ~Working(g) /\ (Over(g) \/ grabAt[g] = 1) /\ (grabAt[g] = 1 => ~Over(g))
      OBVIOUS
    <2>1. Len(StepsOf(g)) \in 8 .. 13
      BY Places
    <2>2. grabAt[g] = 1 \/ grabAt[g] = Len(StepsOf(g)) + 1
      BY <1>1
    <2> QED
      BY <2>1, <2>2, FirstOrPast DEF Working, Over
  <1>4. GrabTypes
    <2>1. Unread \in Knowing
      BY DEF Unread, Knowing
    <2> QED
      BY <1>2, <2>1 DEF SubmissionInit, GrabTypes, RowStates
  <1>5. RolledInv /\ FreshInv
    BY <1>3 DEF SubmissionInit, RolledInv, FreshInv, Links
  <1>6. LockedInv
    BY <1>1, <1>3 DEF SubmissionInit, LockedInv
  <1>7. MappedInv
    BY <1>1, <1>3 DEF SubmissionInit, MappedInv
  <1>8. StoredInv
    BY DEF SubmissionInit, StoredInv, Informed
  <1> QED
    BY <1>4, <1>5, <1>6, <1>7, <1>8 DEF GrabIInv

\* A step that neither fetches, locks nor maps: the request goes on, or returns and unlocks.
Proceeds(g) ==
  /\ GoesOn(g) \/ Returns(g)
  /\ UNCHANGED <<body, key, nzbUrl, remapped>>
  /\ ~Over(g) /\ grabAt[g] > 2 /\ (LinkOf[g] # NoLink => grabAt[g] > 4)

LEMMA MovesOn ==
  ASSUME GrabTypes, NEW g \in Grab, GoesOn(g) \/ Returns(g)
  PROVE  /\ grabAt' \in [Grab -> Nat \ {0}] /\ \A h \in Grab \ {g} : grabAt'[h] = grabAt[h]
         /\ grabAt'[g] = grabAt[g] + 1 \/ (grabAt'[g] = Len(StepsOf(g)) + 1 /\ Over(g)')
         /\ heldKey' \in [Links \union Contents -> Grab \union {NoGrab}]
         /\ \A k \in Links \union Contents, h \in Grab \ {g} : heldKey[k] = h => heldKey'[k] = h
         /\ Over(g)' \/ UNCHANGED heldKey
  <1>1. Len(StepsOf(g)) \in 8 .. 13
    BY Places
  <1>2. CASE GoesOn(g)
    BY <1>2 DEF GoesOn, GrabTypes
  <1>3. CASE Returns(g)
    <2>1. grabAt' = [grabAt EXCEPT ![g] = Len(StepsOf(g)) + 1]
      BY <1>3 DEF Returns
    <2>2. grabAt' \in [Grab -> Nat \ {0}] /\ grabAt'[g] = Len(StepsOf(g)) + 1 /\ \A h \in Grab \ {g} : grabAt'[h] = grabAt[h]
      BY <1>1, <2>1 DEF GrabTypes
    <2>3. Over(g)'
      BY <1>1, <2>2 DEF Over
    <2>4. heldKey' \in [Links \union Contents -> Grab \union {NoGrab}]
          /\ \A k \in Links \union Contents, h \in Grab \ {g} : heldKey[k] = h => heldKey'[k] = h
      BY <1>3 DEF Returns, GrabTypes
    <2> QED
      BY <2>2, <2>3, <2>4
  <1> QED
    BY <1>2, <1>3


LEMMA ProceedsKeep ==
  ASSUME GrabIInv, NEW g \in Grab, Proceeds(g)
  PROVE  RolledInv' /\ LockedInv' /\ MappedInv'
  <1>1. GrabTypes /\ RolledInv /\ LockedInv /\ MappedInv
    BY DEF GrabIInv
  <1>2. /\ \A h \in Grab \ {g} : grabAt'[h] = grabAt[h]
        /\ grabAt'[g] = grabAt[g] + 1 \/ (grabAt'[g] = Len(StepsOf(g)) + 1 /\ Over(g)')
        /\ \A k \in Links \union Contents, h \in Grab \ {g} : heldKey[k] = h => heldKey'[k] = h
        /\ Over(g)' \/ UNCHANGED heldKey
    BY <1>1, MovesOn DEF Proceeds
  <1>3. UNCHANGED <<body, key, nzbUrl, remapped>> /\ grabAt[g] > 2 /\ ~Over(g) /\ (LinkOf[g] # NoLink => grabAt[g] > 4)
        /\ grabAt[g] \in Nat
    BY <1>1 DEF Proceeds, GrabTypes
  <1>4. \A h \in Grab \ {g} : (Over(h)' <=> Over(h)) /\ (Working(h)' <=> Working(h))
    BY <1>2 DEF Over, Working
  <1>5. Working(g)
    BY <1>3 DEF Working
  <1>6. RolledInv'
    <2>1. \A h \in Grab : Working(h)' => Working(h)
      BY <1>4, <1>5
    <2> QED
      BY <1>1, <1>3, <2>1 DEF RolledInv
  <1>7. LockedInv'
    <2>1. ASSUME NEW h \in Grab, grabAt'[h] > 2, ~Over(h)'
          PROVE  heldKey'[LockKey(h)'] = h
      <3>1. LockKey(h)' = LockKey(h)
        BY <1>3 DEF LockKey
      <3>2. CASE h # g
        <4>1. heldKey[LockKey(h)] = h
          BY <1>1, <1>2, <1>4, <2>1, <3>2 DEF LockedInv
        <4>2. LockKey(h) \in Links \union Contents
          <5>1. Working(h)
            <6>1. grabAt'[h] = grabAt[h] /\ grabAt[h] \in Nat /\ ~Over(h)
              BY <1>1, <1>2, <1>4, <2>1, <3>2 DEF GrabTypes
            <6> QED
              BY <2>1, <6>1 DEF Working
          <5> QED
            BY <1>1, <5>1 DEF RolledInv, LockKey, Links, Contents
        <4> QED
          BY <1>2, <3>1, <3>2, <4>1, <4>2
      <3>3. CASE h = g
        BY <1>1, <1>2, <1>3, <2>1, <3>1, <3>3 DEF LockedInv
      <3> QED
        BY <3>2, <3>3
    <2>2. ASSUME NEW h \in Grab, LinkOf[h] # NoLink, FacadeOf[h] = "native", grabAt'[h] = 4
          PROVE  nzbUrl'[LinkOf[h]] = NoContent
      <3>1. h # g
        <4> SUFFICES ASSUME h = g PROVE FALSE
          OBVIOUS
        <4>1. Len(StepsOf(g)) \in 8 .. 13
          BY Places
        <4>2. Len(StepsOf(g)) + 1 # 4
          BY <4>1, NotPast
        <4>3. grabAt[g] \in Nat /\ grabAt[g] > 4
          BY <1>3, <2>2
        <4>4. grabAt[g] + 1 # 4
          BY ONLY <4>3
        <4> QED
          BY <1>2, <2>2, <4>2, <4>4
      <3> QED
        BY <1>1, <1>2, <1>3, <2>2, <3>1 DEF LockedInv
    <2> QED
      BY <2>1, <2>2 DEF LockedInv
  <1>8. MappedInv'
    <2> SUFFICES ASSUME NEW h \in Grab, LinkOf[h] \in Links \ remapped,
                        IF Over(h)' THEN key[h] # NoContent ELSE grabAt'[h] > 4
                 PROVE  key[h] = nzbUrl[LinkOf[h]]
      BY <1>3 DEF MappedInv
    <2>1. CASE h # g
      BY <1>1, <1>2, <1>4, <2>1 DEF MappedInv
    <2>2. CASE h = g
      <3>1. grabAt[g] > 4
        BY <1>3, <2>2 DEF Links
      <3> QED
        BY <1>1, <1>3, <2>2, <3>1 DEF MappedInv
    <2> QED
      BY <2>1, <2>2
  <1> QED
    BY <1>6, <1>7, <1>8

\* What happens meanwhile touches no request and no link.
LEMMA MeanwhileKeeps ==
  ASSUME GrabIInv, UNCHANGED <<grabAt, body, key, known, heldKey, nzbUrl, remapped>>
  PROVE  RolledInv' /\ LockedInv' /\ MappedInv' /\ FreshInv'
  BY DEF GrabIInv, RolledInv, LockedInv, MappedInv, FreshInv, Working, Over, LockKey


LEMMA FetchKeeps ==
  ASSUME GrabIInv, NEW g \in Grab, Fetch(g)
  PROVE  GrabTypes' /\ RolledInv' /\ LockedInv' /\ MappedInv' /\ FreshInv'
  <1>1. GrabTypes /\ RolledInv /\ LockedInv /\ MappedInv /\ FreshInv
    BY DEF GrabIInv
  <1>2. grabAt[g] = 1
    <2>1. AtStep(g, "fetch")
      BY DEF Fetch
    <2>2. grabAt[g] \in 1 .. Len(StepsOf(g)) /\ StepsOf(g)[grabAt[g]] = "fetch"
      BY <1>1, <2>1, Places DEF AtStep, Over, GrabTypes
    <2> QED
      BY <2>2, Places DEF InPlace
  <1>3. PICK c \in Rolls[g] : body' = [body EXCEPT ![g] = c] /\ key' = [key EXCEPT ![g] = c]
    BY DEF Fetch
  <1>4. /\ grabAt' = [grabAt EXCEPT ![g] = 2]
        /\ UNCHANGED <<accountRow, keptRows, cached, nzbUrl, heldKey, known, remapped>>
    BY <1>1, <1>2 DEF Fetch
  <1>5. c \in Contents
    BY <1>3 DEF Contents
  <1>6. GrabTypes'
    BY <1>1, <1>3, <1>4, <1>5 DEF GrabTypes
  <1>7. /\ grabAt'[g] = 2 /\ key'[g] = c /\ body'[g] = c
        /\ \A h \in Grab \ {g} : grabAt'[h] = grabAt[h] /\ key'[h] = key[h] /\ body'[h] = body[h]
    BY <1>1, <1>3, <1>4 DEF GrabTypes
  <1>8. ~Over(g)' /\ \A h \in Grab \ {g} : (Over(h)' <=> Over(h)) /\ (Working(h)' <=> Working(h)) /\ LockKey(h)' = LockKey(h)
    <2>1. Len(StepsOf(g)) \in 8 .. 13
      BY Places
    <2>2. ~Over(g)'
      BY <1>7, <2>1, NotPast DEF Over
    <2> QED
      BY <1>7, <2>2 DEF Over, Working, LockKey
  <1>9. RolledInv'
    BY <1>1, <1>3, <1>4, <1>7, <1>8 DEF RolledInv
  <1>10. LockedInv'
    BY <1>1, <1>4, <1>7, <1>8 DEF LockedInv
  <1>11. MappedInv' /\ FreshInv'
    BY <1>1, <1>2, <1>4, <1>7, <1>8 DEF MappedInv, FreshInv
  <1> QED
    BY <1>6, <1>9, <1>10, <1>11

LEMMA LockKeeps ==
  ASSUME GrabIInv, NEW g \in Grab, LockGrab(g)
  PROVE  GrabTypes' /\ RolledInv' /\ LockedInv' /\ MappedInv' /\ FreshInv'
  <1>1. GrabTypes /\ RolledInv /\ LockedInv /\ MappedInv /\ FreshInv
    BY DEF GrabIInv
  <1>2. grabAt[g] = 2 /\ ~Over(g)
    BY <1>1, Places DEF LockGrab, AtStep, Over, InPlace, GrabTypes
  <1>3. /\ grabAt' = [grabAt EXCEPT ![g] = 3] /\ heldKey[LockKey(g)] = NoGrab
        /\ heldKey' = [heldKey EXCEPT ![LockKey(g)] = g]
        /\ UNCHANGED <<accountRow, keptRows, cached, nzbUrl, body, key, known, remapped>>
    BY <1>1, <1>2 DEF LockGrab
  <1>4. /\ grabAt'[g] = 3 /\ \A h \in Grab \ {g} : grabAt'[h] = grabAt[h]
    BY <1>1, <1>3 DEF GrabTypes
  <1>5. Working(g) /\ LockKey(g) \in Links \union Contents
    <2>1. Working(g)
      BY <1>2 DEF Working
    <2>2. body[g] \in Contents
      BY <1>1, <2>1 DEF RolledInv, Contents
    <2> QED
      BY <2>1, <2>2 DEF LockKey, Links
  <1>6. GrabTypes'
    BY <1>1, <1>3, <1>5 DEF GrabTypes
  <1>7. /\ \A h \in Grab : LockKey(h)' = LockKey(h)
        /\ \A h \in Grab \ {g} : (Over(h)' <=> Over(h)) /\ (Working(h)' <=> Working(h))
    BY <1>3, <1>4 DEF Over, Working, LockKey
  <1>8. \A k \in Links \union Contents, h \in Grab \ {g} : heldKey[k] = h => heldKey'[k] = h
    BY <1>1, <1>3, SubmissionAssumption DEF GrabTypes
  <1>9. RolledInv'
    BY <1>1, <1>3, <1>5, <1>7 DEF RolledInv
  <1>10. \A h \in Grab \ {g} : grabAt[h] > 2 /\ ~Over(h) => LockKey(h) \in Links \union Contents
    <2> SUFFICES ASSUME NEW h \in Grab \ {g}, grabAt[h] > 2, ~Over(h) PROVE LockKey(h) \in Links \union Contents
      OBVIOUS
    <2>1. grabAt[h] > 1
      BY <1>1 DEF GrabTypes
    <2>2. body[h] \in Contents
      BY <1>1, <2>1 DEF RolledInv, Working, Contents
    <2> QED
      BY <2>2 DEF LockKey, Links
  <1>11. LockedInv'
    <2>1. heldKey'[LockKey(g)] = g
      BY <1>1, <1>3, <1>5 DEF GrabTypes
    <2> QED
      BY <1>1, <1>3, <1>4, <1>7, <1>8, <1>10, <2>1 DEF LockedInv
  <1>12. MappedInv' /\ FreshInv'
    <2>1. ~Over(g)'
      <3>1. Len(StepsOf(g)) \in 8 .. 13
        BY Places
      <3> QED
        BY <1>4, <3>1, NotPast DEF Over
    <2> QED
      BY <1>1, <1>2, <1>3, <1>4, <1>7, <2>1 DEF MappedInv, FreshInv
  <1> QED
    BY <1>6, <1>9, <1>11, <1>12


\* The steps before the fifth: their place, and what the lock tells of the link.
LEMMA AtThird ==
  ASSUME GrabTypes, NEW g \in Grab, AtStep(g, "link") \/ AtStep(g, "relink")
  PROVE  grabAt[g] = 3 /\ ~Over(g) /\ Working(g)
  <1>1. ~Over(g) /\ grabAt[g] \in 1 .. Len(StepsOf(g)) /\ StepsOf(g)[grabAt[g]] \in {"link", "relink"}
    BY Places DEF AtStep, Over, GrabTypes
  <1>2. grabAt[g] = 3
    BY <1>1, Places DEF InPlace
  <1> QED
    BY <1>1, <1>2 DEF Working

LEMMA AtMap ==
  ASSUME GrabTypes, NEW g \in Grab, AtStep(g, "map")
  PROVE  grabAt[g] = 4 /\ ~Over(g) /\ Working(g) /\ FacadeOf[g] \in {"native", "newz"}
  <1>1. ~Over(g) /\ grabAt[g] \in 1 .. Len(StepsOf(g)) /\ StepsOf(g)[grabAt[g]] = "map"
    BY Places DEF AtStep, Over, GrabTypes
  <1>2. grabAt[g] = 4 /\ FacadeOf[g] \in {"native", "newz"}
    BY <1>1, Places DEF InPlace
  <1> QED
    BY <1>1, <1>2 DEF Working

LEMMA ByLinkKeeps ==
  ASSUME GrabIInv, NEW g \in Grab, ByLink(g)
  PROVE  GrabTypes' /\ RolledInv' /\ LockedInv' /\ MappedInv' /\ FreshInv'
  <1>1. GrabTypes /\ RolledInv /\ LockedInv /\ MappedInv /\ FreshInv
    BY DEF GrabIInv
  <1>2. grabAt[g] = 3 /\ ~Over(g) /\ Working(g)
    BY <1>1, AtThird DEF ByLink
  <1> DEFINE prior == IF LinkOf[g] = NoLink THEN body[g] ELSE nzbUrl[LinkOf[g]]
  <1>3. UNCHANGED <<accountRow, keptRows, cached, nzbUrl, heldKey, body, known, remapped>>
    BY DEF ByLink
  <1>4. PICK n \in {4, 5} :
          /\ grabAt' = [grabAt EXCEPT ![g] = n]
          /\ n = 4 => prior = NoContent /\ key' = key
          /\ n = 5 => prior # NoContent /\ key' = [key EXCEPT ![g] = prior]
    BY <1>2 DEF ByLink
  <1>5. key[g] \in Rolls[g] /\ body[g] \in Rolls[g] /\ (prior # NoContent => prior \in Rolls[g])
    BY <1>1, <1>2 DEF RolledInv
  <1>6. Rolls[g] \subseteq Contents
    BY DEF Contents
  <1>7. /\ grabAt'[g] = n /\ \A h \in Grab \ {g} : grabAt'[h] = grabAt[h] /\ key'[h] = key[h]
        /\ key'[g] \in Rolls[g] /\ (n = 5 => key'[g] = prior)
    BY <1>1, <1>4, <1>5 DEF GrabTypes
  <1> HIDE DEF prior
  <1>8. GrabTypes'
    BY <1>1, <1>3, <1>4, <1>5, <1>6 DEF GrabTypes
  <1>9. /\ ~Over(g)'
        /\ \A h \in Grab : LockKey(h)' = LockKey(h)
        /\ \A h \in Grab \ {g} : (Over(h)' <=> Over(h)) /\ (Working(h)' <=> Working(h))
    <2>1. Len(StepsOf(g)) \in 8 .. 13
      BY Places
    <2>2. ~Over(g)'
      BY <1>4, <1>7, <2>1, NotPast DEF Over
    <2> QED
      BY <1>3, <1>7, <2>2 DEF Over, Working, LockKey
  <1>10. RolledInv'
    BY <1>1, <1>3, <1>5, <1>7, <1>9 DEF RolledInv
  <1>11. LockedInv'
    <2>1. heldKey'[LockKey(g)'] = g
      BY <1>1, <1>2, <1>3, <1>9 DEF LockedInv
    <2>2. LinkOf[g] # NoLink /\ n = 4 => nzbUrl'[LinkOf[g]] = NoContent
      BY <1>3, <1>4 DEF prior
    <2> QED
      BY <1>1, <1>3, <1>7, <1>9, <2>1, <2>2 DEF LockedInv
  <1>12. MappedInv'
    <2>1. LinkOf[g] # NoLink /\ n = 5 => key'[g] = nzbUrl'[LinkOf[g]]
      BY <1>3, <1>7 DEF prior
    <2>2. LinkOf[g] \in Links => LinkOf[g] # NoLink
      BY DEF Links
    <2>3. n = 4 => ~(grabAt'[g] > 4)
      BY <1>7
    <2> QED
      BY <1>1, <1>3, <1>4, <1>7, <1>9, <2>1, <2>2, <2>3 DEF MappedInv
  <1>13. FreshInv'
    <2>1. CASE n = 4
      BY <1>1, <1>2, <1>3, <1>4, <1>7, <2>1 DEF FreshInv
    <2>2. CASE n = 5
      BY <1>1, <1>3, <1>7, <2>2 DEF FreshInv
    <2> QED
      BY <2>1, <2>2
  <1> QED
    BY <1>8, <1>10, <1>11, <1>12, <1>13

LEMMA RelinkKeeps ==
  ASSUME GrabIInv, NEW g \in Grab, Relink(g)
  PROVE  GrabTypes' /\ RolledInv' /\ LockedInv' /\ MappedInv' /\ FreshInv'
  <1>1. GrabTypes /\ RolledInv /\ LockedInv /\ MappedInv /\ FreshInv
    BY DEF GrabIInv
  <1>2. grabAt[g] = 3 /\ ~Over(g) /\ Working(g)
    BY <1>1, AtThird DEF Relink
  <1>3. FacadeOf[g] # "native"
    <2>1. grabAt[g] \in 1 .. Len(StepsOf(g)) /\ StepsOf(g)[grabAt[g]] = "relink"
      BY <1>1, Places DEF Relink, AtStep, Over, GrabTypes
    <2> QED
      BY <2>1, Places DEF InPlace
  <1>4. /\ GoesOn(g) \/ Returns(g)
        /\ UNCHANGED <<accountRow, keptRows, cached, nzbUrl, body, known, remapped>>
    BY DEF Relink
  <1>5. \/ UNCHANGED key /\ GoesOn(g)
        \/ /\ LinkOf[g] # NoLink /\ nzbUrl[LinkOf[g]] # NoContent /\ Returns(g)
           /\ key' = [key EXCEPT ![g] = nzbUrl[LinkOf[g]]]
    BY DEF Relink
  <1>6. /\ grabAt' \in [Grab -> Nat \ {0}] /\ \A h \in Grab \ {g} : grabAt'[h] = grabAt[h]
        /\ heldKey' \in [Links \union Contents -> Grab \union {NoGrab}]
        /\ \A k \in Links \union Contents, h \in Grab \ {g} : heldKey[k] = h => heldKey'[k] = h
        /\ Over(g)' \/ UNCHANGED heldKey
    BY <1>1, <1>4, MovesOn
  <1>7. Rolls[g] \subseteq Contents /\ key[g] \in Rolls[g] /\ body[g] \in Rolls[g]
        /\ (LinkOf[g] # NoLink /\ nzbUrl[LinkOf[g]] # NoContent => nzbUrl[LinkOf[g]] \in Rolls[g])
    BY <1>1, <1>2 DEF Contents, RolledInv
  <1>8. key'[g] \in Rolls[g] /\ (\A h \in Grab \ {g} : key'[h] = key[h])
        /\ key' \in [Grab -> Contents \union {NoContent}]
    BY <1>1, <1>5, <1>7 DEF GrabTypes
  <1>9. GrabTypes'
    BY <1>1, <1>4, <1>6, <1>8 DEF GrabTypes
  <1>10. /\ \A h \in Grab : LockKey(h)' = LockKey(h)
         /\ \A h \in Grab \ {g} : (Over(h)' <=> Over(h)) /\ (Working(h)' <=> Working(h))
    BY <1>4, <1>6 DEF Over, Working, LockKey
  <1>11. RolledInv'
    BY <1>1, <1>4, <1>7, <1>8, <1>10 DEF RolledInv
  <1>12. LockedInv'
    <2>1. ASSUME NEW h \in Grab, grabAt'[h] > 2, ~Over(h)'
          PROVE  heldKey'[LockKey(h)'] = h
      <3>1. CASE h # g
        <4>1. grabAt[h] > 2 /\ grabAt[h] > 1 /\ ~Over(h)
          BY <1>1, <1>6, <1>10, <2>1, <3>1 DEF GrabTypes
        <4>2. LockKey(h) \in Links \union Contents
          BY <1>1, <4>1 DEF RolledInv, Working, LockKey, Links, Contents
        <4> QED
          BY <1>1, <1>6, <1>10, <3>1, <4>1, <4>2 DEF LockedInv
      <3>2. CASE h = g
        BY <1>1, <1>2, <1>6, <1>10, <2>1, <3>2 DEF LockedInv
      <3> QED
        BY <3>1, <3>2
    <2>2. ASSUME NEW h \in Grab, LinkOf[h] # NoLink, FacadeOf[h] = "native", grabAt'[h] = 4
          PROVE  nzbUrl'[LinkOf[h]] = NoContent
      BY <1>1, <1>3, <1>4, <1>6, <2>2 DEF LockedInv
    <2> QED
      BY <2>1, <2>2 DEF LockedInv
  <1>13. MappedInv'
    <2> SUFFICES ASSUME NEW h \in Grab, LinkOf[h] \in Links \ remapped,
                        IF Over(h)' THEN key'[h] # NoContent ELSE grabAt'[h] > 4
                 PROVE  key'[h] = nzbUrl[LinkOf[h]]
      BY <1>4 DEF MappedInv
    <2>1. CASE h # g
      BY <1>1, <1>6, <1>8, <1>10, <2>1 DEF MappedInv
    <2>2. CASE h = g /\ Returns(g) /\ key' = [key EXCEPT ![g] = nzbUrl[LinkOf[g]]]
      BY <1>1, <2>2 DEF GrabTypes
    <2>3. CASE h = g /\ GoesOn(g)
      <3>1. grabAt'[g] = 4
        BY <1>1, <1>2, <2>3 DEF GoesOn, GrabTypes
      <3>2. ~Over(g)'
        <4>1. Len(StepsOf(g)) \in 8 .. 13
          BY Places
        <4> QED
          BY <3>1, <4>1, NotPast DEF Over
      <3> QED
        BY <2>3, <3>1, <3>2
    <2> QED
      BY <1>5, <2>1, <2>2, <2>3
  <1>14. FreshInv'
    <2>1. CASE UNCHANGED key /\ GoesOn(g)
      <3>1. grabAt'[g] = 4
        BY <1>1, <1>2, <2>1 DEF GoesOn, GrabTypes
      <3> QED
        BY <1>1, <1>2, <1>4, <1>6, <2>1, <3>1 DEF FreshInv
    <2>2. CASE Returns(g)
      <3>1. grabAt'[g] = Len(StepsOf(g)) + 1 /\ Len(StepsOf(g)) \in 8 .. 13
        BY <1>1, <2>2, Places DEF Returns, GrabTypes
      <3>2. ~(grabAt'[g] <= 3) /\ ~(grabAt'[g] <= 4)
        BY <3>1, NotPast
      <3> QED
        BY <1>1, <1>4, <1>6, <1>8, <3>2 DEF FreshInv
    <2> QED
      BY <1>5, <2>1, <2>2
  <1> QED
    BY <1>9, <1>11, <1>12, <1>13, <1>14


LEMMA MapKeeps ==
  ASSUME GrabIInv, NEW g \in Grab, MapNzbURL(g)
  PROVE  GrabTypes' /\ RolledInv' /\ LockedInv' /\ MappedInv' /\ FreshInv'
  <1> DEFINE l == LinkOf[g]
  <1>1. GrabTypes /\ RolledInv /\ LockedInv /\ MappedInv /\ FreshInv
    BY DEF GrabIInv
  <1>2. grabAt[g] = 4 /\ ~Over(g) /\ Working(g) /\ FacadeOf[g] \in {"native", "newz"}
    BY <1>1, AtMap DEF MapNzbURL
  <1>3. /\ grabAt' = [grabAt EXCEPT ![g] = 5]
        /\ UNCHANGED <<accountRow, keptRows, cached, heldKey, body, key, known>>
    BY <1>2 DEF MapNzbURL, GoesOn
  <1>4. CASE l = NoLink
    <2>1. UNCHANGED <<nzbUrl, remapped>> /\ Proceeds(g) /\ grabAt' \in [Grab -> Nat \ {0}]
      BY <1>1, <1>2, <1>3, <1>4 DEF MapNzbURL, Proceeds, GrabTypes
    <2>2. GrabTypes' /\ FreshInv'
      BY <1>1, <1>2, <1>3, <2>1 DEF GrabTypes, FreshInv
    <2> QED
      BY <2>1, <2>2, ProceedsKeep
  <1>5. CASE l # NoLink
    <2>1. /\ nzbUrl' = [nzbUrl EXCEPT ![l] = body[g]] /\ l \in Links
          /\ body[g] \in Rolls[g] /\ Rolls[g] \subseteq Contents
      BY <1>1, <1>2, <1>5 DEF MapNzbURL, Links, RolledInv, Contents
    <2>2. /\ remapped \subseteq remapped'
          /\ l \notin remapped' => nzbUrl[l] \in {NoContent, body[g]}
      <3>1. FacadeOf[g] = "native" => nzbUrl[l] = NoContent
        BY <1>1, <1>2, <1>5 DEF LockedInv
      <3> QED
        BY <1>2, <1>5, <3>1 DEF MapNzbURL
    <2>3. /\ nzbUrl' \in [Links -> Contents \union {NoContent}] /\ nzbUrl'[l] = body[g]
          /\ \A k \in Links \ {l} : nzbUrl'[k] = nzbUrl[k]
          /\ grabAt' \in [Grab -> Nat \ {0}] /\ grabAt'[g] = 5 /\ \A h \in Grab \ {g} : grabAt'[h] = grabAt[h]
      BY <1>1, <1>3, <2>1 DEF GrabTypes
    <2>4. GrabTypes' /\ FreshInv'
      BY <1>1, <1>3, <2>3 DEF GrabTypes, FreshInv
    <2>5. \A h \in Grab : /\ LockKey(h)' = LockKey(h) /\ (LinkOf[h] = l => Rolls[h] = Rolls[g])
                          /\ LinkOf[h] # NoLink => LinkOf[h] \in Links
      BY <1>3, <1>5, SubmissionAssumption DEF LockKey, Links
    <2>6. ~Over(g)' /\ \A h \in Grab \ {g} : (Over(h)' <=> Over(h)) /\ (Working(h)' <=> Working(h))
      <3>1. Len(StepsOf(g)) \in 8 .. 13
        BY Places
      <3> QED
        BY <2>3, <3>1, NotPast DEF Over, Working
    <2>7. RolledInv'
      BY <1>1, <1>2, <1>3, <2>1, <2>3, <2>5, <2>6 DEF RolledInv
    <2>8. LockedInv'
      <3>1. \A h \in Grab : grabAt'[h] > 2 /\ ~Over(h)' => heldKey'[LockKey(h)'] = h
        BY <1>1, <1>2, <1>3, <2>3, <2>5, <2>6 DEF LockedInv
      <3>2. ASSUME NEW h \in Grab, LinkOf[h] # NoLink, FacadeOf[h] = "native", grabAt'[h] = 4
            PROVE  nzbUrl'[LinkOf[h]] = NoContent
        <4>1. h # g /\ grabAt[h] = 4
          BY <2>3, <3>2
        <4>2. LinkOf[h] # l
          <5> SUFFICES ASSUME LinkOf[h] = l PROVE FALSE
            OBVIOUS
          <5>1. ~Over(h)
            <6>1. Len(StepsOf(h)) \in 8 .. 13
              BY Places
            <6> QED
              BY <4>1, <6>1, NotPast DEF Over
          <5>2. heldKey[l] = h
            BY <1>1, <1>5, <4>1, <5>1 DEF LockedInv, LockKey
          <5>3. heldKey[l] = g
            BY <1>1, <1>2, <1>5 DEF LockedInv, LockKey
          <5> QED
            BY <4>1, <5>2, <5>3
        <4> QED
          BY <1>1, <2>3, <2>5, <3>2, <4>1, <4>2 DEF LockedInv
      <3> QED
        BY <3>1, <3>2 DEF LockedInv
    <2>9. MappedInv'
      <3> SUFFICES ASSUME NEW h \in Grab, LinkOf[h] \in Links \ remapped',
                          IF Over(h)' THEN key[h] # NoContent ELSE grabAt'[h] > 4
                   PROVE  key[h] = nzbUrl'[LinkOf[h]]
        BY <1>3 DEF MappedInv
      <3>1. CASE h = g
        <4>1. key[g] = body[g]
          BY <1>1, <1>2 DEF FreshInv
        <4> QED
          BY <2>3, <3>1, <4>1
      <3>2. CASE h # g
        <4>1. IF Over(h) THEN key[h] # NoContent ELSE grabAt[h] > 4
          BY <2>3, <2>6, <3>2
        <4>2. key[h] = nzbUrl[LinkOf[h]]
          BY <1>1, <2>2, <4>1 DEF MappedInv
        <4>3. key[h] # NoContent
          <5>1. CASE Over(h)
            BY <4>1, <5>1
          <5>2. CASE ~Over(h)
            <6>1. Working(h)
              <7>1. grabAt[h] \in Nat /\ grabAt[h] > 4
                BY <1>1, <4>1, <5>2 DEF GrabTypes
              <7> QED
                BY <5>2, <7>1 DEF Working
            <6>2. key[h] \in Contents
              BY <1>1, <6>1 DEF RolledInv, Contents
            <6> QED
              BY <6>2, SubmissionAssumption
          <5> QED
            BY <5>1, <5>2
        <4> QED
          BY <2>2, <2>3, <4>2, <4>3
      <3> QED
        BY <3>1, <3>2
    <2> QED
      BY <2>4, <2>7, <2>8, <2>9
  <1> QED
    BY <1>4, <1>5


\* What is kept of a content whose NZB is stored.
LEMMA StoredGrows ==
  ASSUME nzbFile \subseteq nzbFile'
  PROVE  Stored \subseteq Stored'
  BY DEF Stored, UsenetOnly, Usenet

LEMMA AdmitAfterStore ==
  ASSUME GrabTypes, NEW g \in Grab, ~Over(g), grabAt'[g] = grabAt[g] + 1 \/ Over(g)',
         Usenet(g), AtStep(g, "admit")'
  PROVE  AtStep(g, "store")
  <1>1. grabAt'[g] = grabAt[g] + 1 /\ ~Over(g)' /\ StepsOf(g)[grabAt[g] + 1] = "admit"
    BY DEF AtStep
  <1>2. grabAt[g] \in Nat \ {0} /\ Len(StepsOf(g)) \in 8 .. 13
    BY Places DEF GrabTypes
  <1>3. grabAt[g] + 1 <= Len(StepsOf(g)) /\ grabAt[g] \in 1 .. Len(StepsOf(g))
    BY <1>1, <1>2 DEF Over
  <1>4. StepsOf(g)[grabAt[g]] = "store"
    BY <1>1, <1>3, StoredBefore
  <1> QED
    BY <1>4 DEF AtStep

LEMMA InformedKept ==
  ASSUME GrabIInv, NEW g \in Grab, ~Over(g), UNCHANGED <<key, known>>, Stored \subseteq Stored',
         \A h \in Grab \ {g} : grabAt'[h] = grabAt[h],
         grabAt'[g] = grabAt[g] + 1 \/ Over(g)',
         AtStep(g, "store") => Over(g)' \/ key[g] \in Stored'
  PROVE  \A h \in Grab : Informed(h)' => key'[h] \in Stored'
  <1> SUFFICES ASSUME NEW h \in Grab, Informed(h)' PROVE key[h] \in Stored'
    OBVIOUS
  <1>1. CASE Informed(h)
    BY <1>1 DEF GrabIInv, StoredInv
  <1>2. CASE ~Informed(h)
    <2>1. Usenet(h) /\ AtStep(h, "admit")' /\ ~AtStep(h, "admit")
      BY <1>2 DEF Informed, Usenet
    <2>2. h = g
      BY <2>1 DEF AtStep, Over
    <2>3. AtStep(g, "store") /\ ~Over(g)'
      BY <2>1, <2>2, AdmitAfterStore DEF GrabIInv, AtStep
    <2> QED
      BY <2>2, <2>3
  <1> QED
    BY <1>1, <1>2

\* A request past the lock that changes neither its content nor a link.
LEMMA ProceedingKeeps ==
  ASSUME GrabIInv, NEW g \in Grab, Proceeds(g), nzbFile \subseteq nzbFile',
         known' \in [Grab -> Knowing], \A h \in Grab \ {g} : known'[h] = known[h],
         (known'[g].hit \/ known'[g].others # "none") => known[g] = known'[g] \/ key[g] \in Stored,
         accountRow' \in [Grabber -> [Contents -> RowStates]],
         \A u \in Grabber, c \in Contents : accountRow'[u][c] # "none" => accountRow[u][c] # "none" \/ c \in Stored,
         UNCHANGED <<keptRows, cached>>,
         AtStep(g, "store") => Over(g)' \/ key[g] \in Stored'
  PROVE  GrabIInv'
  <1>1. GrabTypes /\ FreshInv /\ StoredInv
    BY DEF GrabIInv
  <1>2. /\ grabAt' \in [Grab -> Nat \ {0}] /\ \A h \in Grab \ {g} : grabAt'[h] = grabAt[h]
        /\ grabAt'[g] = grabAt[g] + 1 \/ (grabAt'[g] = Len(StepsOf(g)) + 1 /\ Over(g)')
        /\ heldKey' \in [Links \union Contents -> Grab \union {NoGrab}]
    BY <1>1, MovesOn DEF Proceeds
  <1>3. grabAt[g] \in Nat /\ grabAt[g] > 2 /\ ~Over(g) /\ UNCHANGED <<body, key, nzbUrl, remapped>>
    BY <1>1 DEF Proceeds, GrabTypes
  <1>4. ~(grabAt'[g] <= 3) /\ (grabAt'[g] <= 4 => grabAt[g] <= 4)
    <2>1. Len(StepsOf(g)) \in 8 .. 13
      BY Places
    <2>2. ~(Len(StepsOf(g)) + 1 <= 3) /\ ~(Len(StepsOf(g)) + 1 <= 4)
      BY <2>1, NotPast
    <2>3. ~(grabAt[g] + 1 <= 3) /\ (grabAt[g] + 1 <= 4 => grabAt[g] <= 4)
      BY ONLY <1>3
    <2> QED
      BY <1>2, <2>2, <2>3
  <1>5. GrabTypes'
    BY <1>1, <1>2, <1>3 DEF GrabTypes
  <1>6. FreshInv'
    BY <1>1, <1>2, <1>3, <1>4 DEF FreshInv
  <1>7. Stored \subseteq Stored'
    BY StoredGrows
  <1>8. \A h \in Grab : Informed(h)' => key'[h] \in Stored'
    <2> SUFFICES ASSUME NEW h \in Grab, Informed(h)' PROVE key[h] \in Stored'
      BY <1>3
    <2>1. CASE Informed(h) \/ key[h] \in Stored
      BY <1>1, <1>7, <2>1 DEF StoredInv
    <2>2. CASE ~Informed(h) /\ key[h] \notin Stored
      <3>1. known'[h].hit \/ known'[h].others # "none" => known'[h] = known[h]
        BY <2>2
      <3>2. Usenet(h) /\ AtStep(h, "admit")' /\ ~AtStep(h, "admit")
        BY <1>3, <2>2, <3>1 DEF Informed, Usenet
      <3>3. h = g
        BY <1>2, <3>2 DEF AtStep, Over
      <3>4. AtStep(g, "store") /\ ~Over(g)'
        BY <1>1, <1>2, <1>3, <3>2, <3>3, AdmitAfterStore DEF AtStep
      <3> QED
        BY <3>3, <3>4
    <2> QED
      BY <2>1, <2>2
  <1>9. StoredInv'
    BY <1>1, <1>7, <1>8 DEF StoredInv
  <1> QED
    BY <1>5, <1>6, <1>9, ProceedsKeep DEF GrabIInv


\* The content of a working request; what another row or the cache tells of it.
LEMMA WorksOn ==
  ASSUME GrabIInv, NEW g \in Grab, ~Over(g), grabAt[g] > 2
  PROVE  /\ key[g] \in Rolls[g] /\ key[g] \in Contents /\ GrabberOf[g] \in Grabber
         /\ key[g] \in keptRows \union cached => key[g] \in Stored
         /\ \A u \in Grabber : accountRow[u][key[g]] # "none" => key[g] \in Stored
         /\ ~Usenet(g) => key[g] \in Stored
  <1>1. Working(g)
    BY DEF Working, GrabIInv, GrabTypes
  <1>2. key[g] \in Rolls[g] /\ key[g] \in Contents /\ GrabberOf[g] \in Grabber
    BY <1>1, SubmissionAssumption DEF GrabIInv, RolledInv, Contents
  <1>3. ~Usenet(g) => key[g] \in Stored
    BY <1>2 DEF Stored, UsenetOnly
  <1> QED
    BY <1>2, <1>3 DEF GrabIInv, StoredInv

LEMMA OthersStored ==
  ASSUME GrabIInv, NEW g \in Grab, ~Over(g), grabAt[g] > 2, NEW st \in OthersRow(g)
  PROVE  st \in {"none", "active", "complete"} /\ (st # "none" => key[g] \in Stored)
  <1>1. st \in {"none", "active", "complete"}
        /\ (st # "none" => key[g] \in keptRows \/ \E u \in Grabber : accountRow[u][key[g]] # "none")
    BY DEF OthersRow
  <1> QED
    BY <1>1, WorksOn

LEMMA RowCreated ==
  ASSUME GrabIInv, NEW g \in Grab, ~Over(g), grabAt[g] > 2, NEW st \in RowStates, CreateRow(g, st), key[g] \in Stored
  PROVE  /\ accountRow' \in [Grabber -> [Contents -> RowStates]]
         /\ \A u \in Grabber, c \in Contents : accountRow'[u][c] # "none" => accountRow[u][c] # "none" \/ c \in Stored
  <1>1. accountRow' \in {accountRow, [accountRow EXCEPT ![GrabberOf[g]][key[g]] = st]}
    BY DEF CreateRow
  <1>2. /\ key[g] \in Contents /\ GrabberOf[g] \in Grabber
        /\ accountRow \in [Grabber -> [Contents -> RowStates]]
    BY WorksOn DEF GrabIInv, GrabTypes
  <1>3. ASSUME accountRow' = [accountRow EXCEPT ![GrabberOf[g]][key[g]] = st]
        PROVE  /\ accountRow' \in [Grabber -> [Contents -> RowStates]]
               /\ \A u \in Grabber, c \in Contents : c # key[g] => accountRow'[u][c] = accountRow[u][c]
    BY <1>2, <1>3
  <1> QED
    BY <1>1, <1>2, <1>3

\* The look-ups that may answer the request, and the refusals.
LEMMA LookUpsKeep ==
  ASSUME GrabIInv, NEW g \in Grab, Own(g) \/ Removed(g) \/ Failed(g) \/ Refuse(g)
  PROVE  GrabIInv'
  <1>1. PICK s \in {"own", "removed", "failed", "quota"} : AtStep(g, s)
    BY DEF Own, Removed, Failed, Refuse
  <1>2. grabAt[g] > 2 /\ ~Over(g) /\ (LinkOf[g] # NoLink => grabAt[g] > 4)
    BY <1>1, Later DEF GrabIInv
  <1>3. /\ GoesOn(g) \/ Returns(g)
        /\ UNCHANGED <<accountRow, keptRows, cached, nzbFile, nzbUrl, body, key, known, remapped>>
    BY DEF Own, Removed, Failed, Refuse
  <1>4. Proceeds(g) /\ ~AtStep(g, "store")
    BY <1>1, <1>2, <1>3 DEF Proceeds, AtStep
  <1>5. known \in [Grab -> Knowing] /\ accountRow \in [Grabber -> [Contents -> RowStates]]
    BY DEF GrabIInv, GrabTypes
  <1> QED
    BY <1>3, <1>4, <1>5, ProceedingKeeps

LEMMA SiblingsKeeps ==
  ASSUME GrabIInv, NEW g \in Grab, Siblings(g)
  PROVE  GrabIInv'
  <1>1. AtStep(g, "siblings") /\ ~AtStep(g, "store")
    BY DEF Siblings, AtStep
  <1>2. grabAt[g] > 2 /\ ~Over(g) /\ (LinkOf[g] # NoLink => grabAt[g] > 4)
    BY <1>1, Later DEF GrabIInv
  <1>3. /\ GoesOn(g) \/ Returns(g)
        /\ UNCHANGED <<accountRow, keptRows, cached, nzbFile, nzbUrl, body, key, remapped>>
    BY DEF Siblings
  <1>4. Proceeds(g)
    BY <1>2, <1>3 DEF Proceeds
  <1>5. known \in [Grab -> Knowing] /\ accountRow \in [Grabber -> [Contents -> RowStates]]
    BY DEF GrabIInv, GrabTypes
  <1>6. CASE UNCHANGED known
    BY <1>1, <1>3, <1>4, <1>5, <1>6, ProceedingKeeps
  <1>7. CASE ~UNCHANGED known
    <2>1. PICK st \in OthersRow(g) :
            known' = [known EXCEPT ![g].others = st, ![g].failed = accountRow[GrabberOf[g]][key[g]] = "failed"]
      BY <1>7 DEF Siblings
    <2>2. st \in {"none", "active", "complete"} /\ (st # "none" => key[g] \in Stored)
      BY <1>2, OthersStored
    <2>3. /\ known' \in [Grab -> Knowing] /\ (\A h \in Grab \ {g} : known'[h] = known[h])
          /\ known'[g].others = st /\ known'[g].hit = known[g].hit
      BY <1>5, <2>1, <2>2 DEF Knowing
    <2>4. known'[g].hit \/ known'[g].others # "none" => key[g] \in Stored
      <3>1. known[g].hit => key[g] \in Stored
        <4>1. key[g] # NoContent
          BY <1>2, WorksOn, SubmissionAssumption
        <4> QED
          BY <4>1 DEF GrabIInv, StoredInv, Informed
      <3> QED
        BY <2>2, <2>3, <3>1
    <2> QED
      BY <1>1, <1>3, <1>4, <1>5, <2>3, <2>4, ProceedingKeeps
  <1> QED
    BY <1>6, <1>7

LEMMA LookKeeps ==
  ASSUME GrabIInv, NEW g \in Grab, Look(g)
  PROVE  GrabIInv'
  <1>1. AtStep(g, "look") /\ ~AtStep(g, "store")
    BY DEF Look, AtStep
  <1>2. grabAt[g] > 2 /\ ~Over(g) /\ (LinkOf[g] # NoLink => grabAt[g] > 4)
    BY <1>1, Later DEF GrabIInv
  <1>3. /\ GoesOn(g) /\ known' = [known EXCEPT ![g].hit = key[g] \in cached]
        /\ UNCHANGED <<accountRow, keptRows, cached, nzbFile, nzbUrl, body, key, remapped>>
    BY DEF Look
  <1>4. Proceeds(g)
    BY <1>2, <1>3 DEF Proceeds
  <1>5. known \in [Grab -> Knowing] /\ accountRow \in [Grabber -> [Contents -> RowStates]]
    BY DEF GrabIInv, GrabTypes
  <1> DEFINE here == key[g] \in cached
  <1>6. /\ known' \in [Grab -> Knowing] /\ (\A h \in Grab \ {g} : known'[h] = known[h])
        /\ known'[g].hit = here /\ known'[g].others = known[g].others
    <2>1. here \in BOOLEAN /\ known' = [known EXCEPT ![g].hit = here]
      BY <1>3
    <2> HIDE DEF here
    <2> QED
      BY <1>5, <2>1 DEF Knowing
  <1>7. known'[g].hit \/ known'[g].others # "none" => key[g] \in Stored
    <2>1. known[g].others # "none" => key[g] \in Stored
      <3>1. key[g] # NoContent
        BY <1>2, WorksOn, SubmissionAssumption
      <3> QED
        BY <3>1 DEF GrabIInv, StoredInv, Informed
    <2>2. key[g] \in cached => key[g] \in Stored
      BY DEF GrabIInv, StoredInv
    <2> QED
      BY <1>6, <2>1, <2>2
  <1> QED
    BY <1>1, <1>3, <1>4, <1>5, <1>6, <1>7, ProceedingKeeps

\* A row is created only of what is stored.
LEMMA KnownStored ==
  ASSUME GrabIInv, NEW g \in Grab, ~Over(g), grabAt[g] > 2,
         known[g].hit \/ known[g].others # "none" \/ ~Usenet(g) \/ AtStep(g, "admit")
  PROVE  key[g] \in Stored
  <1>1. key[g] # NoContent
    BY WorksOn, SubmissionAssumption
  <1>2. CASE ~Usenet(g)
    BY <1>2, WorksOn
  <1>3. CASE Usenet(g)
    BY <1>1, <1>3 DEF Informed, GrabIInv, StoredInv
  <1> QED
    BY <1>2, <1>3

LEMMA RowStepKeeps ==
  ASSUME GrabIInv, NEW g \in Grab, NEW s, AtStep(g, s), s \notin {"fetch", "lock", "link", "relink", "map", "store"},
         GoesOn(g) \/ Returns(g),
         UNCHANGED accountRow \/ (key[g] \in Stored /\ \E st \in RowStates : CreateRow(g, st)),
         UNCHANGED <<keptRows, cached, nzbFile, nzbUrl, body, key, known, remapped>>
  PROVE  GrabIInv'
  <1>1. grabAt[g] > 2 /\ ~Over(g) /\ (LinkOf[g] # NoLink => grabAt[g] > 4)
    BY Later DEF GrabIInv
  <1>2. Proceeds(g) /\ ~AtStep(g, "store")
    BY <1>1 DEF Proceeds, AtStep
  <1>3. known \in [Grab -> Knowing] /\ accountRow \in [Grabber -> [Contents -> RowStates]]
    BY DEF GrabIInv, GrabTypes
  <1>4. CASE UNCHANGED accountRow
    BY <1>2, <1>3, <1>4, ProceedingKeeps
  <1>5. CASE key[g] \in Stored /\ \E st \in RowStates : CreateRow(g, st)
    <2>1. /\ accountRow' \in [Grabber -> [Contents -> RowStates]]
          /\ \A u \in Grabber, c \in Contents : accountRow'[u][c] # "none" => accountRow[u][c] # "none" \/ c \in Stored
      BY <1>1, <1>5, RowCreated
    <2> QED
      BY <1>2, <1>3, <2>1, ProceedingKeeps
  <1> QED
    BY <1>4, <1>5

LEMMA HitKeeps ==
  ASSUME GrabIInv, NEW g \in Grab, Hit(g)
  PROVE  GrabIInv'
  <1>1. AtStep(g, "hit") /\ (GoesOn(g) \/ Returns(g))
        /\ UNCHANGED <<keptRows, cached, nzbFile, nzbUrl, body, key, known, remapped>>
    BY DEF Hit
  <1>2. grabAt[g] > 2 /\ ~Over(g)
    BY <1>1, Later DEF GrabIInv
  <1>3. UNCHANGED accountRow \/ (key[g] \in Stored /\ CreateRow(g, "complete"))
    BY <1>2, KnownStored DEF Hit
  <1> QED
    BY <1>1, <1>3, RowStepKeeps DEF RowStates

LEMMA ReuseKeeps ==
  ASSUME GrabIInv, NEW g \in Grab, Reuse(g)
  PROVE  GrabIInv'
  <1>1. PICK s \in {"reuse", "reuseSeen"} : AtStep(g, s)
    BY DEF Reuse
  <1>2. grabAt[g] > 2 /\ ~Over(g)
    BY <1>1, Later DEF GrabIInv
  <1>3. PICK st \in {"none", "active", "complete"} : Link(g, st) /\ (st # "none" => key[g] \in Stored)
    <2>1. CASE \E st \in OthersRow(g) : Link(g, st)
      BY <1>2, <2>1, OthersStored
    <2>2. CASE Link(g, known[g].others)
      <3>1. known[g].others \in {"none", "active", "complete"}
        BY DEF GrabIInv, GrabTypes, Knowing
      <3> QED
        BY <1>2, <2>2, <3>1, KnownStored
    <2> QED
      BY <2>1, <2>2 DEF Reuse
  <1>4. /\ GoesOn(g) \/ Returns(g)
        /\ UNCHANGED accountRow \/ (key[g] \in Stored /\ CreateRow(g, st))
    BY <1>3 DEF Link
  <1>5. UNCHANGED <<keptRows, cached, nzbFile, nzbUrl, body, key, known, remapped>>
    BY DEF Reuse
  <1>6. st \in RowStates
    BY DEF RowStates
  <1> QED
    BY <1>1, <1>4, <1>5, <1>6, RowStepKeeps

LEMMA OnlyMagnets ==
  ASSUME GrabTypes, NEW g \in Grab, AtStep(g, "archive")
  PROVE  ~Usenet(g)
  <1>1. grabAt[g] \in 1 .. Len(StepsOf(g)) /\ StepsOf(g)[grabAt[g]] = "archive"
    BY Places DEF AtStep, Over, GrabTypes
  <1>2. FacadeOf[g] # "native"
    <2> SUFFICES ASSUME FacadeOf[g] = "native" PROVE FALSE
      OBVIOUS
    <2>1. StepsOf(g) = NativeSteps /\ Len(NativeSteps) = 13
      BY DEF StepsOf, NativeSteps
    <2>2. \A n \in 1 .. 13 : NativeSteps[n] # "archive"
      BY DEF NativeSteps
    <2> QED
      BY <1>1, <2>1, <2>2
  <1>3. FacadeOf[g] # "newz"
    <2> SUFFICES ASSUME FacadeOf[g] = "newz" PROVE FALSE
      OBVIOUS
    <2>1. StepsOf(g) = NewzSteps /\ Len(NewzSteps) = 11
      BY DEF StepsOf, NewzSteps
    <2>2. \A n \in 1 .. 11 : NewzSteps[n] # "archive"
      BY DEF NewzSteps
    <2> QED
      BY <1>1, <2>1, <2>2
  <1>4. FacadeOf[g] # "arrNzb"
    <2> SUFFICES ASSUME FacadeOf[g] = "arrNzb" PROVE FALSE
      OBVIOUS
    <2>1. StepsOf(g) = ArrNzbSteps /\ Len(ArrNzbSteps) = 9
      BY DEF StepsOf, ArrNzbSteps
    <2>2. \A n \in 1 .. 9 : ArrNzbSteps[n] # "archive"
      BY DEF ArrNzbSteps
    <2> QED
      BY <1>1, <2>1, <2>2
  <1> QED
    BY <1>2, <1>3, <1>4 DEF Usenet

LEMMA ArchiveKeeps ==
  ASSUME GrabIInv, NEW g \in Grab, Archive(g)
  PROVE  GrabIInv'
  <1>1. AtStep(g, "archive") /\ (GoesOn(g) \/ Returns(g))
        /\ UNCHANGED <<keptRows, cached, nzbFile, nzbUrl, body, key, known, remapped>>
    BY DEF Archive
  <1>2. grabAt[g] > 2 /\ ~Over(g) /\ ~Usenet(g)
    BY <1>1, Later, OnlyMagnets DEF GrabIInv
  <1>3. key[g] \in Stored
    BY <1>2, KnownStored
  <1>4. UNCHANGED accountRow \/ \E st \in RowStates : CreateRow(g, st)
    BY DEF Archive, Live, RowStates
  <1> QED
    BY <1>1, <1>3, <1>4, RowStepKeeps

LEMMA StoreKeeps ==
  ASSUME GrabIInv, NEW g \in Grab, StoreNzb(g)
  PROVE  GrabIInv'
  <1>1. AtStep(g, "store") /\ (GoesOn(g) \/ Returns(g))
        /\ UNCHANGED <<accountRow, keptRows, cached, nzbUrl, body, key, known, remapped>>
    BY DEF StoreNzb
  <1>2. grabAt[g] > 2 /\ ~Over(g) /\ (LinkOf[g] # NoLink => grabAt[g] > 4)
    BY <1>1, Later DEF GrabIInv
  <1>3. nzbFile' = nzbFile \union {key[g]} \/ (Returns(g) /\ UNCHANGED nzbFile)
    BY DEF StoreNzb
  <1>4. Over(g)' \/ key[g] \in Stored'
    <2>1. CASE nzbFile' = nzbFile \union {key[g]}
      BY <1>2, <2>1, WorksOn DEF Stored
    <2>2. CASE Returns(g)
      <3>1. /\ Len(StepsOf(g)) \in 8 .. 13 /\ grabAt'[g] = Len(StepsOf(g)) + 1
        BY <2>2, Places DEF Returns, GrabIInv, GrabTypes
      <3> QED
        BY <3>1, FirstOrPast DEF Over
    <2> QED
      BY <1>3, <2>1, <2>2
  <1>5. Proceeds(g) /\ nzbFile \subseteq nzbFile'
    BY <1>1, <1>2, <1>3 DEF Proceeds
  <1>6. known \in [Grab -> Knowing] /\ accountRow \in [Grabber -> [Contents -> RowStates]]
    BY DEF GrabIInv, GrabTypes
  <1> QED
    BY <1>1, <1>4, <1>5, <1>6, ProceedingKeeps

LEMMA AdmitKeeps ==
  ASSUME GrabIInv, NEW g \in Grab, AdmitGrab(g)
  PROVE  GrabIInv'
  <1>1. AtStep(g, "admit") /\ Returns(g) /\ (UNCHANGED accountRow \/ CreateRow(g, "active"))
        /\ UNCHANGED <<keptRows, cached, nzbFile, nzbUrl, body, key, known, remapped>>
    BY DEF AdmitGrab
  <1>2. grabAt[g] > 2 /\ ~Over(g)
    BY <1>1, Later DEF GrabIInv
  <1>3. key[g] \in Stored
    BY <1>1, <1>2, KnownStored
  <1> QED
    BY <1>1, <1>3, RowStepKeeps DEF RowStates

LEMMA EarlyPlaces ==
  ASSUME NEW n \in 1 .. 4, NEW m \in 8 .. 13
  PROVE  n \in 1 .. m /\ n + 1 <= m
  OBVIOUS

\* Nothing is admitted right after the first steps.
LEMMA NotYetAdmitted ==
  ASSUME NEW g \in Grab, Usenet(g), NEW n \in 1 .. 4, n <= 2 \/ FacadeOf[g] \in {"native", "newz"}
  PROVE  StepsOf(g)[n + 1] # "admit"
  <1>1. Len(StepsOf(g)) \in 8 .. 13
    BY Places
  <1>2. n \in 1 .. Len(StepsOf(g)) /\ n + 1 <= Len(StepsOf(g))
    BY <1>1, EarlyPlaces
  <1>3. StepsOf(g)[n] \in {"fetch", "lock", "link", "relink", "map"}
    BY <1>2, Places DEF InPlace
  <1> QED
    BY <1>2, <1>3, StoredBefore

LEMMA EarlyStored ==
  ASSUME GrabIInv, NEW g \in Grab, UNCHANGED <<accountRow, keptRows, cached, nzbFile, known>>,
         \A h \in Grab \ {g} : grabAt'[h] = grabAt[h] /\ key'[h] = key[h],
         grabAt[g] <= 3,
         Over(g)' \/ \E n \in 1 .. 4 : grabAt'[g] = n + 1 /\ (n <= 2 \/ FacadeOf[g] \in {"native", "newz"})
  PROVE  StoredInv'
  <1>1. Stored' = Stored
    BY DEF Stored, UsenetOnly, Usenet
  <1>2. known[g] = Unread
    BY DEF GrabIInv, FreshInv
  <1>3. \A h \in Grab \ {g} : Informed(h)' => Informed(h)
    BY DEF Informed, Usenet, AtStep, Over
  <1>4. ~Informed(g)'
    <2>1. ~(Usenet(g) /\ AtStep(g, "admit")')
      BY NotYetAdmitted DEF AtStep
    <2> QED
      BY <1>2, <2>1 DEF Informed, Unread, Usenet
  <1> QED
    BY <1>1, <1>3, <1>4 DEF GrabIInv, StoredInv

LEMMA FetchStored ==
  ASSUME GrabIInv, NEW g \in Grab, Fetch(g)
  PROVE  StoredInv'
  <1>1. GrabTypes
    BY DEF GrabIInv
  <1>2. grabAt[g] = 1
    <2>1. AtStep(g, "fetch")
      BY DEF Fetch
    <2>2. grabAt[g] \in 1 .. Len(StepsOf(g)) /\ StepsOf(g)[grabAt[g]] = "fetch"
      BY <1>1, <2>1, Places DEF AtStep, Over, GrabTypes
    <2> QED
      BY <2>2, Places DEF InPlace
  <1>3. /\ grabAt'[g] = 1 + 1 /\ \A h \in Grab \ {g} : grabAt'[h] = grabAt[h] /\ key'[h] = key[h]
        /\ UNCHANGED <<accountRow, keptRows, cached, nzbFile, known>>
    BY <1>1, <1>2 DEF Fetch, GrabTypes
  <1> QED
    BY <1>2, <1>3, EarlyStored

LEMMA LockStored ==
  ASSUME GrabIInv, NEW g \in Grab, LockGrab(g)
  PROVE  StoredInv'
  <1>1. GrabTypes
    BY DEF GrabIInv
  <1>2. grabAt[g] = 2
    BY <1>1, Places DEF LockGrab, AtStep, Over, InPlace, GrabTypes
  <1>3. /\ grabAt'[g] = 2 + 1 /\ \A h \in Grab \ {g} : grabAt'[h] = grabAt[h] /\ key'[h] = key[h]
        /\ UNCHANGED <<accountRow, keptRows, cached, nzbFile, known>>
    BY <1>1, <1>2 DEF LockGrab, GrabTypes
  <1> QED
    BY <1>2, <1>3, EarlyStored

LEMMA OfLinks ==
  ASSUME GrabTypes, NEW g \in Grab, AtStep(g, "link") \/ AtStep(g, "relink")
  PROVE  FacadeOf[g] \in {"native", "newz"}
  <1>1. grabAt[g] \in 1 .. Len(StepsOf(g)) /\ StepsOf(g)[grabAt[g]] \in {"link", "relink"}
    BY Places DEF AtStep, Over, GrabTypes
  <1> QED
    BY <1>1, Places DEF InPlace

LEMMA ByLinkStored ==
  ASSUME GrabIInv, NEW g \in Grab, ByLink(g)
  PROVE  StoredInv'
  <1>1. GrabTypes
    BY DEF GrabIInv
  <1>2. grabAt[g] = 3 /\ FacadeOf[g] \in {"native", "newz"}
    BY <1>1, AtThird, OfLinks DEF ByLink
  <1>3. PICK n \in {3, 4} : grabAt' = [grabAt EXCEPT ![g] = n + 1]
    BY <1>2 DEF ByLink
  <1>4. /\ grabAt'[g] = n + 1 /\ \A h \in Grab \ {g} : grabAt'[h] = grabAt[h]
        /\ UNCHANGED <<accountRow, keptRows, cached, nzbFile, known>>
    BY <1>1, <1>3 DEF ByLink, GrabTypes
  <1>5. \A h \in Grab \ {g} : key'[h] = key[h]
    BY <1>1 DEF ByLink, GrabTypes
  <1> QED
    BY <1>2, <1>4, <1>5, EarlyStored

LEMMA RelinkStored ==
  ASSUME GrabIInv, NEW g \in Grab, Relink(g)
  PROVE  StoredInv'
  <1>1. GrabTypes
    BY DEF GrabIInv
  <1>2. grabAt[g] = 3 /\ FacadeOf[g] \in {"native", "newz"}
    BY <1>1, AtThird, OfLinks DEF Relink
  <1>3. GoesOn(g) \/ Returns(g)
    BY DEF Relink
  <1>4. (\A h \in Grab \ {g} : grabAt'[h] = grabAt[h]) /\ (Over(g)' \/ grabAt'[g] = 3 + 1)
    BY <1>1, <1>2, <1>3, MovesOn
  <1>5. /\ UNCHANGED <<accountRow, keptRows, cached, nzbFile, known>>
        /\ \A h \in Grab \ {g} : key'[h] = key[h]
    BY <1>1 DEF Relink, GrabTypes
  <1> QED
    BY <1>2, <1>4, <1>5, EarlyStored

LEMMA MapStored ==
  ASSUME GrabIInv, NEW g \in Grab, MapNzbURL(g)
  PROVE  StoredInv'
  <1>1. GrabTypes
    BY DEF GrabIInv
  <1>2. ~Over(g) /\ ~AtStep(g, "store")
    BY DEF MapNzbURL, AtStep
  <1>3. GoesOn(g) /\ UNCHANGED <<accountRow, keptRows, cached, nzbFile, key, known>>
    BY DEF MapNzbURL
  <1>4. (\A h \in Grab \ {g} : grabAt'[h] = grabAt[h]) /\ (grabAt'[g] = grabAt[g] + 1 \/ Over(g)')
    BY <1>1, <1>3, MovesOn
  <1>5. Stored' = Stored
    BY <1>3 DEF Stored, UsenetOnly, Usenet
  <1>6. \A h \in Grab : Informed(h)' => key'[h] \in Stored'
    BY <1>2, <1>3, <1>4, <1>5, InformedKept
  <1> QED
    BY <1>3, <1>5, <1>6 DEF GrabIInv, StoredInv

\* What happens meanwhile creates no row of a content that had none.
Undisturbed == UNCHANGED <<nzbUrl, nzbFile, heldKey, grabAt, body, key, known, remapped>>

LEMMA ElsewhereKeeps ==
  ASSUME GrabIInv, Undisturbed, accountRow' \in [Grabber -> [Contents -> RowStates]],
         \A u \in Grabber, c \in Contents : accountRow'[u][c] # "none" => accountRow[u][c] # "none",
         \A c \in keptRows' \union cached' :
           c \in keptRows \union cached \/ (c \in Contents /\ \E u \in Grabber : accountRow[u][c] # "none")
  PROVE  GrabIInv'
  <1>1. UNCHANGED <<grabAt, body, key, known, heldKey, nzbUrl, nzbFile, remapped>>
    BY DEF Undisturbed
  <1>2. GrabTypes /\ StoredInv
    BY DEF GrabIInv
  <1>3. GrabTypes'
    BY <1>1, <1>2 DEF GrabTypes
  <1>4. Stored' = Stored /\ \A g \in Grab : Informed(g)' <=> Informed(g)
    BY <1>1 DEF Stored, UsenetOnly, Usenet, Informed, AtStep, Over
  <1>5. StoredInv'
    BY <1>1, <1>2, <1>4 DEF StoredInv
  <1> QED
    BY <1>1, <1>3, <1>5, MeanwhileKeeps DEF GrabIInv

LEMMA DownloadEndsKeeps == GrabIInv /\ DownloadEnds => GrabIInv'
  <1> SUFFICES ASSUME GrabIInv, DownloadEnds PROVE GrabIInv'
    OBVIOUS
  <1>1. PICK c \in Contents, st \in {"complete", "failed"} :
          /\ \E u \in Grabber : accountRow[u][c] = "active"
          /\ cached' \subseteq cached \union {c}
          /\ accountRow' = [u \in Grabber |-> [accountRow[u] EXCEPT ![c] = IF @ = "active" THEN st ELSE @]]
    BY DEF DownloadEnds
  <1>2. accountRow \in [Grabber -> [Contents -> RowStates]]
    BY DEF GrabIInv, GrabTypes
  <1>3. accountRow' \in [Grabber -> [Contents -> RowStates]]
    BY <1>1, <1>2 DEF RowStates
  <1>4. \A u \in Grabber, d \in Contents : accountRow'[u][d] # "none" => accountRow[u][d] # "none"
    BY <1>1, <1>2
  <1>5. Undisturbed /\ UNCHANGED keptRows
    BY DEF Elsewhere, grabs, Undisturbed, DownloadEnds
  <1>6. \A d \in keptRows' \union cached' :
          d \in keptRows \union cached \/ (d \in Contents /\ \E u \in Grabber : accountRow[u][d] # "none")
    BY <1>1, <1>5
  <1> QED
    BY <1>3, <1>4, <1>5, <1>6, ElsewhereKeeps

LEMMA ContentEvictedKeeps == GrabIInv /\ ContentEvicted => GrabIInv'
  <1> SUFFICES ASSUME GrabIInv, ContentEvicted PROVE GrabIInv'
    OBVIOUS
  <1>1. PICK c \in cached :
          /\ cached' = cached \ {c} /\ keptRows' = keptRows \ {c}
          /\ accountRow' = [u \in Grabber |-> [accountRow[u] EXCEPT ![c] = IF @ = "complete" THEN "evicted" ELSE @]]
    BY DEF ContentEvicted
  <1>2. accountRow \in [Grabber -> [Contents -> RowStates]]
    BY DEF GrabIInv, GrabTypes
  <1>3. accountRow' \in [Grabber -> [Contents -> RowStates]]
        /\ \A u \in Grabber, d \in Contents : accountRow'[u][d] # "none" => accountRow[u][d] # "none"
    BY <1>1, <1>2 DEF RowStates
  <1>4. Undisturbed
    BY DEF Elsewhere, grabs, Undisturbed, ContentEvicted
  <1> QED
    BY <1>1, <1>3, <1>4, ElsewhereKeeps

LEMMA RowsAsideKeep == GrabIInv /\ (RetryRow \/ MarksExpire) => GrabIInv'
  <1> SUFFICES ASSUME GrabIInv, RetryRow \/ MarksExpire PROVE GrabIInv'
    OBVIOUS
  <1>1. accountRow \in [Grabber -> [Contents -> RowStates]]
    BY DEF GrabIInv, GrabTypes
  <1>2. \/ UNCHANGED accountRow
        \/ \E u \in Grabber, c \in Contents, st \in RowStates :
             accountRow[u][c] # "none" /\ accountRow' = [accountRow EXCEPT ![u][c] = st]
    BY DEF RetryRow, MarksExpire, RowStates
  <1>3. accountRow' \in [Grabber -> [Contents -> RowStates]]
        /\ \A u \in Grabber, d \in Contents : accountRow'[u][d] # "none" => accountRow[u][d] # "none"
    BY <1>1, <1>2
  <1>4. Undisturbed /\ UNCHANGED <<keptRows, cached>>
    BY DEF Elsewhere, grabs, Undisturbed, RetryRow, MarksExpire
  <1> QED
    BY <1>3, <1>4, ElsewhereKeeps

LEMMA DeleteRowKeeps == GrabIInv /\ DeleteRow => GrabIInv'
  <1> SUFFICES ASSUME GrabIInv, DeleteRow PROVE GrabIInv'
    OBVIOUS
  <1>1. PICK u \in Grabber, c \in Contents :
          /\ accountRow[u][c] # "none" /\ accountRow' = [accountRow EXCEPT ![u][c] = "none"]
          /\ keptRows' \subseteq keptRows \union {c}
    BY DEF DeleteRow
  <1>2. accountRow \in [Grabber -> [Contents -> RowStates]]
    BY DEF GrabIInv, GrabTypes
  <1>3. accountRow' \in [Grabber -> [Contents -> RowStates]]
        /\ \A v \in Grabber, d \in Contents : accountRow'[v][d] # "none" => accountRow[v][d] # "none"
    BY <1>1, <1>2 DEF RowStates
  <1>4. Undisturbed /\ UNCHANGED cached
    BY DEF Elsewhere, grabs, Undisturbed, DeleteRow
  <1> QED
    BY <1>1, <1>3, <1>4, ElsewhereKeeps

LEMMA TombstoneKeeps == GrabIInv /\ TombstoneUsenet => GrabIInv'
  <1> SUFFICES ASSUME GrabIInv, TombstoneUsenet PROVE GrabIInv'
    OBVIOUS
  <1>1. Undisturbed /\ UNCHANGED <<accountRow, keptRows, cached>>
    BY DEF Elsewhere, grabs, Undisturbed, TombstoneUsenet
  <1> QED
    BY <1>1, ElsewhereKeeps DEF GrabIInv, GrabTypes

LEMMA GrabStepKeeps == GrabIInv /\ [SubmissionNext]_submissionVars => GrabIInv'
  <1>1. GrabIInv /\ UNCHANGED submissionVars => GrabIInv'
    BY MeanwhileKeeps
    DEF submissionVars, grabs, GrabIInv, GrabTypes, StoredInv, Stored, UsenetOnly, Usenet, Informed, AtStep, Over
  <1>2. ASSUME GrabIInv, NEW g \in Grab, GrabStep(g) PROVE GrabIInv'
    <2>1. CASE Fetch(g) \/ LockGrab(g) \/ ByLink(g) \/ Relink(g) \/ MapNzbURL(g)
      BY <1>2, <2>1, FetchKeeps, LockKeeps, ByLinkKeeps, RelinkKeeps, MapKeeps,
         FetchStored, LockStored, ByLinkStored, RelinkStored, MapStored DEF GrabIInv
    <2>2. CASE Own(g) \/ Siblings(g) \/ Removed(g) \/ Failed(g) \/ Look(g) \/ Refuse(g)
      BY <1>2, <2>2, LookUpsKeep, SiblingsKeeps, LookKeeps
    <2>3. CASE Hit(g) \/ Reuse(g) \/ Archive(g) \/ StoreNzb(g) \/ AdmitGrab(g)
      BY <1>2, <2>3, HitKeeps, ReuseKeeps, ArchiveKeeps, StoreKeeps, AdmitKeeps
    <2> QED
      BY <1>2, <2>1, <2>2, <2>3 DEF GrabStep
  <1> QED
    BY <1>1, <1>2, DownloadEndsKeeps, ContentEvictedKeeps, RowsAsideKeep, DeleteRowKeeps, TombstoneKeeps
    DEF SubmissionNext

\* The requests of an account for a link have worked on one content, which has one row.
LEMMA OneRow == GrabIInv => OneRowPerLink
  <1> SUFFICES ASSUME GrabIInv, NEW l \in Links \ remapped, NEW u \in Grabber
               PROVE  LET asked == {g \in Grab : LinkOf[g] = l /\ GrabberOf[g] = u}
                          theirs == {key[g] : g \in {h \in asked : Over(h)}} IN
                      Cardinality({c \in theirs \ {NoContent} : accountRow[u][c] = "active"}) <= 1
    BY DEF OneRowPerLink
  <1> DEFINE asked == {g \in Grab : LinkOf[g] = l /\ GrabberOf[g] = u}
             theirs == {key[g] : g \in {h \in asked : Over(h)}}
             rows == {c \in theirs \ {NoContent} : accountRow[u][c] = "active"}
  <1>1. \A c \in theirs \ {NoContent} : c = nzbUrl[l]
    BY DEF GrabIInv, MappedInv
  <1>2. rows \subseteq {nzbUrl[l]}
    BY <1>1
  <1>3. IsFiniteSet({nzbUrl[l]}) /\ Cardinality({nzbUrl[l]}) = 1
    BY FS_Singleton
  <1>4. Cardinality(rows) <= Cardinality({nzbUrl[l]})
    BY <1>2, <1>3, FS_Subset
  <1>5. Cardinality(rows) <= 1
    BY <1>3, <1>4
  <1> QED
    BY <1>5

LEMMA BehindRow == GrabIInv => NzbBehindRow
  BY DEF GrabIInv, StoredInv, Stored, UsenetOnly, NzbBehindRow

-----------------------------------------------------------------------------
(* What a user has removed stays away.                                     *)

\* A mark that a request minds stands; past the look for it, a player's request works on a
\* content that bears none of them.
Player(g) == FacadeOf[g] = "native" /\ g \notin Explicit
AwayInv ==
  /\ before \in [Grab -> SUBSET tombstone]
  /\ \A g \in Grab : Player(g) /\ grabAt[g] > 6 /\ ~Over(g) => <<GrabberOf[g], key[g]>> \notin before[g]

LEMMA AwayInitially == SubmissionInit => AwayInv
  <1> SUFFICES ASSUME SubmissionInit PROVE AwayInv
    OBVIOUS
  <1>1. before = [g \in Grab |-> {}]
    BY DEF SubmissionInit
  <1> QED
    BY <1>1 DEF AwayInv

\* Where a native request is.
LEMMA NativePlaces ==
  ASSUME GrabTypes, NEW g \in Grab, FacadeOf[g] = "native", NEW s, AtStep(g, s)
  PROVE  /\ s = "removed" <=> grabAt[g] = 6
         /\ s \in {"hit", "reuse", "reuseSeen", "archive", "admit"} => grabAt[g] > 6
         /\ s = "fetch" => grabAt[g] = 1
         /\ s = "link" => grabAt[g] = 3
         /\ s # "relink"
  <1>1. StepsOf(g) = NativeSteps /\ Len(NativeSteps) = 13
    BY DEF StepsOf, NativeSteps
  <1>2. \A n \in 1 .. 13 :
          /\ NativeSteps[n] = "removed" <=> n = 6
          /\ NativeSteps[n] \in {"hit", "reuse", "reuseSeen", "archive", "admit"} => n > 6
          /\ NativeSteps[n] = "fetch" => n = 1
          /\ NativeSteps[n] = "link" => n = 3
          /\ NativeSteps[n] # "relink"
    BY DEF NativeSteps
  <1>3. grabAt[g] \in 1 .. 13 /\ NativeSteps[grabAt[g]] = s
    BY <1>1 DEF AtStep, Over, GrabTypes
  <1> QED
    BY <1>2, <1>3

\* A request that stays where it is, while marks are set and lifted.
LEMMA MarksMove ==
  ASSUME AwayInv, UNCHANGED <<grabAt, key>>, before' \in [Grab -> SUBSET tombstone'],
         \A g \in Grab : before'[g] \subseteq before[g]
  PROVE  AwayInv'
  BY DEF AwayInv, Over

LEMMA Lifted ==
  ASSUME AwayInv, NEW mark, Lift(mark)
  PROVE  before' \in [Grab -> SUBSET tombstone'] /\ \A g \in Grab : before'[g] \subseteq before[g]
  BY DEF AwayInv, Lift

\* A step of a request that looks for no mark and changes its content only where it may.
LEMMA StepPast ==
  ASSUME GrabTypes, AwayInv, NEW g \in Grab, NEW s, AtStep(g, s), s # "removed",
         GoesOn(g) \/ Returns(g) \/ grabAt' = [grabAt EXCEPT ![g] = @ + 1],
         UNCHANGED <<key, before, tombstone>>
  PROVE  AwayInv'
  <1>1. \A h \in Grab \ {g} : grabAt'[h] = grabAt[h]
    BY MovesOn DEF GrabTypes
  <1>2. grabAt'[g] = grabAt[g] + 1 \/ Over(g)'
    BY MovesOn DEF GrabTypes
  <1>3. grabAt[g] \in Nat /\ ~Over(g)
    BY DEF GrabTypes, AtStep
  <1>4. Player(g) => grabAt[g] # 6
    BY NativePlaces DEF Player
  <1>5. Player(g) /\ grabAt'[g] > 6 /\ ~Over(g)' => grabAt[g] > 6
    BY <1>2, <1>3, <1>4
  <1>6. \A h \in Grab \ {g} : Over(h)' <=> Over(h)
    BY <1>1 DEF Over
  <1> QED
    BY <1>1, <1>3, <1>5, <1>6 DEF AwayInv, Player

LEMMA FetchAway ==
  ASSUME GrabTypes, AwayInv, NEW g \in Grab, Fetch(g)
  PROVE  AwayInv'
  <1>1. grabAt' = [grabAt EXCEPT ![g] = @ + 1] /\ before' = [before EXCEPT ![g] = tombstone] /\ UNCHANGED tombstone
    BY DEF Fetch
  <1>2. \A h \in Grab \ {g} : grabAt'[h] = grabAt[h] /\ key'[h] = key[h] /\ before'[h] = before[h] /\ (Over(h)' <=> Over(h))
    BY DEF Fetch, GrabTypes, AwayInv, Over
  <1>3. before' \in [Grab -> SUBSET tombstone']
    BY <1>1 DEF AwayInv
  <1>4. Player(g) => ~(grabAt'[g] > 6)
    BY <1>1, NativePlaces DEF Fetch, Player, GrabTypes
  <1> QED
    BY <1>2, <1>3, <1>4 DEF AwayInv, Player

LEMMA LinkAway ==
  ASSUME GrabTypes, AwayInv, NEW g \in Grab, ByLink(g) \/ Relink(g)
  PROVE  AwayInv'
  <1>1. \A h \in Grab \ {g} : key'[h] = key[h]
    BY DEF ByLink, Relink, GrabTypes
  <1>2. UNCHANGED <<before, tombstone>>
    BY DEF ByLink, Relink
  <1>3. \A h \in Grab \ {g} : grabAt'[h] = grabAt[h]
    <2>1. CASE ByLink(g)
      BY <2>1 DEF ByLink, GrabTypes
    <2>2. CASE Relink(g)
      BY <2>2, MovesOn DEF Relink
    <2> QED
      BY <2>1, <2>2
  <1>4. \A h \in Grab \ {g} : Over(h)' <=> Over(h)
    BY <1>3 DEF Over
  <1>5. Player(g) => ~(grabAt'[g] > 6)
    <2> SUFFICES ASSUME Player(g) PROVE ~(grabAt'[g] > 6)
      OBVIOUS
    <2>1. FacadeOf[g] = "native"
      BY DEF Player
    <2>2. ~AtStep(g, "relink")
      BY <2>1, NativePlaces
    <2>3. ByLink(g)
      BY <2>2 DEF Relink
    <2>4. grabAt[g] = 3
      BY <2>1, <2>3, NativePlaces DEF ByLink
    <2>5. grabAt'[g] \in {4, 5}
      BY <2>3, <2>4 DEF ByLink, GrabTypes
    <2> QED
      BY <2>5
  <1> QED
    BY <1>1, <1>2, <1>3, <1>4, <1>5 DEF AwayInv, Player

LEMMA RemovedAway ==
  ASSUME GrabTypes, AwayInv, NEW g \in Grab, Removed(g)
  PROVE  AwayInv'
  <1>1. /\ \A h \in Grab \ {g} : grabAt'[h] = grabAt[h]
        /\ UNCHANGED key
    BY MovesOn DEF Removed
  <1>2. \A h \in Grab \ {g} : Over(h)' <=> Over(h)
    BY <1>1 DEF Over
  <1> DEFINE mark == <<GrabberOf[g], key[g]>>
  <1>3. before' \in [Grab -> SUBSET tombstone'] /\ \A h \in Grab : before'[h] \subseteq before[h]
    BY Lifted DEF Removed, AwayInv
  <1>4. Player(g) /\ ~Over(g)' => mark \notin before'[g]
    <2> SUFFICES ASSUME Player(g), ~Over(g)' PROVE mark \notin before'[g]
      OBVIOUS
    <2>1. CASE mark \notin tombstone
      BY <1>3, <2>1 DEF AwayInv
    <2>2. CASE mark \in tombstone
      <3>1. Returns(g)
        BY <2>2 DEF Removed, Player
      <3>2. Over(g)'
        <4>1. Len(StepsOf(g)) \in 8 .. 13
          BY Places
        <4>2. grabAt'[g] = Len(StepsOf(g)) + 1
          BY <3>1 DEF Returns, GrabTypes
        <4> QED
          BY <4>1, <4>2 DEF Over
      <3> QED
        BY <3>2
    <2> QED
      BY <2>1, <2>2
  <1> QED
    BY <1>1, <1>2, <1>3, <1>4 DEF AwayInv, Player

LEMMA AwayStepKeeps ==
  ASSUME GrabTypes, AwayInv, [SubmissionNext]_submissionVars
  PROVE  AwayInv'
  <1>1. CASE UNCHANGED submissionVars
    BY <1>1, MarksMove DEF submissionVars, grabs, AwayInv
  <1>2. ASSUME NEW g \in Grab, GrabStep(g) PROVE AwayInv'
    <2>1. CASE Fetch(g) \/ ByLink(g) \/ Relink(g) \/ Removed(g)
      BY <2>1, FetchAway, LinkAway, RemovedAway
    <2>2. CASE LockGrab(g)
      BY <2>2, StepPast DEF LockGrab
    <2>3. CASE MapNzbURL(g)
      BY <2>3, StepPast DEF MapNzbURL
    <2>4. CASE Own(g) \/ Failed(g) \/ Refuse(g) \/ Look(g)
      BY <2>4, StepPast DEF Own, Failed, Refuse, Look
    <2>5. CASE Siblings(g)
      BY <2>5, StepPast DEF Siblings
    <2>6. CASE Hit(g) \/ Archive(g) \/ StoreNzb(g) \/ AdmitGrab(g)
      BY <2>6, StepPast DEF Hit, Archive, StoreNzb, AdmitGrab
    <2>7. CASE Reuse(g)
      BY <2>7, StepPast DEF Reuse, Link
    <2> QED
      BY <1>2, <2>1, <2>2, <2>3, <2>4, <2>5, <2>6, <2>7 DEF GrabStep
  <1>3. CASE DownloadEnds \/ ContentEvicted \/ RetryRow \/ DeleteRow
    BY <1>3, MarksMove DEF DownloadEnds, ContentEvicted, RetryRow, DeleteRow, Elsewhere, grabs, AwayInv
  <1>4. CASE MarksExpire
    <2>1. before' \in [Grab -> SUBSET tombstone'] /\ \A g \in Grab : before'[g] \subseteq before[g]
      BY <1>4, Lifted DEF MarksExpire, AwayInv
    <2> QED
      BY <1>4, <2>1, MarksMove DEF MarksExpire
  <1>5. CASE TombstoneUsenet
    BY <1>5, MarksMove DEF TombstoneUsenet, Elsewhere, grabs, AwayInv
  <1> QED
    BY <1>1, <1>2, <1>3, <1>4, <1>5 DEF SubmissionNext

\* A row comes alive by the step of a request that ends with it, on the content it works on.
LEMMA RowsComeAlive ==
  ASSUME GrabTypes, NEW g \in Grab, GrabStep(g)
  PROVE  \/ UNCHANGED accountRow
         \/ /\ \E s \in {"hit", "reuse", "reuseSeen", "archive", "admit"} : AtStep(g, s)
            /\ \A c \in Contents : accountRow'[GrabberOf[g]][c] # accountRow[GrabberOf[g]][c] => c = key[g]
  <1>1. \A st : CreateRow(g, st) =>
          \A c \in Contents : accountRow'[GrabberOf[g]][c] # accountRow[GrabberOf[g]][c] => c = key[g]
    BY SubmissionAssumption DEF CreateRow, GrabTypes
  <1>2. CASE Hit(g)
    BY <1>1, <1>2 DEF Hit
  <1>3. CASE Reuse(g)
    BY <1>1, <1>3 DEF Reuse, Link
  <1>4. CASE Archive(g)
    BY <1>1, <1>4 DEF Archive
  <1>5. CASE AdmitGrab(g)
    BY <1>1, <1>5 DEF AdmitGrab
  <1> QED
    BY <1>2, <1>3, <1>4, <1>5 DEF GrabStep, Fetch, LockGrab, ByLink, Relink, MapNzbURL, Own, Siblings, Removed, Failed,
       Look, Refuse, StoreNzb

LEMMA AwayStays ==
  ASSUME GrabTypes, AwayInv, [SubmissionNext]_submissionVars
  PROVE  \A g \in Grab : FacadeOf[g] = "native" /\ g \notin Explicit /\ ~Over(g) /\ Over(g)' =>
           \A c \in Contents :
             accountRow[GrabberOf[g]][c] \notin Live /\ accountRow'[GrabberOf[g]][c] \in Live =>
               <<GrabberOf[g], c>> \notin before[g]
  <1> SUFFICES ASSUME NEW g \in Grab, Player(g), ~Over(g), Over(g)', NEW c \in Contents,
                      accountRow[GrabberOf[g]][c] \notin Live, accountRow'[GrabberOf[g]][c] \in Live
               PROVE  <<GrabberOf[g], c>> \notin before[g]
    BY DEF Player
  <1>1. grabAt' # grabAt
    BY DEF Over
  <1>2. GrabStep(g)
    <2>1. PICK h \in Grab : GrabStep(h)
      BY <1>1 DEF SubmissionNext, submissionVars, grabs, DownloadEnds, ContentEvicted, RetryRow, MarksExpire, DeleteRow,
         TombstoneUsenet, Elsewhere
    <2>2. \A k \in Grab \ {h} : grabAt'[k] = grabAt[k]
      <3>1. CASE Fetch(h) \/ LockGrab(h) \/ ByLink(h)
        BY <3>1 DEF Fetch, LockGrab, ByLink, GrabTypes
      <3>2. CASE ~(Fetch(h) \/ LockGrab(h) \/ ByLink(h))
        <4>1. GoesOn(h) \/ Returns(h)
          BY <2>1, <3>2 DEF GrabStep, Relink, MapNzbURL, Own, Siblings, Removed, Failed, Look, Hit, Reuse, Link, Archive,
             Refuse, StoreNzb, AdmitGrab
        <4> QED
          BY <4>1, MovesOn
      <3> QED
        BY <3>1, <3>2
    <2>3. h = g
      BY <2>2 DEF Over
    <2> QED
      BY <2>1, <2>3
  <1>3. c = key[g] /\ \E s \in {"hit", "reuse", "reuseSeen", "archive", "admit"} : AtStep(g, s)
    BY <1>2, RowsComeAlive
  <1>4. grabAt[g] > 6
    BY <1>3, NativePlaces DEF Player
  <1> QED
    BY <1>3, <1>4 DEF AwayInv

-----------------------------------------------------------------------------
(* The bundles.                                                            *)
\* A torrent's mark is held by one run and by no dead one (torrent.go, reconcile), the reaper
\* spares what an active row names when it lists the rows (orphans.go), and a stuck torrent is
\* restarted once at most (finalize.go): for any number of hashes, runners and finalizers.
THEOREM TorrentsKeptHolds == PartsSpec => []TorrentsKept
  <1>1. PartsInit => TorrentIInv /\ StallIInv
    <2> SUFFICES ASSUME PartsInit PROVE TorrentIInv /\ StallIInv
      OBVIOUS
    <2>1. TorrentInit /\ StallFresh /\ waiting \in {"yes", "over"}
      BY DEF PartsInit
    <2> QED
      BY <2>1, TorrentInitially, StallInitially
  <1>2. [PartsNext]_partsVars => [TorrentNext]_torrentVars /\ [StallNext]_stallVars
    BY DEF PartsNext, Resting, partsVars
  <1>3. TorrentIInv => NoStrayMark /\ OneHolder /\ ReapSparesActive
    BY SteadySpared DEF TorrentIInv, MarkInv
  <1>4. StallIInv => RestartedOnce
    BY DEF StallIInv, RestartedOnce
  <1> QED
    BY <1>1, <1>2, <1>3, <1>4, TorrentStepKeeps, StallStepKeeps, PTL DEF PartsSpec, TorrentsKept

\* Nobody has plan time that has not been paid for, whichever webhooks come twice, late or
\* out of order (bitcart.go, bachs.go, gumroad.go), and a reseller's code is sold once, grants
\* one plan, and counts against its own partner (reseller.go): for any number of sales,
\* subscriptions, codes, partners and users.
THEOREM PaidIsGivenHolds == PartsSpec => []PaidIsGiven
  <1>1. PartsInit => PlanIInv /\ CodesIInv
    BY PlanInitially, CodesInitially DEF PartsInit
  <1>2. [PartsNext]_partsVars => [PlanNext]_planVars /\ [CodesNext]_codeVars
    BY DEF PartsNext, Resting, partsVars
  <1>3. PlanIInv /\ CodesIInv => PaidIsGiven
    BY NothingFree, CodesKept DEF PaidIsGiven, CodesPromise
  <1> QED
    BY <1>1, <1>2, <1>3, PlanStepKeeps, CodesStepKeeps, PTL DEF PartsSpec

\* An account's requests for one link leave it one live row, and the row of a Usenet download
\* names an NZB that is there, under whatever hash the indexer presents it (usenet.go,
\* stremthru/newz.go, arr/nzb.go); a check says "cached" of what was here throughout, and no
\* answer is two lives old (stremthru.go, availcache.go): for any number of requests,
\* accounts, links, contents, processes and torrents.
THEOREM AskedOnceHolds == PartsSpec => []AskedOnce
  <1>1. PartsInit => GrabIInv /\ CheckIInv
    BY GrabInitially, CheckInitially DEF PartsInit
  <1>2. [PartsNext]_partsVars => [SubmissionNext]_submissionVars /\ [CheckNext]_checkVars
    BY DEF PartsNext, Resting, partsVars
  <1>3. GrabIInv /\ CheckIInv => AskedOnce
    BY OneRow, BehindRow, CheckedRight DEF AskedOnce
  <1> QED
    BY <1>1, <1>2, <1>3, GrabStepKeeps, CheckStepKeeps, PTL DEF PartsSpec

\* What is fetched is whole or known not to be: what Usenet lacks is reported and a release with its
\* par2 set is published whole (download.go, postproc), a file by HTTP that is done has every block
\* (httpdl.go), and one document forwarded to the bot is kept whole as long as no two accounts
\* forward it at once (bot.go): for any release, file and messages.
THEOREM FetchedIsWholeHolds == PartsSpec => []FetchedIsWhole
  <1>1. PartsInit => FetchIInv /\ PartIInv /\ BotIInv
    BY FetchInitially, PartInitially, BotInitially DEF PartsInit
  <1>2. [PartsNext]_partsVars => [FetchNext]_fetchVars /\ [PartNext]_partVars /\ [BotNext]_botVars
    BY DEF PartsNext, Resting, partsVars
  <1>3. FetchIInv /\ PartIInv /\ BotIInv => FetchedIsWhole
    BY FetchStays, PartStays, BotStays DEF FetchedIsWhole
  <1> QED
    BY <1>1, <1>2, <1>3, FetchStepKeeps, PartStepKeeps, BotStepKeeps, PTL DEF PartsSpec

\* A run takes its files from one attempt, and takes back what it gave a service (debrid.go); a
\* release unpacks one packaging, and asks Usenet when all are dead (release.go); a link keeps
\* to its limit (ytdlp.go): for any runs, services, posts and videos.
THEOREM OneSourceOfFilesHolds == PartsSpec => []OneSourceOfFiles
  <1>1. PartsInit => DebridIInv /\ RelIInv /\ LinkIInv
    BY DebridInitially, RelInitially, LinkInitially DEF PartsInit
  <1>2. [PartsNext]_partsVars => [DebridNext]_debridVars /\ [ReleaseNext]_releaseVars /\ [LinkNext]_linkVars
    BY DEF PartsNext, Resting, partsVars
  <1>3. DebridIInv /\ RelIInv /\ LinkIInv => OneSourceOfFiles
    BY NothingStays, ReleaseStays, LinkStays DEF OneSourceOfFiles
  <1> QED
    BY <1>1, <1>2, <1>3, DebridStepKeeps, ReleaseStepKeeps, LinkStepKeeps, PTL DEF PartsSpec

\* No step of a run removes what was in its owner's library (realdebrid.go, torbox.go), brings
\* back what he has removed (usenet.go), or takes with an old subscription a plan paid for since
\* (gumroad.go): for any runs, requests, accounts and subscriptions.
THEOREM OwnersKeepTheirsHolds == PartsSpec => OwnersKeepTheirs
  <1>1. PartsInit => DebridIInv /\ GrabIInv /\ AwayInv /\ PlanIInv /\ GiverInv
    BY DebridInitially, GrabInitially, AwayInitially, PlanInitially, GiverInitially DEF PartsInit
  <1>2. [PartsNext]_partsVars => [DebridNext]_debridVars /\ [SubmissionNext]_submissionVars /\ [PlanNext]_planVars
    BY DEF PartsNext, Resting, partsVars
  <1>3. GrabIInv => GrabTypes
    BY DEF GrabIInv
  <1>4. DebridIInv /\ [DebridNext]_debridVars =>
          [\A i \in account \ account' :
             \/ i[1] \in Run /\ i \in handle[i[1]]
             \/ i[2] = "ad" /\ UNCHANGED asks]_debridVars
    BY LibraryStays
  <1>5. GrabTypes /\ AwayInv /\ [SubmissionNext]_submissionVars =>
          [\A g \in Grab :
             FacadeOf[g] = "native" /\ g \notin Explicit /\ ~Over(g) /\ Over(g)' =>
               \A c \in Contents :
                 accountRow[GrabberOf[g]][c] \notin Live /\ accountRow'[GrabberOf[g]][c] \in Live =>
                   <<GrabberOf[g], c>> \notin before[g]]_submissionVars
    BY AwayStays
  <1>6. GiverInv /\ [PlanNext]_planVars =>
          [SubscriptionEnded /\ HasPaidPlan(planRow) /\ ~HasPaidPlan(planRow') => giver \in subOver]_planVars
    BY GiverTakes
  <1> QED
    BY <1>1, <1>2, <1>3, <1>4, <1>5, <1>6, DebridStepKeeps, GrabStepKeeps, AwayStepKeeps, PlanStepKeeps, GiverStepKeeps,
       PTL DEF PartsSpec, OwnersKeepTheirs, LibraryKept, RemovedStaysAway, PlanOutlivesOldSub
=============================================================================
