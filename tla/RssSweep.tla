------------------------------ MODULE RssSweep ------------------------------
(***************************************************************************)
(* A feed of RSS items that a sweep of the API turns into downloads, once  *)
(* each: the rows of rss_seen, the filter its owner may edit while a sweep *)
(* goes on with the one it read, refused and failing items, crashes.       *)
(* Sources: api/internal/handlers/rss.go and rss_items.go, shared/rss,     *)
(* shared/auth/rss.go.                                                     *)
(***************************************************************************)
EXTENDS Naturals, Sequences, FiniteSets

CONSTANTS Feed,        \* the items of the feed, in its order
          Facts,       \* item -> what its title says: [tags, year, size, words]
          Source,      \* item -> "release" | "usenet" | "private" | "torrent"
          HashOf,      \* item -> the info hash it leads to
          Criteria,    \* the filters the owner chooses among
          RssMaxAttempts,
          MaxEdits,    \* bound: edits of the feed's filter
          MaxMishaps   \* bound: crashes, and downloads that fail

ASSUME RssAssumption ==
    /\ Feed \in Seq(DOMAIN Facts) /\ Criteria # {}
    /\ RssMaxAttempts \in Nat /\ MaxEdits \in Nat /\ MaxMishaps \in Nat

VARIABLES feedFilter,  \* the filter in the row of the feed
          enabled,     \* the feed's switch
          seenDone,    \* items whose row of rss_seen is done
          attempts,    \* item -> its failed parses
          rssRows,     \* hash -> status of the download: "none"|"active"|"over"|"failed"
          sweep,       \* [stage, filter, todo, item] of the sweep
          additions,   \* item -> how often it was added
          reason,      \* item -> why it is done: "" | "unwanted" | "late" | "handled"
          clears,      \* how often rss_seen was cleared
          overtaken,   \* a sweep goes on with a filter that was replaced
          edits, mishaps
rssVars == <<feedFilter, enabled, seenDone, attempts, rssRows, sweep, additions,
             reason, clears, overtaken, edits, mishaps>>

Items == {Feed[k] : k \in 1..Len(Feed)}
Hashes == {HashOf[i] : i \in Items}
NoSweep(f) == [stage |-> "idle", filter |-> f, todo |-> <<>>, item |-> Feed[1]]

-----------------------------------------------------------------------------
\* (Filter).SizeOK: an item without a size passes.
SizeOK(f, size) ==
    size = 0 \/ ((f.sizeMin = 0 \/ size >= f.sizeMin) /\ (f.sizeMax = 0 \/ size <= f.sizeMax))

\* overlaps, and hdrMatches: a title without HDR is SDR.
Overlaps(wanted, have) == wanted \intersect (IF have = {} THEN {"SDR"} ELSE have) # {}

\* (Filter).Matches: every criterion that is set, years only of titles with one.
FilterMatches(f, t) ==
    /\ f.tags = {} \/ Overlaps(f.tags, t.tags)
    /\ f.yearMin = 0 \/ t.year = 0 \/ t.year >= f.yearMin
    /\ f.except \intersect t.words = {}

\* MatchesFilter: no keyword, or one of them.
KeywordMatches(f, t) == f.keywords = {} \/ f.keywords \intersect t.words # {}

FeedMatches(f, i) ==
    SizeOK(f, Facts[i].size) /\ FilterMatches(f, Facts[i]) /\ KeywordMatches(f, Facts[i])

-----------------------------------------------------------------------------
RssFresh ==
    /\ feedFilter = (CHOOSE f \in Criteria : TRUE) /\ sweep = NoSweep(feedFilter)
    /\ seenDone = {} /\ attempts = [i \in Items |-> 0]
    /\ rssRows = [h \in Hashes |-> "none"] /\ additions = [i \in Items |-> 0]
    /\ reason = [i \in Items |-> ""] /\ clears = 0 /\ overtaken = FALSE
    /\ edits = 0 /\ mishaps = 0
RssInit == RssFresh /\ enabled

\* GetAllEnabledFeeds and fetchFeedItems: the sweep works on what it reads now.
SweepStarts ==
    /\ sweep.stage = "idle" /\ enabled
    /\ sweep' = [stage |-> "next", filter |-> feedFilter, todo |-> Feed, item |-> Feed[1]]
    /\ UNCHANGED <<feedFilter, enabled, seenDone, attempts, rssRows, additions,
                   reason, clears, overtaken, edits, mishaps>>

ItemTaken(i) == i \notin seenDone /\ FeedMatches(sweep.filter, i)

MarkSeen(i, why) ==
    /\ seenDone' = seenDone \union {i} /\ reason' = [reason EXCEPT ![i] = why]

\* The next item: seen is skipped, what does not match is marked seen.
SweepNext ==
    /\ sweep.stage = "next" /\ sweep.todo # <<>>
    /\ LET i == Head(sweep.todo) IN
       /\ sweep' = [sweep EXCEPT !.todo = Tail(@), !.item = i,
                                 !.stage = IF ItemTaken(i) THEN "item" ELSE "next"]
       /\ IF i \notin seenDone /\ ~FeedMatches(sweep.filter, i)
          THEN MarkSeen(i, IF overtaken THEN "late" ELSE "unwanted") ELSE UNCHANGED <<seenDone, reason>>
    /\ UNCHANGED <<feedFilter, enabled, attempts, rssRows, additions, clears,
                   overtaken, edits, mishaps>>

SweepOver ==
    /\ sweep.stage = "next" /\ sweep.todo = <<>>
    /\ sweep' = NoSweep(feedFilter) /\ overtaken' = FALSE
    /\ UNCHANGED <<feedFilter, enabled, seenDone, attempts, rssRows, additions,
                   reason, clears, edits, mishaps>>

\* The NZB or torrent cannot be fetched, or Admit fails: the next sweep again.
ItemUnfetched ==
    /\ sweep.stage = "item"
    /\ mishaps < MaxMishaps /\ mishaps' = mishaps + 1
    /\ sweep' = [sweep EXCEPT !.stage = "next"]
    /\ UNCHANGED <<feedFilter, enabled, seenDone, attempts, rssRows, additions,
                   reason, clears, overtaken, edits>>

\* Bug: a failed parse is not counted.
ItemUnparsedUncounted ==
    /\ sweep.stage = "item" /\ Source[sweep.item] \in {"usenet", "private"}
    /\ sweep' = [sweep EXCEPT !.stage = "next"]
    /\ UNCHANGED <<feedFilter, enabled, seenDone, attempts, rssRows, additions,
                   reason, clears, overtaken, edits, mishaps>>

\* rssParseFailed: what cannot be parsed is given up after so many sweeps.
ItemUnparsed ==
    /\ sweep.stage = "item" /\ Source[sweep.item] \in {"usenet", "private"}
    /\ attempts[sweep.item] < RssMaxAttempts
    /\ attempts' = [attempts EXCEPT ![sweep.item] = @ + 1]
    /\ sweep' = [sweep EXCEPT !.stage = "next"]
    /\ IF attempts'[sweep.item] >= RssMaxAttempts THEN MarkSeen(sweep.item, "handled")
       ELSE UNCHANGED <<seenDone, reason>>
    /\ UNCHANGED <<feedFilter, enabled, rssRows, additions, clears, overtaken,
                   edits, mishaps>>

\* What this user may not have (no provider, no seeding, over the size limit).
ItemRefused ==
    /\ sweep.stage = "item" /\ Source[sweep.item] \in {"usenet", "private", "release"}
    /\ MarkSeen(sweep.item, "handled") /\ sweep' = [sweep EXCEPT !.stage = "next"]
    /\ UNCHANGED <<feedFilter, enabled, attempts, rssRows, additions, clears,
                   overtaken, edits, mishaps>>

\* skipExisting: a row of anybody's that has not failed.
ItemExists ==
    /\ sweep.stage = "item" /\ rssRows[HashOf[sweep.item]] \in {"active", "over"}
    /\ MarkSeen(sweep.item, "handled") /\ sweep' = [sweep EXCEPT !.stage = "next"]
    /\ UNCHANGED <<feedFilter, enabled, attempts, rssRows, additions, clears,
                   overtaken, edits, mishaps>>

\* The queue, or the slots for seeding, are full: the sweep leaves this feed.
QueueFull ==
    /\ sweep.stage = "item" /\ mishaps < MaxMishaps /\ mishaps' = mishaps + 1
    /\ rssRows[HashOf[sweep.item]] \notin {"active", "over"}
    /\ sweep' = NoSweep(feedFilter) /\ overtaken' = FALSE
    /\ UNCHANGED <<feedFilter, enabled, seenDone, attempts, rssRows, additions,
                   reason, clears, edits>>

\* Admit takes it; the mark comes after.
ItemAdmitted ==
    /\ sweep.stage = "item" /\ rssRows[HashOf[sweep.item]] \notin {"active", "over"}
    /\ rssRows' = [rssRows EXCEPT ![HashOf[sweep.item]] = "active"]
    /\ additions' = [additions EXCEPT ![sweep.item] = @ + 1]
    /\ sweep' = [sweep EXCEPT !.stage = "mark"]
    /\ UNCHANGED <<feedFilter, enabled, seenDone, attempts, reason, clears,
                   overtaken, edits, mishaps>>

\* Bug: the mark of an added item is forgotten.
ItemMarkedNever ==
    /\ sweep.stage = "mark" /\ sweep' = [sweep EXCEPT !.stage = "next"]
    /\ UNCHANGED <<feedFilter, enabled, seenDone, attempts, rssRows, additions, reason,
                   clears, overtaken, edits, mishaps>>

ItemMarked ==
    /\ sweep.stage = "mark" /\ sweep' = [sweep EXCEPT !.stage = "next"]
    /\ MarkSeen(sweep.item, "handled")
    /\ UNCHANGED <<feedFilter, enabled, attempts, rssRows, additions, clears,
                   overtaken, edits, mishaps>>

-----------------------------------------------------------------------------
\* The download ends; one that failed may be added again.
DownloadOver(h) ==
    /\ rssRows[h] = "active"
    /\ \/ rssRows' = [rssRows EXCEPT ![h] = "over"] /\ UNCHANGED mishaps
       \/ /\ mishaps < MaxMishaps /\ mishaps' = mishaps + 1
          /\ rssRows' = [rssRows EXCEPT ![h] = "failed"]
    /\ UNCHANGED <<feedFilter, enabled, seenDone, attempts, sweep, additions, reason,
                   clears, overtaken, edits>>

\* Bug: an edit of the criteria keeps what the old ones marked.
UpdateFeedKeeps(f) ==
    /\ edits < MaxEdits /\ f # feedFilter /\ edits' = edits + 1 /\ feedFilter' = f
    /\ overtaken' = (sweep.stage # "idle")
    /\ UNCHANGED <<enabled, seenDone, attempts, rssRows, sweep, additions, reason,
                   clears, mishaps>>

\* updateFeed: other criteria make the whole feed unseen.
UpdateFeed(f) ==
    /\ edits < MaxEdits /\ f # feedFilter /\ edits' = edits + 1 /\ feedFilter' = f
    /\ seenDone' = {} /\ attempts' = [i \in Items |-> 0] /\ clears' = clears + 1
    /\ reason' = [i \in Items |-> ""]
    /\ overtaken' = (sweep.stage # "idle")
    /\ UNCHANGED <<enabled, rssRows, sweep, additions, mishaps>>

ToggleFeed ==
    /\ edits < MaxEdits /\ edits' = edits + 1 /\ enabled' = ~enabled
    /\ UNCHANGED <<feedFilter, seenDone, attempts, rssRows, sweep, additions, reason,
                   clears, overtaken, mishaps>>

ApiRestarts ==
    /\ sweep.stage # "idle" /\ mishaps < MaxMishaps /\ mishaps' = mishaps + 1
    /\ sweep' = NoSweep(feedFilter) /\ overtaken' = FALSE
    /\ UNCHANGED <<feedFilter, enabled, seenDone, attempts, rssRows, additions,
                   reason, clears, edits>>

SweepItem ==
    ItemUnparsed \/ ItemRefused \/ ItemExists \/ ItemAdmitted \/ ItemUnfetched \/ QueueFull
SweepStep == SweepStarts \/ SweepNext \/ SweepOver \/ SweepItem \/ ItemMarked

RssNext ==
    \/ SweepStep \/ ToggleFeed \/ ApiRestarts
    \/ \E h \in Hashes : DownloadOver(h)
    \/ \E f \in Criteria : UpdateFeed(f)

\* The worker sweeps every half hour and every call of a sweep returns.
RssFairness == WF_rssVars(SweepStep)

RssSpec == RssInit /\ [][RssNext]_rssVars /\ RssFairness

-----------------------------------------------------------------------------
\* Types of the variables.
RssTypeOK ==
    /\ feedFilter \in Criteria /\ enabled \in BOOLEAN /\ seenDone \subseteq Items
    /\ attempts \in [Items -> 0..RssMaxAttempts]
    /\ rssRows \in [Hashes -> {"none", "active", "over", "failed"}]
    /\ sweep.stage \in {"idle", "next", "item", "mark"} /\ sweep.filter \in Criteria
    /\ additions \in [Items -> 0..(1 + MaxEdits + MaxMishaps)]
    /\ reason \in [Items -> {"", "unwanted", "late", "handled"}] /\ overtaken \in BOOLEAN
    /\ clears \in 0..MaxEdits /\ edits \in 0..MaxEdits /\ mishaps \in 0..MaxMishaps

\* An item is added once; again only after a crash between Admit and the mark
\* with a download that failed meanwhile, or after the feed was made unseen
\* (rss.go:158-200, rss_items.go:99-118).
AddedOnce == \A i \in Items : additions[i] <= 1 + clears + mishaps \div 2

\* What was put aside as unwanted does not match the feed's criteria, unless a
\* sweep with the criteria of before was under way as they were edited: its
\* marks come after the clearing (rss.go:113-122, rss.go:161-164).
UnwantedIsUnwanted ==
    \A i \in Items : reason[i] = "unwanted" => ~FeedMatches(feedFilter, i)

\* With the criteria left alone, every item of an enabled feed is dealt with:
\* a full queue, a failed fetch or a crash only delays it (rss_items.go:99-118).
ItemsDealtWith ==
    \A i \in Items : <>[]enabled => <>[](i \in seenDone)
=============================================================================
