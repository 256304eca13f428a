----------------------------- MODULE CacheCheck -----------------------------
(***************************************************************************)
(* A player asks which of many torrents would play at once (stremthru's    *)
(* checkMagnets). What is stored here is looked for first, then what a row *)
(* says another node has, then the archive, then what is quick to get, and *)
(* at last the providers are asked live, through a cache of their answers  *)
(* (shared/availcache) in memory and, behind it, in a table that all API   *)
(* processes share.                                                        *)
(*                                                                         *)
(* Abstractions: one provider and key; its answer is a Boolean a torrent;  *)
(* time counts how long entries live (CacheLife) and how old the answer    *)
(* is; hashes are well-formed and named once.                              *)
(***************************************************************************)
EXTENDS Integers, FiniteSets

CONSTANTS
  Ask,          \* requests
  ProcessOf,    \* the API process that serves each
  Torrent,      \* the torrents they ask for, all of them
  Archived,     \* those in the archive
  CacheLife     \* how long an answer is used again, in ticks

ASSUME CheckAssumption ==
  /\ DOMAIN ProcessOf = Ask /\ Archived \subseteq Torrent
  /\ CacheLife \in Nat \ {0}

VARIABLES
  blob,      \* torrent -> its files are here
  hasRow,       \* torrent -> a complete row names a node for it
  quick,     \* those with a known release link, or in the shared library
  offers,    \* torrent -> the provider has it
  recent,    \* process -> torrent -> [has, left, age], the entries in memory
  shared,    \* torrent -> the same, in the table
  tier,      \* request -> how far it is
  rowsSeen,  \* request -> the torrents that had rows when it began
  todo,      \* request -> torrents the tier has still to look at
  status,    \* request -> torrent -> "unknown", "cached", "acceleratable"
  hereSince,    \* request -> torrents whose files have been here since it began
  agesUsed   \* request -> the ages of the kept answers it has used

stored    == <<blob, hasRow, quick, offers>>
entries   == <<recent, shared>>
asking    == <<tier, rowsSeen, todo, status, hereSince, agesUsed>>
checkVars == <<stored, entries, asking>>

Process == {ProcessOf[a] : a \in Ask}
Expired == [has |-> FALSE, left |-> 0, age |-> 0]
Entry(has, age) == [has |-> has, left |-> CacheLife, age |-> age]

CheckInit ==
  /\ quick \in SUBSET Torrent
  /\ blob \in [Torrent -> BOOLEAN] /\ hasRow = blob /\ offers \in [Torrent -> BOOLEAN]
  /\ recent = [p \in Process |-> [t \in Torrent |-> Expired]]
  /\ shared = [t \in Torrent |-> Expired]
  /\ tier = [a \in Ask |-> "start"] /\ rowsSeen = [a \in Ask |-> {}] /\ todo = [a \in Ask |-> {}]
  /\ status = [a \in Ask |-> [t \in Torrent |-> "unknown"]]
  /\ hereSince = [a \in Ask |-> {}] /\ agesUsed = [a \in Ask |-> {}]

Unknown(a) == {t \in Torrent : status[a][t] = "unknown"}

----------------------------------------------------------------------------
\* CachedByHashes: one query for all of them. A player asks again and again.
BeginCheck(a) ==
  /\ tier[a] \in {"start", "answered"} /\ tier' = [tier EXCEPT ![a] = "here"]
  /\ status' = [status EXCEPT ![a] = [t \in Torrent |-> "unknown"]]
  /\ agesUsed' = [agesUsed EXCEPT ![a] = {}]
  /\ rowsSeen' = [rowsSeen EXCEPT ![a] = {t \in Torrent : hasRow[t]}]
  /\ todo' = [todo EXCEPT ![a] = {t \in Torrent : hasRow[t]}]
  /\ hereSince' = [hereSince EXCEPT ![a] = {t \in Torrent : blob[t] /\ hasRow[t]}]
  /\ UNCHANGED <<stored, entries>>

\* Bug: whichever answer comes last stays.
SetStatusOver(a, S, s) == [status EXCEPT ![a] = [t \in Torrent |-> IF t \in S THEN s ELSE @[t]]]
\* setStatus: an item that has a status keeps it.
SetStatus(a, S, s) ==
  [status EXCEPT ![a] = [t \in Torrent |-> IF t \in S /\ @[t] = "unknown" THEN s ELSE @[t]]]

\* Tier 1: the manifest and the first file are here (warmJobFiles). Each torrent on its own.
LookHere(a, t) ==
  /\ tier[a] = "here" /\ t \in todo[a] /\ todo' = [todo EXCEPT ![a] = @ \ {t}]
  /\ status' = IF blob[t] THEN SetStatus(a, {t}, "cached") ELSE status
  /\ UNCHANGED <<stored, entries, tier, rowsSeen, hereSince, agesUsed>>

\* Tier 1.5: a row that names a node is taken at its word, this node's too.
TrustRows(a) ==
  /\ tier[a] = "here" /\ todo[a] = {} /\ tier' = [tier EXCEPT ![a] = "archive"]
  /\ status' = SetStatus(a, rowsSeen[a], "cached")
  /\ todo' = [todo EXCEPT ![a] = Unknown(a) \ rowsSeen[a]]
  /\ UNCHANGED <<stored, entries, rowsSeen, hereSince, agesUsed>>

\* Tier 1.75: the archive, whose NZB is read from the store or the table (cairnJobFiles).
LookInArchive(a, t) ==
  /\ tier[a] = "archive" /\ t \in todo[a] /\ todo' = [todo EXCEPT ![a] = @ \ {t}]
  /\ \/ status' = IF t \in Archived THEN SetStatus(a, {t}, "cached") ELSE status
     \/ UNCHANGED status       \* neither copy of the NZB can be read
  /\ UNCHANGED <<stored, entries, tier, rowsSeen, hereSince, agesUsed>>

\* Tiers 1b and 2: release links and the shared library. Without an unknown one left, or with
\* no provider to ask, the request is answered.
LookForQuick(a) ==
  /\ tier[a] = "archive" /\ todo[a] = {}
  /\ status' = SetStatus(a, quick, "acceleratable")
  /\ tier' = [tier EXCEPT ![a] = IF Unknown(a) \subseteq quick THEN "answered" ELSE "live"]
  /\ UNCHANGED <<stored, entries, rowsSeen, todo, hereSince, agesUsed>>

----------------------------------------------------------------------------
\* CheckCached.
\* Bug: an entry that is used lives on.
MemLookupSliding(p, t) == [recent[p][t] EXCEPT !.left = CacheLife]
\* memLookup leaves the entry as it is.
MemLookup(p, t) == recent[p][t]

\* What memory does not have is looked for in the table, and kept in memory for a whole life
\* from now; what neither has is asked for.
LookUp(a) ==
  /\ tier[a] = "live"
  /\ LET p == ProcessOf[a]
         inMem == {t \in Unknown(a) : recent[p][t].left > 0}
         inTable == {t \in Unknown(a) \ inMem : shared[t].left > 0}
         found == [t \in inMem \union inTable |-> IF t \in inMem THEN recent[p][t] ELSE shared[t]]
         has == {t \in DOMAIN found : found[t].has}
     IN /\ recent' = [recent EXCEPT ![p] = [t \in Torrent |->
              IF t \in inMem THEN MemLookup(p, t)
              ELSE IF t \in inTable THEN Entry(shared[t].has, shared[t].age) ELSE @[t]]]
        /\ status' = SetStatus(a, has, "acceleratable")
        /\ agesUsed' = [agesUsed EXCEPT ![a] = {found[t].age : t \in DOMAIN found}]
        /\ todo' = [todo EXCEPT ![a] = Unknown(a) \ DOMAIN found]
        /\ tier' = [tier EXCEPT ![a] =
             IF Unknown(a) \subseteq DOMAIN found THEN "answered" ELSE "asked"]
  /\ UNCHANGED <<stored, shared, rowsSeen, hereSince>>

\* The provider answers for those asked for, and a torrent its answer leaves out counts as one
\* it does not have; or it does not answer, and nothing is kept.
ProviderAnswers(a) ==
  /\ tier[a] = "asked" /\ tier' = [tier EXCEPT ![a] = "answered"]
  /\ \/ UNCHANGED <<entries, status>>
     \/ \E said \in SUBSET todo[a] :
          LET has(t) == t \in said /\ offers[t]
          IN /\ recent' = [recent EXCEPT ![ProcessOf[a]] = [t \in Torrent |->
                   IF t \in todo[a] THEN Entry(has(t), 0) ELSE @[t]]]
             /\ shared' = [t \in Torrent |-> IF t \in todo[a] THEN Entry(has(t), 0) ELSE shared[t]]
             /\ status' = SetStatus(a, {t \in todo[a] : has(t)}, "acceleratable")
  /\ UNCHANGED <<stored, rowsSeen, todo, hereSince, agesUsed>>

----------------------------------------------------------------------------
\* Eviction: the files go, then the row; a new download brings both.
EvictBlob(t) ==
  /\ blob[t] /\ blob' = [blob EXCEPT ![t] = FALSE]
  /\ hereSince' = [a \in Ask |-> hereSince[a] \ {t}]
  /\ UNCHANGED <<hasRow, quick, offers, entries, tier, rowsSeen, todo, status, agesUsed>>
EvictRow(t) ==
  /\ hasRow[t] /\ ~blob[t] /\ hasRow' = [hasRow EXCEPT ![t] = FALSE]
  /\ UNCHANGED <<blob, quick, offers, entries, asking>>

Offers(t) ==
  /\ offers' = [offers EXCEPT ![t] = ~@]
  /\ UNCHANGED <<blob, hasRow, quick, entries, asking>>

Older(e) == IF e.left = 0 THEN Expired ELSE [e EXCEPT !.left = @ - 1, !.age = @ + 1]
\* The sweeps only drop what has expired.
TimeGoesBy ==
  /\ \A t \in Torrent : \A p \in Process : recent[p][t].age < 2 * CacheLife
  /\ recent' = [p \in Process |-> [t \in Torrent |-> Older(recent[p][t])]]
  /\ shared' = [t \in Torrent |-> Older(shared[t])]
  /\ UNCHANGED <<stored, asking>>

CheckStep(a) ==
  \/ BeginCheck(a) \/ TrustRows(a) \/ LookForQuick(a) \/ LookUp(a) \/ ProviderAnswers(a)
  \/ \E t \in Torrent : LookHere(a, t) \/ LookInArchive(a, t)
CheckNext ==
  \/ TimeGoesBy \/ \E a \in Ask : CheckStep(a)
  \/ \E t \in Torrent : EvictBlob(t) \/ EvictRow(t) \/ Offers(t)
CheckSpec == CheckInit /\ [][CheckNext]_checkVars

----------------------------------------------------------------------------
\* The variables have the types the code gives them.
CheckTypeOK ==
  /\ tier \in [Ask -> {"start", "here", "archive", "live", "asked", "answered"}]
  /\ status \in [Ask -> [Torrent -> {"unknown", "cached", "acceleratable"}]]
  /\ \A t \in Torrent : shared[t].left \in 0 .. CacheLife
  /\ \A p \in Process : \A t \in Torrent : recent[p][t].left \in 0 .. CacheLife

\* A torrent that is here all through a check is called cached, not merely quick to get, in
\* whatever order the lookups and the providers answer.
HereIsCached ==
  \A a \in Ask : tier[a] = "answered" => \A t \in hereSince[a] : status[a][t] = "cached"

\* No answer of a provider is used when it is older than two lives of an entry: one in the
\* table, and one in the memory of a process that read it there at the end of the first.
TwoLivesAtMost == \A a \in Ask : \A n \in agesUsed[a] : n < 2 * CacheLife
=============================================================================
