----------------------------- MODULE ReleaseRun -----------------------------
(***************************************************************************)
(* A release found on a link site (ingest/internal/release): its packagings*)
(* are tried one after the other, the parts of a packaging from the        *)
(* mirrors of each, with three attempts a mirror; when a part is dead on   *)
(* all its mirrors and no packaging is left, Usenet is searched for the    *)
(* same release, or for every episode of the season, and the job is done   *)
(* from there (usenetfallback.go).                                         *)
(*                                                                         *)
(* Abstractions: a link of a page is the name of its file, what kind of    *)
(* file that is, its number in an archive and how well it fits the title;  *)
(* the mirrors of a file are counted; a file is on disk whether it is      *)
(* whole or not (PartFile says what resumes it); the queries and the       *)
(* scores of what indexers list are a choice among the results.            *)
(***************************************************************************)
EXTENDS Integers, Sequences, FiniteSets

CONSTANTS
  Pages,          \* the post, and the pages it points to: sequences of links
  PartSize,       \* the size of a part
  PlanLimit,      \* MaxBytes of the job, 0 for none
  PartAttempts,   \* attempts on one mirror (3)
  SeasonLength,   \* episodes of the season, as cinemeta knows them
  MaxEpisode      \* bound on the numbers indexers list

ASSUME ReleaseAssumption ==
  /\ Pages # <<>> /\ PlanLimit \in Nat /\ PartSize \in Nat
  /\ \A p \in DOMAIN Pages : IsFiniteSet(DOMAIN Pages[p])
  /\ \A p \in DOMAIN Pages : \A i \in DOMAIN Pages[p] :
       /\ Pages[p][i].kind \in {"video", "rar"}
       /\ Pages[p][i].num \in Nat /\ Pages[p][i].fits \in Nat
  /\ PartAttempts \in Nat \ {0} /\ SeasonLength \in Nat \ {0} /\ MaxEpisode \in Nat

VARIABLES
  relStage,    \* where process, or the fallback, is
  archives,    \* the packagings Resolve returned: the names of their parts
  mirrors,     \* the links of each name
  packaging,   \* the packaging it tries
  partNo,        \* the part of it
  mirror,      \* the mirror of the part
  attempt,     \* attempts on that mirror
  relDir,      \* the names in the directory
  relTotal,    \* bytes counted so far
  givenUp,     \* mirrors found dead or tried to the end: <<name, mirror>>
  called,      \* the context is cancelled
  wanted,      \* the NZBs the fallback has chosen: "single", or episode numbers
  seasonListed       \* the episodes indexers have, when the release is a season

relPlace == <<packaging, partNo, mirror, attempt>>
releaseVars == <<relStage, archives, mirrors, relPlace, relDir, relTotal, givenUp, called, wanted, seasonListed>>

ReleaseInit ==
  /\ relStage = "resolve" /\ archives = <<>> /\ mirrors = <<>> /\ packaging = 1 /\ partNo = 1 /\ mirror = 1 /\ attempt = 0
  /\ relDir = {} /\ relTotal = 0 /\ givenUp = {} /\ called = FALSE
  /\ wanted = {} /\ seasonListed = {}

Names(page) == {page[i].name : i \in DOMAIN page}
LinkTo(page, n) == CHOOSE i \in DOMAIN page : page[i].name = n /\ \A j \in 1 .. i - 1 : page[j].name # n
\* pickVideo: of the videos, in the order of the hosts, the first that fits best.
PickVideo(page) ==
  LET videos == {i \in DOMAIN page : page[i].kind = "video"}
      better(j, i) == page[j].fits > page[i].fits \/ (page[j].fits = page[i].fits /\ j < i)
  IN IF videos = {} THEN {<<>>}
     ELSE {<<<<page[i].name>>>> : i \in {i \in videos : \A j \in videos : ~better(j, i)}}
\* rarParts: every archive file of the page, by its number; equal numbers come in any order.
RarParts(page) ==
  LET names == {n \in Names(page) : page[LinkTo(page, n)].kind = "rar"}
      num(n) == page[LinkTo(page, n)].num
  IN IF names = {} THEN {<<>>}
     ELSE {<<s>> : s \in {t \in [1 .. Cardinality(names) -> names] :
                            \A i, j \in DOMAIN t : i < j => t[i] # t[j] /\ num(t[i]) <= num(t[j])}}
\* BestArchive: the video as it is first, then the archive.
BestArchive(page) == {video \o parts : video \in PickVideo(page), parts \in RarParts(page)}
MirrorsOn(page) == [n \in Names(page) |-> Cardinality({i \in DOMAIN page : page[i].name = n})]

Part == archives[packaging][partNo]
PartsOf(a) == {archives[a][i] : i \in DOMAIN archives[a]}

\* process returns an error that is not ErrSourceUnavailable: the job fails and the directory
\* is removed.
Fails == relStage' = "failed" /\ relDir' = {}

CancelRelease ==
  /\ ~called /\ called' = TRUE
  /\ UNCHANGED <<relStage, archives, mirrors, relPlace, relDir, relTotal, givenUp, wanted, seasonListed>>

\* The post itself or, when it shows no links, the first page it points to that loads and does.
\* No key, another film, nothing resolved, or no links: Usenet is not asked.
Resolve ==
  /\ relStage = "resolve"
  /\ \/ /\ \E p \in DOMAIN Pages : \E best \in BestArchive(Pages[p]) :
             /\ best # <<>> /\ (p # 1 => BestArchive(Pages[1]) = {<<>>})
             /\ archives' = best /\ mirrors' = MirrorsOn(Pages[p])
        /\ relStage' = "clear" /\ UNCHANGED relDir
     \/ Fails /\ UNCHANGED <<archives, mirrors>>
  /\ UNCHANGED <<relPlace, relTotal, givenUp, called, wanted, seasonListed>>

\* download: every packaging begins in an empty directory.
\* Bug: what an earlier packaging has left stays in the directory.
StartPackagingOver ==
  /\ relStage = "clear" /\ relStage' = "unlock" /\ UNCHANGED relDir
  /\ relTotal' = 0 /\ partNo' = 1 /\ mirror' = 1 /\ attempt' = 0
  /\ UNCHANGED <<archives, mirrors, packaging, givenUp, called, wanted, seasonListed>>
StartPackaging ==
  /\ relStage = "clear" /\ relStage' = "unlock" /\ relDir' = {}
  /\ relTotal' = 0 /\ partNo' = 1 /\ mirror' = 1 /\ attempt' = 0
  /\ UNCHANGED <<archives, mirrors, packaging, givenUp, called, wanted, seasonListed>>

\* Bug: one mirror given up is the part given up.
GiveUpPart ==
  /\ givenUp' = givenUp \union {<<Part, mirror>>} /\ attempt' = 0
  /\ UNCHANGED <<partNo, mirror>>
  /\ IF packaging < Len(archives)
     THEN packaging' = packaging + 1 /\ relStage' = "clear" /\ UNCHANGED relDir
     ELSE relStage' = "fallback" /\ relDir' = {} /\ UNCHANGED packaging

\* A mirror is given up: the next one, or the packaging is dead, and the next packaging or
\* the fallback has its turn.
GiveUpMirror ==
  /\ givenUp' = givenUp \union {<<Part, mirror>>} /\ attempt' = 0
  /\ IF called THEN Fails /\ UNCHANGED <<packaging, partNo, mirror>>
     ELSE \/ /\ mirror < mirrors[Part] /\ mirror' = mirror + 1
             /\ relStage' = "unlock" /\ UNCHANGED <<packaging, partNo, relDir>>
          \/ /\ mirror >= mirrors[Part] /\ UNCHANGED <<partNo, mirror>>
             /\ IF packaging < Len(archives)
                THEN packaging' = packaging + 1 /\ relStage' = "clear" /\ UNCHANGED relDir
                ELSE relStage' = "fallback" /\ relDir' = {} /\ UNCHANGED packaging

\* An attempt failed: another one after a pause, unless it was the last.
MirrorFails ==
  IF called THEN Fails /\ UNCHANGED <<relPlace, givenUp>>
  ELSE IF attempt + 1 < PartAttempts
  THEN attempt' = attempt + 1 /\ relStage' = "unlock" /\ UNCHANGED <<packaging, partNo, mirror, relDir, givenUp>>
  ELSE GiveUpMirror

\* unlock at AllDebrid, or Rapidgator's own link when that fails; then the file may begin to
\* arrive, and what has arrived stays when the rest does not.
Unlock ==
  /\ relStage = "unlock"
  /\ IF called THEN Fails /\ UNCHANGED <<relPlace, givenUp>>
     ELSE \/ /\ relStage' = "fetch" /\ relDir' \in {relDir, relDir \union {Part}}
             /\ UNCHANGED <<relPlace, givenUp>>
          \/ MirrorFails
          \/ GiveUpMirror        \* a dead link is not tried again
  /\ UNCHANGED <<archives, mirrors, relTotal, called, wanted, seasonListed>>

\* The part is on disk already, arrives, or does not.
FetchMirror ==
  /\ relStage = "fetch"
  /\ \/ /\ relStage' = "counted" /\ relDir' = relDir \union {Part}
        /\ UNCHANGED <<relPlace, givenUp>>
     \/ MirrorFails
  /\ UNCHANGED <<archives, mirrors, relTotal, called, wanted, seasonListed>>

\* fetchArchive adds the part up; one over the plan's limit ends the job, whatever other
\* packagings would take.
Count ==
  /\ relStage = "counted" /\ relTotal' = relTotal + PartSize
  /\ IF PlanLimit > 0 /\ relTotal' > PlanLimit THEN Fails /\ UNCHANGED relPlace
     ELSE IF partNo < Len(archives[packaging])
     THEN partNo' = partNo + 1 /\ mirror' = 1 /\ attempt' = 0 /\ relStage' = "unlock" /\ UNCHANGED <<packaging, relDir>>
     ELSE relStage' = "process" /\ UNCHANGED <<relPlace, relDir>>
  /\ UNCHANGED <<archives, mirrors, givenUp, called, wanted, seasonListed>>

\* Unpacking, the safety check, publishing: an error of theirs tries no other packaging.
ProcessRelease ==
  /\ relStage = "process"
  /\ \/ relStage' = "complete" /\ relDir' = {}
     \/ Fails
  /\ UNCHANGED <<archives, mirrors, relPlace, relTotal, givenUp, called, wanted, seasonListed>>

----------------------------------------------------------------------------
\* bestMatch: one NZB, of the title and the film, or none that is near enough.
BestMatch == {{}, {1}}

\* Try: a provider and an indexer of the user's, then a release or a whole season. The search
\* by the film's number, then the one by name.
TrySingle ==
  /\ relStage = "fallback" /\ wanted' \in BestMatch
  /\ relStage' = IF wanted' = {} THEN "failed" ELSE "assemble"
  /\ UNCHANGED <<archives, mirrors, relPlace, relDir, relTotal, givenUp, called, seasonListed>>

\* tryPack: the episodes of the season and resolution indexers list, the best of each.
SearchPack ==
  /\ relStage = "fallback" /\ relStage' = "season"
  /\ seasonListed' \in SUBSET (1 .. MaxEpisode)
  /\ UNCHANGED <<archives, mirrors, relPlace, relDir, relTotal, givenUp, called, wanted>>

Highest(e, S) == e \in S /\ \A d \in S : d <= e
\* Bug: without cinemeta the highest number is the season's length, gaps or not.
GaplessLoose(e, S) == Highest(e, S)
\* seasonLength when cinemeta does not answer: no gap up to the highest episode.
Gapless(e, S) == Highest(e, S) /\ 1 \in S /\ Cardinality(S) = e

ChooseSeason ==
  /\ relStage = "season"
  /\ \/ /\ 1 .. SeasonLength \subseteq seasonListed
        /\ wanted' = 1 .. SeasonLength /\ relStage' = "assemble"
     \/ /\ \E e \in seasonListed : Gapless(e, seasonListed) /\ wanted' = 1 .. e
        /\ relStage' = "assemble"
     \/ relStage' = "failed" /\ UNCHANGED wanted    \* partial, or no NZB of one of them
  /\ UNCHANGED <<archives, mirrors, relPlace, relDir, relTotal, givenUp, called, seasonListed>>

\* RunNZB or AssemblePack: one NZB after the other, each of which may fail (UsenetFetch).
Assemble ==
  /\ relStage = "assemble" /\ relStage' \in {"complete", "failed"}
  /\ UNCHANGED <<archives, mirrors, relPlace, relDir, relTotal, givenUp, called, wanted, seasonListed>>

ReleaseStep ==
  \/ Resolve \/ StartPackaging \/ Unlock \/ FetchMirror \/ Count \/ ProcessRelease
  \/ TrySingle \/ SearchPack \/ ChooseSeason \/ Assemble
ReleaseNext == ReleaseStep \/ CancelRelease
ReleaseSpec == ReleaseInit /\ [][ReleaseNext]_releaseVars

----------------------------------------------------------------------------
\* The variables have the types the code gives them.
ReleaseTypeOK ==
  /\ relStage \in {"resolve", "clear", "unlock", "fetch", "counted", "process", "fallback",
                   "season", "assemble", "complete", "failed"}
  /\ relStage \in {"unlock", "fetch", "counted", "process"} => Part \in DOMAIN mirrors
  /\ attempt \in 0 .. PartAttempts - 1 /\ relDir \subseteq DOMAIN mirrors
  /\ wanted \subseteq 1 .. MaxEpisode \union {1} /\ seasonListed \subseteq 1 .. MaxEpisode

\* What is unpacked is one packaging with all its parts, and nothing of another one that was
\* given up half-way: half a video beside the archive would be taken for the release
\* (download empties the directory between them).
UnpacksOnePackaging ==
  relStage = "process" => relDir = PartsOf(packaging)

\* Usenet is asked only when every packaging has a part that is dead on all its mirrors: one
\* bad mirror, or one bad packaging, costs another try and not the user's own provider
\* (ErrSourceUnavailable).
FallbackWhenDead ==
  relStage \in {"fallback", "season", "assemble"} =>
    \A a \in DOMAIN archives : \E n \in PartsOf(a) :
      \A k \in 1 .. mirrors[n] : <<n, k>> \in givenUp

\* A season is assembled from episodes indexers do list, from the first on without a gap:
\* tryPack looks every number up without asking whether it is there.
PackHasEveryEpisode ==
  relStage = "assemble" /\ seasonListed # {} => wanted # {} /\ wanted \subseteq seasonListed
=============================================================================
