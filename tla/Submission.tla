----------------------------- MODULE Submission -----------------------------
(***************************************************************************)
(* How a request becomes a row: the facades that take an NZB or a magnet   *)
(* (api/internal/handlers/usenet.go and jobs.go, stremthru, arr, rdapi)    *)
(* with the lock of the grab, the map from links to contents, and the      *)
(* removals a player must not undo.                                        *)
(*                                                                         *)
(* An indexer that obfuscates answers every fetch of one link with new     *)
(* message ids, so with another content hash.  A facade is the sequence of *)
(* its look-ups, each of which is one step; whatever refuses a request for *)
(* reasons of the account (entitlement, size, quotas, the queue's cap) is  *)
(* a refusal that may happen.  Admission itself is JobQueue's.             *)
(***************************************************************************)
EXTENDS FiniteSets, Sequences, Naturals

CONSTANTS
  Grab,             \* requests
  Rounds,           \* bound: the sets of requests that are made together
  Grabber,          \* accounts
  FacadeOf,         \* the facade a request comes through
  GrabberOf,        \* the account it is made for
  LinkOf,           \* the link it names, or NoLink for a file or a magnet
  NoLink,
  Rolls,            \* the contents a link, or a request without one, may bring
  Explicit,         \* the requests in which a user asks for the release by hand
  NoContent, NoGrab,
  MaxTurns          \* bound: the requests, and what workers, evictions and users do meanwhile

Facades == {"native", "newz", "arrNzb", "magnet", "debridApi"}
Contents == UNION {Rolls[g] : g \in Grab}
Links == {LinkOf[g] : g \in Grab} \ {NoLink}

ASSUME SubmissionAssumption ==
  /\ FacadeOf \in [Grab -> Facades] /\ GrabberOf \in [Grab -> Grabber]
  /\ Explicit \subseteq Grab /\ Rounds \subseteq SUBSET Grab
  /\ NoGrab \notin Grab /\ NoContent \notin Contents /\ MaxTurns \in Nat
  /\ \A g, h \in Grab : LinkOf[g] = LinkOf[h] /\ LinkOf[g] # NoLink => Rolls[g] = Rolls[h]
  /\ \A g \in Grab : LinkOf[g] # NoLink => FacadeOf[g] \in {"native", "newz"}

VARIABLES
  accountRow,   \* jobs, per account and content: the live row, or how the last one ended
  keptRows,     \* the contents whose row has been handed to the account "system"
  cached,       \* the contents whose manifest and first file are in the cache
  nzbFile,      \* the NZBs in the store
  nzbUrl,       \* nzb_url_hashes
  tombstone,    \* usenet_tombstones
  deleted,      \* rows deleteJob has removed and not yet written the tombstone of
  heldKey,      \* keyed.Lock
  grabAt,       \* how far a request has come in its facade's sequence; 0 before it fetches
  body,         \* the content of the NZB it has fetched
  key,          \* the content it works on
  known,        \* what it has read of the cache and of others' rows
  before,       \* the tombstones from before it began that have stood since
  remapped,     \* links whose content a request through StremThru has replaced
  turns

grabs == <<grabAt, body, key, known, before>>
submissionVars == <<accountRow, keptRows, cached, nzbFile, nzbUrl, tombstone, deleted, heldKey,
                    grabs, remapped, turns>>

Live == {"active", "complete"}
Unread == [hit |-> FALSE, others |-> "none", failed |-> FALSE]

NativeSteps == <<"fetch", "lock", "link", "map", "siblings", "removed", "failed", "look", "hit",
                 "reuseSeen", "quota", "store", "admit">>
NewzSteps   == <<"fetch", "lock", "relink", "map", "own", "look", "hit", "reuse", "quota", "store", "admit">>
ArrNzbSteps == <<"fetch", "lock", "own", "look", "hit", "reuse", "quota", "store", "admit">>
MagnetSteps == <<"fetch", "lock", "siblings", "look", "hit", "reuseSeen", "archive", "quota", "admit">>
DebridApiSteps == <<"fetch", "lock", "look", "own", "reuse", "hit", "quota", "admit">>

StepsOf(g) == CASE FacadeOf[g] = "native"  -> NativeSteps
                [] FacadeOf[g] = "newz"    -> NewzSteps
                [] FacadeOf[g] = "arrNzb" -> ArrNzbSteps
                [] FacadeOf[g] = "magnet"  -> MagnetSteps
                [] FacadeOf[g] = "debridApi" -> DebridApiSteps

Over(g) == grabAt[g] > Len(StepsOf(g))
AtStep(g, step) == ~Over(g) /\ StepsOf(g)[grabAt[g]] = step
Usenet(g) == FacadeOf[g] \in {"native", "newz", "arrNzb"}

\* The NZB's link, or what it holds, names the lock.
LockKey(g) == IF LinkOf[g] # NoLink THEN LinkOf[g] ELSE body[g]

SubmissionInit ==
  /\ accountRow = [u \in Grabber |-> [c \in Contents |-> "none"]]
  /\ keptRows = {} /\ cached = {} /\ nzbFile = {}
  /\ nzbUrl = [l \in Links |-> NoContent] /\ tombstone = {} /\ deleted = {}
  /\ heldKey = [k \in Links \union Contents |-> NoGrab]
  /\ \E round \in Rounds :
       /\ grabAt = [g \in Grab |-> IF g \in round THEN 1 ELSE Len(StepsOf(g)) + 1]
       /\ turns = Cardinality(round)
  /\ body = [g \in Grab |-> NoContent]
  /\ key = [g \in Grab |-> NoContent] /\ known = [g \in Grab |-> Unread]
  /\ before = [g \in Grab |-> {}] /\ remapped = {}

-----------------------------------------------------------------------------
(* The steps of a facade.                                                  *)

GoesOn(g) == grabAt' = [grabAt EXCEPT ![g] = @ + 1] /\ UNCHANGED heldKey

\* The handler returns, and its deferred call gives the lock back.
Returns(g) ==
  /\ grabAt' = [grabAt EXCEPT ![g] = Len(StepsOf(g)) + 1]
  /\ heldKey' = [k \in DOMAIN heldKey |-> IF heldKey[k] = g THEN NoGrab ELSE heldKey[k]]

Fetch(g) ==
  /\ AtStep(g, "fetch") /\ grabAt' = [grabAt EXCEPT ![g] = @ + 1]
  /\ \E c \in Rolls[g] : body' = [body EXCEPT ![g] = c] /\ key' = [key EXCEPT ![g] = c]
  /\ before' = [before EXCEPT ![g] = tombstone]
  /\ UNCHANGED <<accountRow, keptRows, cached, nzbFile, nzbUrl, tombstone, deleted, heldKey, known,
                 remapped, turns>>

\* Bug: the lock is that of the content, which is another one at every fetch.
LockContent(g) ==
  /\ AtStep(g, "lock") /\ heldKey[body[g]] = NoGrab
  /\ heldKey' = [heldKey EXCEPT ![body[g]] = g]
  /\ grabAt' = [grabAt EXCEPT ![g] = @ + 1]
  /\ UNCHANGED <<accountRow, keptRows, cached, nzbFile, nzbUrl, tombstone, deleted, body, key, known,
                 before, remapped, turns>>

LockGrab(g) ==
  /\ AtStep(g, "lock") /\ heldKey[LockKey(g)] = NoGrab
  /\ heldKey' = [heldKey EXCEPT ![LockKey(g)] = g]
  /\ grabAt' = [grabAt EXCEPT ![g] = @ + 1]
  /\ UNCHANGED <<accountRow, keptRows, cached, nzbFile, nzbUrl, tombstone, deleted, body, key, known,
                 before, remapped, turns>>

\* A native grab works on the content the link had the first time.
ByLink(g) ==
  /\ AtStep(g, "link") /\ UNCHANGED heldKey
  /\ LET prior == IF LinkOf[g] = NoLink THEN body[g] ELSE nzbUrl[LinkOf[g]] IN
       IF prior = NoContent THEN grabAt' = [grabAt EXCEPT ![g] = @ + 1] /\ UNCHANGED key
       ELSE grabAt' = [grabAt EXCEPT ![g] = @ + 2] /\ key' = [key EXCEPT ![g] = prior]
  /\ UNCHANGED <<accountRow, keptRows, cached, nzbFile, nzbUrl, tombstone, deleted, body, known, before,
                 remapped, turns>>

\* addNewz answers with the account's live row of the content the link had, if there is one.
Relink(g) ==
  /\ AtStep(g, "relink")
  /\ LET l == LinkOf[g] IN
       IF l # NoLink /\ nzbUrl[l] # NoContent /\ accountRow[GrabberOf[g]][nzbUrl[l]] \in Live
         THEN Returns(g) /\ key' = [key EXCEPT ![g] = nzbUrl[l]] ELSE GoesOn(g) /\ UNCHANGED key
  /\ UNCHANGED <<accountRow, keptRows, cached, nzbFile, nzbUrl, tombstone, deleted, body, known,
                 before, remapped, turns>>

\* The link is mapped to the content just fetched, whatever it was mapped to.
MapNzbURL(g) ==
  /\ AtStep(g, "map") /\ GoesOn(g)
  /\ LET l == LinkOf[g] IN
       IF l = NoLink THEN UNCHANGED <<nzbUrl, remapped>>
       ELSE /\ nzbUrl' = [nzbUrl EXCEPT ![l] = body[g]]
            /\ remapped' = IF FacadeOf[g] = "newz" /\ nzbUrl[l] \notin {NoContent, body[g]}
                           THEN remapped \union {l} ELSE remapped
  /\ UNCHANGED <<accountRow, keptRows, cached, nzbFile, tombstone, deleted, body, key, known, before,
                 turns>>

OthersRow(g) ==
  LET sts == {accountRow[u][key[g]] : u \in Grabber} IN
  IF "active" \in sts THEN {"active"} \union (sts \intersect {"complete"})
  ELSE IF "complete" \in sts \/ key[g] \in keptRows THEN {"complete"} ELSE {"none"}

\* GetByUserInfoHash: the account's live row answers the request.
Own(g) ==
  /\ AtStep(g, "own")
  /\ IF accountRow[GrabberOf[g]][key[g]] \in Live THEN Returns(g) ELSE GoesOn(g)
  /\ UNCHANGED <<accountRow, keptRows, cached, nzbFile, nzbUrl, tombstone, deleted, body, key, known,
                 before, remapped, turns>>

\* ListByInfoHash: what the native handlers decide by later on is the listing read here.
Siblings(g) ==
  /\ AtStep(g, "siblings")
  /\ IF accountRow[GrabberOf[g]][key[g]] \in Live THEN Returns(g) /\ UNCHANGED known
     ELSE /\ GoesOn(g)
          /\ \E st \in OthersRow(g) :
               known' = [known EXCEPT ![g].others = st,
                                      ![g].failed = accountRow[GrabberOf[g]][key[g]] = "failed"]
  /\ UNCHANGED <<accountRow, keptRows, cached, nzbFile, nzbUrl, tombstone, deleted, body, key, before,
                 remapped, turns>>

\* A mark is lifted: no request has to mind it any more.
Lift(mark) ==
  tombstone' = tombstone \ {mark} /\ before' = [h \in Grab |-> before[h] \ {mark}]

\* Bug: what was removed is looked for under the content just fetched.
RemovedFetched(g) ==
  /\ AtStep(g, "removed")
  /\ LET mark == <<GrabberOf[g], body[g]>> IN
       IF g \notin Explicit /\ mark \in tombstone
         THEN Returns(g) /\ UNCHANGED <<tombstone, before>>
         ELSE GoesOn(g) /\ Lift(mark)
  /\ UNCHANGED <<accountRow, keptRows, cached, nzbFile, nzbUrl, deleted, body, key, known, remapped, turns>>

\* A player that asks again for what its user has removed is refused; a user who asks for it
\* by hand clears the mark.
Removed(g) ==
  /\ AtStep(g, "removed")
  /\ LET mark == <<GrabberOf[g], key[g]>> IN
       IF g \notin Explicit /\ mark \in tombstone
         THEN Returns(g) /\ UNCHANGED <<tombstone, before>>
         ELSE GoesOn(g) /\ Lift(mark)
  /\ UNCHANGED <<accountRow, keptRows, cached, nzbFile, nzbUrl, deleted, body, key, known, remapped, turns>>

Failed(g) ==
  /\ AtStep(g, "failed")
  /\ IF known[g].failed THEN Returns(g) ELSE GoesOn(g)
  /\ UNCHANGED <<accountRow, keptRows, cached, nzbFile, nzbUrl, tombstone, deleted, body, key, known,
                 before, remapped, turns>>

\* manifest.Playable.
Look(g) ==
  /\ AtStep(g, "look") /\ GoesOn(g)
  /\ known' = [known EXCEPT ![g].hit = key[g] \in cached]
  /\ UNCHANGED <<accountRow, keptRows, cached, nzbFile, nzbUrl, tombstone, deleted, body, key, before,
                 remapped, turns>>

\* CreateOnce: the account's live row wins.
CreateRow(g, st) ==
  accountRow' = IF accountRow[GrabberOf[g]][key[g]] \in Live THEN accountRow
                ELSE [accountRow EXCEPT ![GrabberOf[g]][key[g]] = st]

\* What was playable becomes a complete row of the account; the manifest may have gone.
Hit(g) ==
  /\ AtStep(g, "hit")
  /\ IF ~known[g].hit THEN GoesOn(g) /\ UNCHANGED accountRow
     ELSE /\ Returns(g)
          /\ \/ CreateRow(g, "complete")
             \/ key[g] \notin cached /\ UNCHANGED accountRow
  /\ UNCHANGED <<keptRows, cached, nzbFile, nzbUrl, tombstone, deleted, body, key, known, before,
                 remapped, turns>>

\* A row of another account is linked to, as it is: a running one through the admission.
Link(g, st) ==
  IF st = "none" THEN GoesOn(g) /\ UNCHANGED accountRow
  ELSE Returns(g) /\ (CreateRow(g, st) \/ UNCHANGED accountRow)

Reuse(g) ==
  /\ \/ AtStep(g, "reuse") /\ \E st \in OthersRow(g) : Link(g, st)
     \/ AtStep(g, "reuseSeen") /\ Link(g, known[g].others)
  /\ UNCHANGED <<keptRows, cached, nzbFile, nzbUrl, tombstone, deleted, body, key, known, before,
                 remapped, turns>>

\* A release in the Usenet archive is downloaded from there; one in the account's own storage
\* is complete at once, and its content comes back in the background.
Archive(g) ==
  /\ AtStep(g, "archive")
  /\ \/ GoesOn(g) /\ UNCHANGED accountRow
     \/ Returns(g) /\ \E st \in Live : CreateRow(g, st)
  /\ UNCHANGED <<keptRows, cached, nzbFile, nzbUrl, tombstone, deleted, body, key, known, before,
                 remapped, turns>>

\* Bug: a refusal returns without the deferred unlock.
RefuseHolding(g) ==
  /\ AtStep(g, "quota") /\ UNCHANGED heldKey
  /\ \/ grabAt' = [grabAt EXCEPT ![g] = @ + 1]
     \/ grabAt' = [grabAt EXCEPT ![g] = Len(StepsOf(g)) + 1]
  /\ UNCHANGED <<accountRow, keptRows, cached, nzbFile, nzbUrl, tombstone, deleted, body, key, known,
                 before, remapped, turns>>

\* The monthly and the hourly quota.
Refuse(g) ==
  /\ AtStep(g, "quota")
  /\ GoesOn(g) \/ Returns(g)
  /\ UNCHANGED <<accountRow, keptRows, cached, nzbFile, nzbUrl, tombstone, deleted, body, key, known,
                 before, remapped, turns>>

\* Bug: the NZB is stored under the hash of its own message ids.
StoreFetched(g) ==
  /\ AtStep(g, "store")
  /\ \/ GoesOn(g) /\ nzbFile' = nzbFile \union {body[g]}
     \/ Returns(g) /\ UNCHANGED nzbFile
  /\ UNCHANGED <<accountRow, keptRows, cached, nzbUrl, tombstone, deleted, body, key, known, before,
                 remapped, turns>>

\* The NZB is stored for the worker, under the content the row will name.
StoreNzb(g) ==
  /\ AtStep(g, "store")
  /\ \/ GoesOn(g) /\ nzbFile' = nzbFile \union {key[g]}
     \/ Returns(g) /\ UNCHANGED nzbFile
  /\ UNCHANGED <<accountRow, keptRows, cached, nzbUrl, tombstone, deleted, body, key, known, before,
                 remapped, turns>>

\* Admit: a new row, the account's live one, or a refusal.
AdmitGrab(g) ==
  /\ AtStep(g, "admit") /\ Returns(g)
  /\ CreateRow(g, "active") \/ UNCHANGED accountRow
  /\ UNCHANGED <<keptRows, cached, nzbFile, nzbUrl, tombstone, deleted, body, key, known, before,
                 remapped, turns>>

GrabStep(g) ==
  \/ Fetch(g) \/ LockGrab(g) \/ ByLink(g) \/ Relink(g) \/ MapNzbURL(g) \/ Own(g) \/ Siblings(g)
  \/ Removed(g) \/ Failed(g) \/ Look(g) \/ Hit(g) \/ Reuse(g) \/ Archive(g) \/ Refuse(g) \/ StoreNzb(g)
  \/ AdmitGrab(g)

-----------------------------------------------------------------------------
(* What happens meanwhile.                                                 *)

Turn == turns < MaxTurns /\ turns' = turns + 1
Elsewhere == UNCHANGED <<nzbUrl, nzbFile, heldKey, grabs, remapped>>

\* A worker ends a download: every running row of the content, or one of them.
DownloadEnds ==
  /\ Turn /\ Elsewhere
  /\ \E c \in Contents :
       /\ \E u \in Grabber : accountRow[u][c] = "active"
       /\ \/ /\ cached' = cached \union {c}
             /\ accountRow' = [u \in Grabber |->
                  [accountRow[u] EXCEPT ![c] = IF @ = "active" THEN "complete" ELSE @]]
          \/ /\ accountRow' = [u \in Grabber |->
                  [accountRow[u] EXCEPT ![c] = IF @ = "active" THEN "failed" ELSE @]]
             /\ UNCHANGED cached
  /\ UNCHANGED <<keptRows, tombstone, deleted>>

\* An eviction takes the blobs, and marks the rows it has listed.
ContentEvicted ==
  /\ Turn /\ Elsewhere
  /\ \E c \in cached :
       /\ cached' = cached \ {c} /\ keptRows' = keptRows \ {c}
       /\ accountRow' = [u \in Grabber |->
            [accountRow[u] EXCEPT ![c] = IF @ = "complete" THEN "evicted" ELSE @]]
  /\ UNCHANGED <<tombstone, deleted>>

\* The owner retries a row that has failed or been evicted.
RetryRow ==
  /\ Turn /\ Elsewhere
  /\ \E u \in Grabber, c \in Contents :
       /\ accountRow[u][c] \in {"failed", "evicted"}
       /\ accountRow' = [accountRow EXCEPT ![u][c] = "active"]
  /\ UNCHANGED <<keptRows, cached, tombstone, deleted>>

\* The failure is half an hour old, the removal a day.
MarksExpire ==
  /\ Turn
  /\ \/ /\ \E u \in Grabber, c \in Contents :
             /\ accountRow[u][c] = "failed"
             /\ accountRow' = [accountRow EXCEPT ![u][c] = "evicted"]
        /\ UNCHANGED <<tombstone, before>>
     \/ (\E mark \in tombstone : Lift(mark)) /\ UNCHANGED accountRow
  /\ UNCHANGED <<keptRows, cached, nzbFile, nzbUrl, deleted, heldKey, grabAt, body, key, known, remapped>>

\* deleteJob: the last row of a content that is complete is kept for the system, any other
\* is deleted, and a Usenet one is remembered.
DeleteRow ==
  /\ Turn /\ Elsewhere
  /\ \E u \in Grabber, c \in Contents :
       /\ accountRow[u][c] # "none"
       /\ accountRow' = [accountRow EXCEPT ![u][c] = "none"]
       /\ IF /\ accountRow[u][c] = "complete" /\ c \notin keptRows
             /\ \A v \in Grabber \ {u} : accountRow[v][c] = "none"
            THEN keptRows' = keptRows \union {c} /\ UNCHANGED deleted
            ELSE deleted' = deleted \union {<<u, c>>} /\ UNCHANGED keptRows
  /\ UNCHANGED <<cached, tombstone>>

TombstoneUsenet ==
  /\ \E mark \in deleted : deleted' = deleted \ {mark} /\ tombstone' = tombstone \union {mark}
  /\ Elsewhere /\ UNCHANGED <<accountRow, keptRows, cached, turns>>

SubmissionNext ==
  \/ \E g \in Grab : GrabStep(g)
  \/ DownloadEnds \/ ContentEvicted \/ RetryRow \/ MarksExpire \/ DeleteRow \/ TombstoneUsenet

\* A handler runs to its end.
SubmissionFairness == \A g \in Grab : WF_submissionVars(GrabStep(g))
SubmissionSpec == SubmissionInit /\ [][SubmissionNext]_submissionVars /\ SubmissionFairness

-----------------------------------------------------------------------------
SubmissionTypeOK ==
  /\ accountRow \in [Grabber -> [Contents -> {"none", "active", "complete", "failed", "evicted"}]]
  /\ keptRows \subseteq Contents /\ cached \subseteq Contents /\ nzbFile \subseteq Contents
  /\ nzbUrl \in [Links -> Contents \union {NoContent}]
  /\ tombstone \subseteq Grabber \X Contents /\ deleted \subseteq Grabber \X Contents
  /\ heldKey \in [Links \union Contents -> Grab \union {NoGrab}]
  /\ grabAt \in [Grab -> 1 .. 14] /\ remapped \subseteq Links

\* "Dedup on the stable nzb link so a retry reuses the first job instead of starting another
\* download" (usenet.go): the requests of an account for one link leave it one live row,
\* however they overlap, unless another account's request through StremThru has replaced the
\* link's content meanwhile.
OneRowPerLink ==
  \A l \in Links \ remapped, u \in Grabber :
    LET asked == {g \in Grab : LinkOf[g] = l /\ GrabberOf[g] = u}
        theirs == {key[g] : g \in {h \in asked : Over(h)}} IN
    Cardinality({c \in theirs \ {NoContent} : accountRow[u][c] = "active"}) <= 1

\* The row of a Usenet download names an NZB that is there, whatever its own hash.
NzbBehindRow ==
  \A u \in Grabber, c \in Contents :
    accountRow[u][c] = "active" /\ (\A g \in Grab : c \in Rolls[g] => Usenet(g)) => c \in nzbFile

\* A player's request that begins after its user has removed a release does not bring it back,
\* under whatever content hash the indexer presents it, while the removal stands.
RemovedStaysAway ==
  [][\A g \in Grab :
       FacadeOf[g] = "native" /\ g \notin Explicit /\ ~Over(g) /\ Over(g)' =>
         \A c \in Contents :
           accountRow[GrabberOf[g]][c] \notin Live /\ accountRow'[GrabberOf[g]][c] \in Live =>
             <<GrabberOf[g], c>> \notin before[g]]_submissionVars

\* Every request is answered, and so nobody waits for a lock for ever.
GrabsEnd == \A g \in Grab : grabAt[g] > 1 ~> Over(g)
=============================================================================
