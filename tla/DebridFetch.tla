----------------------------- MODULE DebridFetch -----------------------------
(***************************************************************************)
(* A download through the debrid providers: the run over the chain         *)
(* (ingest/internal/debrid/debrid.go) and the adapters of the five         *)
(* services (shared/providers). A run looks for the release among the      *)
(* items of the account, else adds it, waits for it, downloads its links   *)
(* and deletes what it added, but never what was in the library before.    *)
(*                                                                         *)
(* Abstractions: all runs want one release, with one account per service;  *)
(* any call may fail: refused, timed out, cancelled, or kept back by the   *)
(* open breaker of the service. Deleting fails in the same way, and its    *)
(* error is ignored: `stuck` records what stays for that reason. The size  *)
(* of a file, its resumption and renewed links are PartFile's.             *)
(***************************************************************************)
EXTENDS Naturals, Sequences, FiniteSets

CONSTANTS
  Run,           \* debrid.Runner.Run calls of the release
  ChainOf,       \* Run -> sequence of services, as providersFor builds it
  File,          \* the video files of the release
  MaxStuck,      \* bound: items left by failed deletes and crashes
  MaxLapses      \* bound: crashes

DebridKind == {"rd", "ad", "tb", "oc", "pm"}

ASSUME DebridAssumption ==
  /\ ChainOf \in [Run -> Seq(DebridKind)]
  /\ Run \cap {"user"} = {} /\ MaxStuck \in Nat /\ MaxLapses \in Nat

VARIABLES
  asks,        \* Run -> the call it makes next
  link,        \* Run -> index into its chain
  handle,      \* Run -> the item it added and holds the handle of, if any
  account,     \* items <<who added it, service, lapses then>> of the accounts
  ready,       \* those the service has downloaded
  stuck,       \* those whose delete failed, or whose run crashed
  scratch,     \* Run -> File -> the service it was downloaded from
  lapses

debridVars == <<asks, link, handle, account, ready, stuck, scratch, lapses>>

Empty == [f \in File |-> "none"]

DebridFresh ==
  /\ link = [r \in Run |-> 0]
  /\ handle = [r \in Run |-> {}]
  /\ account = {"user"} \X {"rd", "ad", "tb", "oc"} \X {0} /\ ready = account
  /\ stuck = {} /\ scratch = [r \in Run |-> Empty] /\ lapses = 0
DebridInit == DebridFresh /\ asks = [r \in Run |-> "run"]

Service(r) == ChainOf[r][link[r]]
DebridItem(r) == <<r, Service(r), lapses>>
At(r, call, kind) == asks[r] = call /\ Service(r) = kind

Goes(r, call) == asks' = [asks EXCEPT ![r] = call]
Untouched == UNCHANGED <<handle, account, ready, stuck>>
NoFiles == UNCHANGED <<scratch, lapses>>

\* Bug: the error path of a call forgets what was added.
ReleasesNothing(r) == handle' = [handle EXCEPT ![r] = {}] /\ UNCHANGED <<account, ready, stuck>>

\* Release of an empty handle does nothing; an error of the delete is ignored.
Releases(r) ==
  /\ handle' = [handle EXCEPT ![r] = {}]
  /\ \/ account' = account \ handle[r] /\ ready' = ready \ handle[r] /\ UNCHANGED stuck
     \/ /\ handle[r] \cap account # {} /\ stuck' = stuck \union handle[r]
        /\ UNCHANGED <<account, ready>>

\* The run goes on to the next service, or is over.
NextService(r) ==
  /\ link' = [link EXCEPT ![r] = @ + 1]
  /\ Goes(r, IF link[r] < Len(ChainOf[r]) THEN "look" ELSE "over")

\* Fetch returns an error, or nothing: released, and the next service.
Misses(r) == Releases(r) /\ NextService(r) /\ NoFiles
Hits(r) == Goes(r, "attempt") /\ Untouched /\ UNCHANGED link /\ NoFiles
Asks(r, call) == Goes(r, call) /\ Untouched /\ UNCHANGED link /\ NoFiles

DebridRun(r) ==
  /\ asks[r] = "run" /\ NextService(r) /\ Untouched /\ NoFiles

InLibrary(p) == \E i \in ready : i[2] = p

\* Bug: what was found in the library is released like what was added.
LibraryOwned(r, p) ==
  /\ At(r, "look", p)
  /\ \/ /\ \E i \in ready : i[2] = p /\ account' = account \ {i} /\ ready' = ready \ {i}
        /\ UNCHANGED <<handle, stuck, link>> /\ Goes(r, "attempt") /\ NoFiles
     \/ Asks(r, "add")
     \/ Misses(r)

\* libraryFetch: a match without a usable link is no match; no handle.
LibraryFetch(r, p) ==
  /\ At(r, "look", p)
  /\ \/ InLibrary(p) /\ Hits(r)
     \/ Asks(r, "add")
     \/ Misses(r)

RdLibrary(r) == LibraryFetch(r, "rd")
AdLibrary(r) == LibraryFetch(r, "ad")
OcLibrary(r) == LibraryFetch(r, "oc")

\* The item is added and its handle known; an answer may be lost.
Adds(r, call, isReady) ==
  /\ account' = account \union {DebridItem(r)}
  /\ ready' = IF isReady THEN ready \union {DebridItem(r)} ELSE ready
  /\ NoFiles
  /\ \/ /\ handle' = [handle EXCEPT ![r] = {DebridItem(r)}] /\ Goes(r, call)
        /\ UNCHANGED <<stuck, link>>
     \/ /\ stuck' = stuck \union {DebridItem(r)} /\ NextService(r) /\ UNCHANGED handle

RdAdd(r) == At(r, "add", "rd") /\ (Adds(r, "select", FALSE) \/ Misses(r))
RdSelect(r) == At(r, "select", "rd") /\ (Asks(r, "poll") \/ Misses(r))

\* Bug: the torrent that is not ready after six polls stays.
RdPollLeaves(r) ==
  /\ At(r, "poll", "rd")
  /\ \/ /\ ready' = ready \union (handle[r] \cap account) /\ Goes(r, "links")
        /\ UNCHANGED <<handle, account, stuck, link>> /\ NoFiles
     \/ ReleasesNothing(r) /\ NextService(r) /\ NoFiles

\* Six polls; a torrent that is still downloading is a miss.
RdPoll(r) ==
  /\ At(r, "poll", "rd")
  /\ \/ /\ ready' = ready \union (handle[r] \cap account) /\ Goes(r, "links")
        /\ UNCHANGED <<handle, account, stuck, link>> /\ NoFiles
     \/ Misses(r)

RdLinks(r) == At(r, "links", "rd") /\ (Hits(r) \/ Misses(r))

\* AllDebrid: what is not ready at once is released.
AdAdd(r) ==
  /\ At(r, "add", "ad")
  /\ \/ \E b \in BOOLEAN : Adds(r, IF b THEN "links" ELSE "unready", b)
     \/ Misses(r)

AdUnready(r) == At(r, "unready", "ad") /\ Misses(r)
AdFiles(r) == At(r, "links", "ad") /\ (Hits(r) \/ Misses(r))

\* TorBox: a cached release is created, else looked up in the library.
TbCached(r) == At(r, "look", "tb") /\ (Asks(r, "add") \/ Asks(r, "mine") \/ Misses(r))
TbCreate(r) == At(r, "add", "tb") /\ (Adds(r, "links", TRUE) \/ Misses(r))
TbLibraryID(r) ==
  At(r, "mine", "tb") /\ ((InLibrary("tb") /\ Asks(r, "links")) \/ Misses(r))
TbListTorrent(r) == At(r, "links", "tb") /\ (Hits(r) \/ Misses(r))

OcAdd(r) == At(r, "add", "oc") /\ (Adds(r, "poll", FALSE) \/ Misses(r))
OcPoll(r) ==
  /\ At(r, "poll", "oc")
  /\ \/ /\ ready' = ready \union (handle[r] \cap account) /\ Goes(r, "links")
        /\ UNCHANGED <<handle, account, stuck, link>> /\ NoFiles
     \/ Misses(r)
OcExplore(r) == At(r, "links", "oc") /\ (Hits(r) \/ Misses(r))

\* Premiumize: cached, and the links at once; nothing is added.
PmFetch(r) == At(r, "look", "pm") /\ (Hits(r) \/ Misses(r))

\* Run returns: what comes of the job is process's (Dispatch, Publication).
Ends(r) ==
  /\ Goes(r, "idle") /\ scratch' = [scratch EXCEPT ![r] = Empty]
  /\ UNCHANGED <<link, lapses>>

\* Blocked or over the plan's limit: no other service is asked.
AttemptRefused(r) ==
  asks[r] = "attempt" /\ Releases(r) /\ Ends(r)

AttemptFile(r, f) ==
  /\ asks[r] = "attempt"
  /\ scratch' = [scratch EXCEPT ![r][f] = IF @ = "none" THEN Service(r) ELSE @]
  /\ UNCHANGED <<asks, link, lapses>> /\ Untouched

\* Bug: what the failed service has left is there for the next one.
AttemptFailsDirty(r) ==
  /\ asks[r] = "attempt" /\ Releases(r) /\ NextService(r)
  /\ UNCHANGED <<scratch, lapses>>

\* A file that cannot be downloaded: RemoveAll, and the next service.
AttemptFails(r) ==
  /\ asks[r] = "attempt" /\ Releases(r) /\ NextService(r)
  /\ scratch' = [scratch EXCEPT ![r] = Empty] /\ UNCHANGED lapses

\* All files are there: released, its usage recorded, then published.
AttemptDone(r) ==
  /\ asks[r] = "attempt" /\ \A f \in File : scratch[r][f] # "none"
  /\ Releases(r) /\ Goes(r, "publish")
  /\ UNCHANGED <<link, scratch, lapses>>

PublishResult(r) ==
  asks[r] = "publish" /\ Ends(r) /\ Untouched

\* Bug: after the last service the run asks for one more.
RunOverWaits(r) == asks[r] = "over" /\ UNCHANGED debridVars

\* The chain is exhausted: the job falls through to usenet or the engine.
RunOver(r) ==
  asks[r] = "over" /\ Ends(r) /\ Untouched

\* The worker dies; the job is assigned again later, its files are there.
DebridCrash(r) ==
  /\ asks[r] \notin {"run", "idle"} /\ lapses < MaxLapses /\ lapses' = lapses + 1
  /\ Goes(r, "run") /\ link' = [link EXCEPT ![r] = 0]
  /\ handle' = [handle EXCEPT ![r] = {}]
  /\ stuck' = stuck \union (handle[r] \cap account)
  /\ scratch' = [scratch EXCEPT ![r] = [f \in File |->
                    IF scratch[r][f] = "none" THEN "none" ELSE "before"]]
  /\ UNCHANGED <<account, ready>>

\* Ready for 20 minutes or dead: whoever added it, whoever uses it.
ADReapOrphans(i) ==
  /\ i \in account /\ i[2] = "ad"
  /\ account' = account \ {i} /\ ready' = ready \ {i} /\ stuck' = stuck \ {i}
  /\ UNCHANGED <<asks, link, handle>> /\ NoFiles

DebridStep(r) ==
  \/ DebridRun(r) \/ RdLibrary(r) \/ RdAdd(r) \/ RdSelect(r) \/ RdPoll(r) \/ RdLinks(r)
  \/ AdLibrary(r) \/ AdAdd(r) \/ AdUnready(r) \/ AdFiles(r)
  \/ TbCached(r) \/ TbCreate(r) \/ TbLibraryID(r) \/ TbListTorrent(r)
  \/ OcLibrary(r) \/ OcAdd(r) \/ OcPoll(r) \/ OcExplore(r) \/ PmFetch(r)
  \/ AttemptRefused(r) \/ (\E f \in File : AttemptFile(r, f) /\ scratch[r][f] = "none")
  \/ AttemptFails(r) \/ AttemptDone(r) \/ PublishResult(r) \/ RunOver(r)

DebridNext ==
  /\ \/ \E r \in Run : DebridStep(r) \/ DebridCrash(r)
     \/ \E i \in account : ADReapOrphans(i)
  /\ Cardinality(stuck') <= MaxStuck

DebridFairness == \A r \in Run : WF_debridVars(DebridStep(r) /\ Cardinality(stuck') <= MaxStuck)

DebridSpec == DebridInit /\ [][DebridNext]_debridVars /\ DebridFairness

-----------------------------------------------------------------------------
\* The types of the state.
DebridTypeOK ==
  /\ asks \in [Run -> {"run", "look", "add", "select", "poll", "links", "unready", "mine",
                       "attempt", "publish", "over", "idle"}]
  /\ link \in [Run -> Nat] /\ (\A r \in Run : handle[r] \subseteq {r} \X DebridKind \X Nat)
  /\ account \subseteq (Run \union {"user"}) \X DebridKind \X Nat /\ ready \subseteq account
  /\ stuck \subseteq account
  /\ scratch \in [Run -> [File -> DebridKind \union {"none", "before"}]]
  /\ lapses \in 0 .. MaxLapses

\* What a run has added to an account is there only while the run holds its
\* handle for that service; else its delete failed or it crashed. (The
\* Release calls on every error path of Fetch, and attempt's defer.)
NothingLeft ==
  \A i \in account \ stuck : i[1] \in Run =>
    /\ handle[i[1]] = {i} /\ link[i[1]] \in 1 .. Len(ChainOf[i[1]])
    /\ asks[i[1]] \notin {"look", "publish", "over", "idle"} /\ Service(i[1]) = i[2]

\* An item leaves the account by the run that added it or by the reaper of
\* AllDebrid: what a run finds in the library is never deleted by it.
\* (libraryFetch returns no handle.)
LibraryKept ==
  [][\A i \in account \ account' :
       \/ i[1] \in Run /\ i \in handle[i[1]]
       \/ i[2] = "ad" /\ UNCHANGED asks]_debridVars

\* The files of an attempt all come from the service it asks, or were there
\* before a crash: nothing of a failed service is published. (RemoveAll.)
OneSource ==
  \A r \in Run, f \in File : asks[r] \in {"attempt", "publish"} =>
    scratch[r][f] \in {"none", "before", Service(r)}

\* Every run ends, whatever the services answer.
RunEnds == \A r \in Run : (asks[r] # "idle") ~> (asks[r] = "idle")
=============================================================================
