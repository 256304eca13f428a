---------------------------- MODULE UsenetFetch ----------------------------
(***************************************************************************)
(* One usenet job from its NZB to the files that are published: the runner *)
(* (ingest/internal/usenet), the segment download with its retries and its *)
(* stall watch (shared/usenet/download/download.go), and the repair, the   *)
(* unpacking and the choice of the videos (shared/usenet/postproc).        *)
(*                                                                         *)
(* The files of a release are fetched one after the other, the segments of *)
(* one concurrently.  A segment ends as data, as known to be missing, or   *)
(* as a failure that is retried in the next pass; after RetryRounds it     *)
(* counts as missing.  What is missing is left as a hole for par2.         *)
(*                                                                         *)
(* Abstractions: a release is an order of files, one of them the par2 set; *)
(* a segment has the size 1; the answer of all providers to one fetch      *)
(* (fetchSegment, fetchFromPool) is one outcome; names, passwords and      *)
(* archive formats are one outcome of the unpacking; sources of the NZB    *)
(* and of the credentials are whether there is one.                        *)
(***************************************************************************)
EXTENDS Integers, FiniteSets, Sequences

CONSTANTS
  Order,        \* the files of the release, in the order of the NZB, the par2 set among them
  Parity,       \* the par2 set
  Seg,          \* the segments of each file
  RetryRounds   \* 2

ASSUME UsenetAssumption ==
  /\ Order \in Seq({Order[i] : i \in DOMAIN Order}) /\ Order # <<>> /\ RetryRounds \in Nat
  /\ IsFiniteSet(Seg) /\ Seg # {}

VARIABLES
  leg,       \* "start", "fetch", "repair", "unpack", "published" or "failed"
  via,       \* who fetches: "torbox", "native", "unset"
  at,        \* index of the file being fetched
  pass,      \* retry round of that file
  piece,     \* Seg -> state in that file
  holes,     \* file -> its segments without data, of the files in the directory
  lacking,   \* what Download reports as missing
  tally,     \* what it has reported as progress
  stopped    \* dlCtx was cancelled by the stall watch

fetchVars == <<leg, via, at, pass, piece, holes, lacking, tally, stopped>>

Fresh == [s \in Seg |-> "todo"]

FetchInit ==
  /\ leg = "start" /\ via = "unset"
  /\ at = 1 /\ pass = 0 /\ piece = Fresh
  /\ holes = <<>> /\ lacking = 0 /\ tally = 0 /\ stopped = FALSE

In(s) == {x \in Seg : piece[x] = s}
InDir(f) == f \in DOMAIN holes
Videos == {Order[i] : i \in DOMAIN Order} \ {Parity}

\* RunNZB and fetchToFiles up to the providers: too large, blocked, no NZB anywhere (the
\* node's store, the archive's, the job's, cairn's), no provider.
FetchRefused ==
  /\ leg = "start" /\ leg' = "failed"
  /\ UNCHANGED <<via, at, pass, piece, holes, lacking, tally, stopped>>

\* A TorBox key is tried first; when its usenet is unavailable the native way is taken.
FetchTorBox ==
  /\ leg = "start" /\ via = "unset"
  /\ via' \in {"torbox", "native"}
  /\ UNCHANGED <<leg, at, pass, piece, holes, lacking, tally, stopped>>

\* downloadTorBoxResult: whole files or an error.
TorBoxEnds ==
  /\ leg = "start" /\ via = "torbox"
  /\ \/ leg' = "failed" /\ UNCHANGED holes
     \/ leg' = "published" /\ holes' = [f \in Videos |-> {}]
  /\ UNCHANGED <<via, at, pass, piece, lacking, tally, stopped>>

FetchStart ==
  /\ leg = "start" /\ via = "native" /\ leg' = "fetch"
  /\ UNCHANGED <<via, at, pass, piece, holes, lacking, tally, stopped>>

\* stallWatch: half an hour without progress.
StallStops ==
  /\ leg = "fetch" /\ ~stopped /\ stopped' = TRUE
  /\ UNCHANGED <<leg, via, at, pass, piece, holes, lacking, tally>>

\* fetchPass: a goroutine per segment.  One that starts after the cancellation returns
\* without a word.
SegStart(s) ==
  /\ leg = "fetch" /\ piece[s] = "todo"
  /\ piece' = [piece EXCEPT ![s] = IF stopped THEN "skipped" ELSE "flying"]
  /\ UNCHANGED <<leg, via, at, pass, holes, lacking, tally, stopped>>

SegArrives(s) ==
  /\ leg = "fetch" /\ piece[s] = "flying"
  /\ piece' = [piece EXCEPT ![s] = "got"] /\ tally' = tally + 1
  /\ UNCHANGED <<leg, via, at, pass, holes, lacking, stopped>>

\* Bug: a segment to be retried has counted as done.
SegFailsTallied(s) ==
  /\ leg = "fetch" /\ piece[s] = "flying"
  /\ piece' = [piece EXCEPT ![s] = IF stopped THEN "fatal" ELSE "again"] /\ tally' = tally + 1
  /\ UNCHANGED <<leg, via, at, pass, holes, lacking, stopped>>

\* No provider answers, or the answer is no yEnc data.
SegFails(s) ==
  /\ leg = "fetch" /\ piece[s] = "flying"
  /\ piece' = [piece EXCEPT ![s] = IF stopped THEN "fatal" ELSE "again"]
  /\ UNCHANGED <<leg, via, at, pass, holes, lacking, tally, stopped>>

\* 430 or 423 from the last provider asked.
SegMissing(s) ==
  /\ leg = "fetch" /\ piece[s] = "flying" /\ ~stopped
  /\ piece' = [piece EXCEPT ![s] = "gone"] /\ tally' = tally + 1
  /\ UNCHANGED <<leg, via, at, pass, holes, lacking, stopped>>

PassOver == leg = "fetch" /\ In("todo") = {} /\ In("flying") = {}

\* Bug: the rounds are counted from one.
RetryPassMore ==
  /\ PassOver /\ In("fatal") = {} /\ In("again") # {} /\ pass <= RetryRounds
  /\ IF stopped
     THEN leg' = "repair" /\ UNCHANGED <<pass, piece>>
     ELSE /\ pass' = pass + 1
          /\ piece' = [s \in Seg |-> IF piece[s] = "again" THEN "todo" ELSE piece[s]]
          /\ UNCHANGED leg
  /\ UNCHANGED <<via, at, holes, lacking, tally, stopped>>

\* downloadFile: another round for the failures.  A cancellation is seen during the pause.
RetryPass ==
  /\ PassOver /\ In("fatal") = {} /\ In("again") # {} /\ pass < RetryRounds
  /\ IF stopped
     THEN leg' = "repair" /\ UNCHANGED <<pass, piece>>
     ELSE /\ pass' = pass + 1
          /\ piece' = [s \in Seg |-> IF piece[s] = "again" THEN "todo" ELSE piece[s]]
          /\ UNCHANGED leg
  /\ UNCHANGED <<via, at, holes, lacking, tally, stopped>>

Finished(lost) ==
  /\ holes' = [f \in DOMAIN holes \union {Order[at]} |->
                 IF f = Order[at] THEN Seg \ In("got") ELSE holes[f]]
  /\ lacking' = lacking + lost
  /\ tally' = tally + Cardinality(In("again"))
  /\ at' = at + 1 /\ pass' = 0 /\ piece' = Fresh
  /\ leg' = IF at = Len(Order) THEN "repair" ELSE leg
  /\ UNCHANGED <<via, stopped>>

\* Bug: a segment that failed to the end is left out of what is missing.
FileOverQuiet ==
  /\ PassOver /\ In("fatal") = {}
  /\ In("again") = {} \/ pass = RetryRounds
  /\ Finished(Cardinality(In("gone")))

\* The file is complete, or its retries are used up: synced, renamed from .part, and what
\* never came counts as missing.
FileOver ==
  /\ PassOver /\ In("fatal") = {}
  /\ In("again") = {} \/ pass = RetryRounds
  /\ Finished(Cardinality(In("gone") \union In("again")))

\* Bug: a segment of a cancelled download is waited for again.
FatalWaits ==
  /\ PassOver /\ In("fatal") # {}
  /\ piece' = [s \in Seg |-> IF piece[s] = "fatal" THEN "todo" ELSE piece[s]]
  /\ stopped' = FALSE
  /\ UNCHANGED <<leg, via, at, pass, holes, lacking, tally>>

\* A cancelled pass: the .part file is removed, Download returns the error, and
\* fetchToFiles goes on with the files there are, as the job's own context is alive.
FatalEnds ==
  /\ PassOver /\ In("fatal") # {}
  /\ leg' = "repair"
  /\ UNCHANGED <<via, at, pass, piece, holes, lacking, tally, stopped>>

----------------------------------------------------------------------------
Whole == [f \in DOMAIN holes \union Videos |-> {}]

\* Bug: only a failed start of par2 is an error.
RepairAny ==
  /\ leg = "repair"
  /\ leg' = "unpack" /\ UNCHANGED <<via, at, pass, piece, holes, lacking, tally, stopped>>

\* repair, repairVerdict.  Without a par2 set the files are taken as they are; a set that
\* has lost segments may still repair.
Repair ==
  /\ leg = "repair"
  /\ IF InDir(Parity)
     THEN \/ leg' = "unpack" /\ holes' = Whole
          \/ /\ (holes[Parity] # {} \/ \E f \in Videos : ~InDir(f) \/ holes[f] # {})
             /\ leg' = "failed" /\ UNCHANGED holes
     ELSE leg' = "unpack" /\ UNCHANGED holes
  /\ UNCHANGED <<via, at, pass, piece, lacking, tally, stopped>>

\* extract, collectVideos, Undersized: an archive does not open, no video is found, or what
\* is found has less than half of the release's size, holes included.
UnpackFails ==
  /\ leg = "unpack" /\ leg' = "failed"
  /\ UNCHANGED <<via, at, pass, piece, holes, lacking, tally, stopped>>

UnpackEnds ==
  /\ leg = "unpack"
  /\ 2 * Cardinality({f \in Videos : InDir(f)}) >= Cardinality(Videos)
  /\ leg' = "published"
  /\ UNCHANGED <<via, at, pass, piece, holes, lacking, tally, stopped>>

FetchStep ==
  \/ FetchRefused \/ FetchTorBox \/ TorBoxEnds \/ FetchStart
  \/ \E s \in Seg : SegStart(s) \/ SegArrives(s) \/ SegFails(s) \/ SegMissing(s)
  \/ RetryPass \/ FileOver \/ FatalEnds
  \/ Repair \/ UnpackFails \/ UnpackEnds

FetchNext == FetchStep \/ StallStops

\* The goroutines run; an NNTP answer comes, is refused or times out in the library.
FetchFairness == WF_fetchVars(FetchStep)
FetchSpec == FetchInit /\ [][FetchNext]_fetchVars /\ FetchFairness

----------------------------------------------------------------------------
\* The variables have the types the code gives them.
FetchTypeOK ==
  /\ leg \in {"start", "fetch", "repair", "unpack", "published", "failed"}
  /\ via \in {"unset", "torbox", "native"}
  /\ at \in 1 .. Len(Order) + 1 /\ pass \in 0 .. RetryRounds
  /\ piece \in [Seg -> {"todo", "flying", "got", "gone", "again", "skipped", "fatal"}]
  /\ DOMAIN holes \subseteq Videos \union {Parity}
  /\ \A f \in DOMAIN holes : holes[f] \subseteq Seg
  /\ lacking \in Nat /\ tally \in Nat /\ stopped \in BOOLEAN

Gaps == {p \in (DOMAIN holes) \X Seg : p[2] \in holes[p[1]]}
NamesApart == \A i, j \in DOMAIN Order : Order[i] = Order[j] => i = j

\* A hole no cancellation explains is reported: what Download calls missing is what is
\* missing, however the segments failed and in whichever round, or more when the NZB names two
\* files alike, the second of which replaces the first (downloadFile, Download).
HolesReported ==
  (leg \in {"fetch", "repair"} /\ ~stopped /\ via = "native") =>
     Cardinality(Gaps) <= lacking /\ (NamesApart => lacking = Cardinality(Gaps))

\* The progress of a release never exceeds its size, with retries and failures
\* (fetchPass.bump; the user's progress bar, and the stall watch it feeds).
TallyBounded ==
  /\ tally <= Len(Order) * Cardinality(Seg)
  /\ PassOver /\ via = "native" => tally <= (at - 1) * Cardinality(Seg) + Cardinality(Seg \ In("again"))

\* A release whose par2 set has been downloaded is published only whole
\* (postproc.ErrUnrepairable: publishing it would ship a corrupt file).
ParityGuards ==
  leg = "published" /\ InDir(Parity) => \A f \in Videos : InDir(f) /\ holes[f] = {}

\* Nothing that stalls, fails for ever or is cancelled keeps the job from ending: the
\* retries are bounded and a cancelled pass is over (downloadFile, fetchToFiles).
FetchEnds == via # "unset" \/ leg # "start" ~> leg \in {"published", "failed"}
=============================================================================
