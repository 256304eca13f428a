------------------------------ MODULE LinkRun ------------------------------
(***************************************************************************)
(* A video link handed to yt-dlp (ingest/internal/ytdlp): the link is      *)
(* probed, refused when it is live, no video, blocked or over the plan's   *)
(* limit, then downloaded by a process of its own into the job's directory *)
(* while the runner looks once a second at how large that has become, and  *)
(* what videos it finds there at the end are published.                    *)
(*                                                                         *)
(* Abstractions: a byte is one step of the process; a file is a stream     *)
(* until yt-dlp has merged it; the runner looks at least once in TickBytes *)
(* bytes; a stall is StallTicks looks in a row.                            *)
(***************************************************************************)
EXTENDS Integers, FiniteSets

CONSTANTS
  Video,        \* the videos of a list; a link to one video leads to one of them
  ItemBytes,    \* the bytes of one video
  Declared,     \* the sizes the probe may find for the whole link, 0 when it finds none
  MaxBytes,     \* the plan's limit, 0 for none
  TickBytes,    \* what may arrive between two looks
  StallTicks    \* looks without progress before the download is given up

ASSUME LinkAssumption ==
  /\ IsFiniteSet(Video) /\ Video # {} /\ ItemBytes \in Nat \ {0}
  /\ Declared \subseteq Nat /\ MaxBytes \in Nat
  /\ TickBytes \in Nat \ {0} /\ StallTicks \in Nat \ {0}

VARIABLES
  linkStage,   \* where process is
  ofList,      \* the link is a list of videos
  ytdlp,       \* the process: "off", "running", "exited", "broke", "killed"
  got,         \* bytes on disk of each video
  file,        \* the file of each video: "none", "stream", "whole"
  dirSize,     \* the bytes of them all: what dirSize adds up in the job's directory
  seen,        \* the size at the last look
  unseen,      \* bytes since the last look
  still,       \* looks since the last progress
  aborted,     \* the context is cancelled
  collected    \* the videos published

linkVars == <<linkStage, ofList, ytdlp, got, file, dirSize, seen, unseen, still, aborted, collected>>
atTick   == <<seen, still>>
onDisk   == <<got, file, dirSize>>

LinkInit ==
  /\ linkStage = "probe" /\ ofList \in BOOLEAN
  /\ ytdlp = "off" /\ got = [v \in Video |-> 0] /\ file = [v \in Video |-> "none"] /\ dirSize = 0
  /\ seen = 0 /\ unseen = 0 /\ still = 0 /\ aborted = FALSE /\ collected = {}

Offered == IF ofList THEN Video ELSE {CHOOSE v \in Video : TRUE}

\* parseMeta and parsePlaylist: what the probe says of the link; a list says nothing of the
\* size of videos it does not look into.
Probed == [live : BOOLEAN, video : BOOLEAN, blocked : BOOLEAN, size : Declared]
OverLimit(n) == MaxBytes > 0 /\ n > MaxBytes

Probe ==
  /\ linkStage = "probe"
  /\ \/ linkStage' = "failed" /\ UNCHANGED ytdlp          \* yt-dlp's own reason
     \/ \E m \in Probed :
          IF m.live \/ ~m.video \/ m.blocked \/ OverLimit(m.size)
          THEN linkStage' = "failed" /\ UNCHANGED ytdlp
          ELSE linkStage' = "download" /\ ytdlp' = "running"
  /\ UNCHANGED <<ofList, onDisk, atTick, unseen, aborted, collected>>

----------------------------------------------------------------------------
\* The process.
Arrive(v) ==
  /\ ytdlp = "running" /\ v \in Offered /\ unseen < TickBytes /\ file[v] # "whole" /\ got[v] < ItemBytes
  /\ got' = [got EXCEPT ![v] = @ + 1] /\ file' = [file EXCEPT ![v] = "stream"]
  /\ dirSize' = dirSize + 1 /\ unseen' = unseen + 1
  /\ UNCHANGED <<linkStage, ofList, ytdlp, atTick, aborted, collected>>

Merge(v) ==
  /\ ytdlp = "running" /\ got[v] = ItemBytes /\ file[v] = "stream"
  /\ file' = [file EXCEPT ![v] = "whole"]
  /\ UNCHANGED <<linkStage, ofList, ytdlp, got, dirSize, atTick, unseen, aborted, collected>>

\* It ends well with everything merged, or with an error; with --ignore-errors an error of one
\* video does not keep it from the others.
Exit ==
  /\ ytdlp = "running"
  /\ ytdlp' \in IF \A v \in Offered : file[v] = "whole" THEN {"exited"} ELSE {"broke"}
  /\ UNCHANGED <<linkStage, ofList, onDisk, atTick, unseen, aborted, collected>>

\* The context cancelled, or the download given up: the process group is killed.
Kill ==
  /\ ytdlp = "running" /\ (aborted \/ linkStage = "failed") /\ ytdlp' = "killed"
  /\ UNCHANGED <<linkStage, ofList, onDisk, atTick, unseen, aborted, collected>>

----------------------------------------------------------------------------
\* download: the look, each second.
\* Bug: the look reports progress and no longer asks for the limit.
LookOnlyAtSize ==
  /\ linkStage = "download" /\ unseen' = 0 /\ seen' = dirSize
  /\ still' = IF dirSize > seen THEN 0 ELSE still + 1
  /\ linkStage' = IF still' > StallTicks THEN "failed" ELSE linkStage
  /\ UNCHANGED <<ofList, ytdlp, onDisk, aborted, collected>>
LookAtDir ==
  /\ linkStage = "download" /\ unseen' = 0 /\ seen' = dirSize
  /\ still' = IF dirSize > seen THEN 0 ELSE still + 1
  /\ linkStage' = IF OverLimit(dirSize) \/ still' > StallTicks THEN "failed" ELSE linkStage
  /\ UNCHANGED <<ofList, ytdlp, onDisk, aborted, collected>>

\* Bug: an error of the process ends no download any more.
WaitedIgnoring ==
  /\ linkStage = "download" /\ ytdlp \in {"exited", "broke", "killed"}
  /\ linkStage' = IF ytdlp # "exited" /\ aborted THEN "failed" ELSE "collect"
  /\ UNCHANGED <<ofList, ytdlp, onDisk, atTick, unseen, aborted, collected>>
\* The process has ended: an error counts unless the link is a list.
Waited ==
  /\ linkStage = "download" /\ ytdlp \in {"exited", "broke", "killed"}
  /\ linkStage' = IF ytdlp # "exited" /\ (aborted \/ ~ofList) THEN "failed" ELSE "collect"
  /\ UNCHANGED <<ofList, ytdlp, onDisk, atTick, unseen, aborted, collected>>

\* collectVideos and jobrun.Complete: what has a video's name, merged or not, and nothing asks
\* for the limit again.
Collect ==
  /\ linkStage = "collect"
  /\ \E names \in SUBSET {v \in Video : file[v] = "stream"} :
       LET found == names \union {v \in Video : file[v] = "whole"}
       IN \/ linkStage' = "complete" /\ found # {} /\ collected' = found
          \/ linkStage' = "failed" /\ UNCHANGED collected
  /\ UNCHANGED <<ofList, ytdlp, onDisk, atTick, unseen, aborted>>

\* The job is deleted, or the node stops.
Abort ==
  /\ ~aborted /\ aborted' = TRUE
  /\ UNCHANGED <<linkStage, ofList, ytdlp, onDisk, atTick, unseen, collected>>

LinkNext ==
  \/ Probe \/ \E v \in Video : Arrive(v) \/ Merge(v)
  \/ Exit \/ Kill \/ LookAtDir \/ Waited \/ Collect \/ Abort
LinkSpec == LinkInit /\ [][LinkNext]_linkVars

----------------------------------------------------------------------------
\* The variables have the types the code gives them.
LinkTypeOK ==
  /\ linkStage \in {"probe", "download", "collect", "complete", "failed"}
  /\ ytdlp \in {"off", "running", "exited", "broke", "killed"}
  /\ got \in [Video -> 0 .. ItemBytes] /\ file \in [Video -> {"none", "stream", "whole"}]
  /\ unseen \in 0 .. TickBytes /\ still \in 0 .. StallTicks + 1
  /\ collected \subseteq Video /\ (linkStage \in {"collect", "complete"} => ytdlp # "running")

\* A download is over the plan's limit by no more than what came after the last look, although
\* neither the end of the process nor the publication asks for the limit.
OverrunIsOneTick ==
  linkStage = "complete" /\ MaxBytes > 0 => dirSize <= MaxBytes + TickBytes

\* A link to one video publishes that video merged and whole: a stream without its sound is
\* taken for a video only out of a list, whose errors are ignored.
UnmergedOnlyInLists ==
  linkStage = "complete" /\ ~ofList => \A v \in collected : file[v] = "whole" /\ got[v] = ItemBytes
=============================================================================
