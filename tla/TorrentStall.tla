---------------------------- MODULE TorrentStall ----------------------------
(***************************************************************************)
(* One torrent between two polls (drive, onMetadata and recoverStall of    *)
(* ingest/internal/torrent): how long it is waited for, when it is         *)
(* restarted, and when it is given up.                                     *)
(*                                                                         *)
(* The only clock is updated_at of the row, which every write of the row   *)
(* sets back, and the only memory of a restart is the row's error text.    *)
(*                                                                         *)
(* Abstractions: the age of updated_at is the number of the code's         *)
(* thresholds it has passed; nobody else writes the row (TorrentRunner);   *)
(* reannouncing changes nothing modelled; a stuck last piece is a stall.   *)
(***************************************************************************)
EXTENDS Integers

\* The thresholds: 15 minutes, an hour, two hours, four hours.
Quarter == 1
Hour    == 2
TwoHours == 3
FourHours == 4

VARIABLES
  torrent,     \* its state in the engine
  waiting,     \* the row is still a download; "over" with files, "given up" without
  note,        \* jobs.error: "", "stalled" or "restarting"
  named,       \* jobs.files is filled
  quiet,       \* thresholds passed since updated_at
  restarts     \* how often a stall has been restarted since it last moved (2: oftener)

stallVars == <<torrent, waiting, note, named, quiet, restarts>>

StallFresh ==
  /\ torrent = "meta"
  /\ note = "" /\ named = FALSE /\ quiet = 0 /\ restarts = 0
StallInit == StallFresh /\ waiting = "yes"

\* Another piece arrives, the peers leave, the torrent ends.  "stopped" is a torrent that
\* has received its metadata and waits to be resumed.
EngineMoves ==
  CASE torrent = "meta"    -> {"stopped"}
    [] torrent = "moving"  -> {"stalled", "done", "broken"}
    [] torrent = "stalled" -> {"moving"}
    [] OTHER               -> {}

TorrentMoves ==
  /\ waiting = "yes"
  /\ torrent' \in EngineMoves
  /\ restarts' = IF torrent' = "moving" THEN 0 ELSE restarts
  /\ UNCHANGED <<waiting, note, named, quiet>>

TimePasses ==
  /\ waiting = "yes" /\ quiet < FourHours
  /\ quiet' = quiet + 1
  /\ UNCHANGED <<torrent, waiting, note, named, restarts>>

GiveUp == /\ waiting' = "given up" /\ note' = "" /\ quiet' = 0
          /\ UNCHANGED <<torrent, named, restarts>>

\* onMetadata: the first poll that sees a size.  The torrent is resumed (the answer is not
\* looked at) unless it is larger than the plan allows.
DriveMetadata ==
  /\ waiting = "yes" /\ torrent \notin {"meta", "broken"} /\ ~named
  /\ \/ GiveUp
     \/ /\ named' = TRUE /\ quiet' = 0
        /\ torrent' \in IF torrent = "stopped" THEN {"stopped", "moving"} ELSE {torrent}
        /\ UNCHANGED <<waiting, note, restarts>>

\* Its pieces come again, or it is broken: error, missingFiles.
DriveMoving ==
  /\ waiting = "yes" /\ torrent = "moving" /\ note = "stalled"
  /\ note' = "" /\ quiet' = 0
  /\ UNCHANGED <<torrent, waiting, named, restarts>>

DriveBroken == waiting = "yes" /\ torrent = "broken" /\ GiveUp

DriveDone ==
  /\ waiting = "yes" /\ torrent = "done" /\ named
  /\ waiting' = "over"
  /\ UNCHANGED <<torrent, note, named, quiet, restarts>>

\* recoverStall.
DriveNoMetadata == waiting = "yes" /\ torrent = "meta" /\ quiet >= Quarter /\ GiveUp
Stalled == waiting = "yes" /\ torrent = "stalled" /\ named
DriveNoPeers == Stalled /\ quiet = FourHours /\ GiveUp

Restart ==
  /\ note' = "restarting" /\ quiet' = 0 /\ restarts' = IF restarts = 0 THEN 1 ELSE 2
  /\ UNCHANGED <<torrent, waiting, named>>

\* Bug: a torrent is restarted every two hours.
DriveRestartAgain == Stalled /\ quiet = TwoHours /\ Restart
DriveRestart == Stalled /\ quiet = TwoHours /\ note # "restarting" /\ Restart

\* Bug: the note takes the restart's place.
DriveStalledOver ==
  /\ Stalled /\ quiet \in {Hour, TwoHours} /\ note # "stalled"
  /\ note' = "stalled" /\ quiet' = 0
  /\ UNCHANGED <<torrent, waiting, named, restarts>>
DriveStalled ==
  /\ Stalled /\ quiet = Hour /\ note = ""
  /\ note' = "stalled" /\ quiet' = 0
  /\ UNCHANGED <<torrent, waiting, named, restarts>>

Poll == \/ DriveMetadata \/ DriveMoving \/ DriveBroken \/ DriveDone \/ DriveNoMetadata
        \/ DriveNoPeers \/ DriveRestart \/ DriveStalled

StallNext == TorrentMoves \/ TimePasses \/ Poll

\* The poll comes every 15 seconds, far oftener than a threshold passes: it sees the torrent
\* at every threshold.
StallFairness == WF_stallVars(TimePasses) /\ WF_stallVars(Poll)

StallSpec == StallInit /\ [][StallNext]_stallVars /\ StallFairness

-----------------------------------------------------------------------------
StallTypeOK ==
  /\ torrent \in {"meta", "stopped", "moving", "stalled", "done", "broken"}
  /\ waiting \in {"yes", "over", "given up"} /\ note \in {"", "stalled", "restarting"}
  /\ named \in BOOLEAN /\ quiet \in 0 .. FourHours /\ restarts \in 0 .. 2

\* A stall is restarted once before it is given up, however its notes and clock are reset.
RestartedOnce == restarts <= 1

\* A torrent without peers, or without metadata, is given up: the clock that every write
\* of the row sets back runs out all the same.
StuckEnds == \A t \in {"stalled", "meta"} : torrent = t /\ waiting = "yes" ~> torrent # t \/ waiting # "yes"
=============================================================================
