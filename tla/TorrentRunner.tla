--------------------------- MODULE TorrentRunner ---------------------------
(***************************************************************************)
(* Torrents of the queue in qBittorrent (ingest/internal/torrent): what    *)
(* the torrent branch of process hands over, the poll that drives every    *)
(* downloading row, the goroutines that finalise a finished torrent, the   *)
(* watch on seeds, the removal on JobDeleted and the reaping of orphans.   *)
(*                                                                         *)
(* The engine is another process whose torrents move by themselves; the    *)
(* rows are written whole from copies read earlier; and a set of hashes in *)
(* memory, without owners, says which are being worked on.                 *)
(*                                                                         *)
(* Abstractions: one row per content (Dispatch has the siblings); when a   *)
(* torrent is given up, and what a poll writes about it, is left open here *)
(* and is the subject of TorrentStall; the two runners share one engine,   *)
(* as by default.                                                          *)
(***************************************************************************)
EXTENDS Integers, FiniteSets, Sequences

CONSTANTS
  Hash,          \* info hashes
  Fin,           \* goroutines of finalize
  MaxSubmit,     \* bound on the rows ever created and retried for a content
  MaxStop,       \* bound on restarts
  NoHash

ASSUME TorrentAssumption ==
  /\ MaxSubmit \in Nat /\ MaxStop \in Nat
  /\ IsFiniteSet(Fin)
  /\ NoHash \notin Hash

Runner == {"torrin", "torrin-seed"}      \* by their qBittorrent categories

Active  == {"pending", "downloading", "publishing", "seeding"}
RowType == [st : Active \cup {"none", "failed", "complete"},
            seed : BOOLEAN, id : 0 .. MaxSubmit]

\* A torrent's state in the engine; "absent" is no torrent.
Torrents == {"absent", "going", "done"}

\* Steps of a process run, of a finalisation.
RunPc == {"idle", "source", "publish", "release", "usenet", "start", "fail"}
FinPc == {"idle", "files", "publish", "seeding", "delete", "end"}
HoldsHash == {"source", "publish", "release"}

VARIABLES
  row, tries,              \* the jobs table; rows created and retries so far
  engine, category,        \* qBittorrent
  assigned, removed,       \* messages JobAssigned and JobDeleted in transit
  inflight,                \* per runner: the hashes being worked on
  run, copy, outcome,      \* per hash: the process run, its copy of the row, how its
                           \* source ended
  listed,                  \* per runner: the rows its poll has listed and not yet driven
  fin, finHash, finRow,    \* the finalisations
  reap, orphans, keep,     \* a pass of ReapOrphans: its next listing, torrents, hashes
  seedCall,                \* createSeedJob between the engine and the row
  stops,
  robbed,                  \* hashes whose mark a removal took from its holder
  steady                   \* hashes active ever since the pass of ReapOrphans began

torrentVars == <<row, tries, engine, category, assigned, removed, inflight, run, copy,
                 outcome, listed, fin, finHash, finRow, reap, orphans, keep,
                 seedCall, stops, robbed, steady>>
rowVars  == <<row, tries>>
engVars  == <<engine, category>>
msgVars  == <<assigned, removed>>
runVars  == <<run, copy, outcome>>
finVars  == <<fin, finHash, finRow>>
reapVars == <<reap, orphans, keep>>
bounded  == <<stops>>

NoRow == [st |-> "none", seed |-> FALSE, id |-> 0]

Driver(r) == IF r.seed THEN "torrin-seed" ELSE "torrin"

\* Who has marked a hash for a runner: a run of process (always the first runner's), the
\* finalisations.
FinsOf(r, h) == {f \in Fin : fin[f] # "idle" /\ finHash[f] = h /\ Driver(finRow[f]) = r}
RunHolds(r, h) == r = "torrin" /\ run[h] \in HoldsHash
Holders(r, h) == Cardinality(FinsOf(r, h)) + IF RunHolds(r, h) THEN 1 ELSE 0

\* The rows that have been active and gone only forward since ReapOrphans began.
Rank(st) == CASE st = "pending" -> 1 [] st = "downloading" -> 2 [] st = "publishing" -> 3
              [] st = "seeding" -> 4 [] OTHER -> 0
Steady(rows) == {h \in steady : rows[h].st \in Active /\ Rank(rows[h].st) >= Rank(row[h].st)}
WriteRows(rows) == /\ row' = rows
                   /\ steady' = Steady(rows)

\* UPDATE jobs SET ... WHERE id: the copy, over whatever the row has become.
Written(h, r) == IF row[h].st # "none" /\ row[h].id = r.id
                 THEN [row EXCEPT ![h] = r] ELSE row
Update(h, r)  == WriteRows(Written(h, r))

\* Publisher.complete: the rows of the content, as they are, but for failed ones.
Completed(h) == IF row[h].st \in Active
                THEN [row EXCEPT ![h].st = "complete"]
                ELSE row

TorrentInit ==
  /\ row = [h \in Hash |-> NoRow]
  /\ tries = [h \in Hash |-> 0]
  /\ engine = [h \in Hash |-> "absent"]
  /\ category = [h \in Hash |-> "torrin"]
  /\ assigned = {} /\ removed = {}
  /\ inflight = [r \in Runner |-> {}]
  /\ run = [h \in Hash |-> "idle"]
  /\ copy = [h \in Hash |-> NoRow]
  /\ outcome = [h \in Hash |-> ""]
  /\ listed = [r \in Runner |-> [h \in Hash |-> NoRow]]
  /\ fin = [f \in Fin |-> "idle"]
  /\ finHash = [f \in Fin |-> NoHash]
  /\ finRow = [f \in Fin |-> NoRow]
  /\ reap = [at |-> 0, runner |-> "torrin"]
  /\ orphans = {} /\ keep = {}
  /\ seedCall = {}
  /\ stops = 0
  /\ robbed = {} /\ steady = {}

-----------------------------------------------------------------------------
(* Requests.                                                               *)

\* A new row, assigned to this worker: a magnet, or a .torrent staged in the store.
Submit(h) ==
  /\ row[h].st \in {"none", "failed"}
  /\ tries[h] < MaxSubmit
  /\ WriteRows([row EXCEPT ![h] = [NoRow EXCEPT !.st = "pending", !.id = tries[h] + 1]])
  /\ tries' = [tries EXCEPT ![h] = @ + 1]
  /\ assigned' = assigned \cup {h}
  /\ UNCHANGED <<engVars, removed, inflight, runVars, listed, finVars, reapVars, seedCall, bounded, robbed>>

\* createSeedJob: the torrent first, the row afterwards.
SeedAdd(h) ==
  /\ row[h].st \in {"none", "failed"} /\ tries[h] < MaxSubmit
  /\ h \notin seedCall
  /\ seedCall' = seedCall \cup {h}
  /\ engine' = IF engine[h] = "absent" THEN [engine EXCEPT ![h] = "going"] ELSE engine
  /\ category' = IF engine[h] = "absent" THEN [category EXCEPT ![h] = "torrin-seed"] ELSE category
  /\ UNCHANGED <<rowVars, msgVars, inflight, runVars, listed, finVars, reapVars, bounded, robbed, steady>>

SeedCreate(h) ==
  /\ h \in seedCall
  /\ seedCall' = seedCall \ {h}
  /\ \/ /\ tries[h] < MaxSubmit /\ row[h].st \in {"none", "failed"}
        /\ WriteRows([row EXCEPT ![h] = [NoRow EXCEPT !.st = "downloading", !.seed = TRUE,
                                                      !.id = tries[h] + 1]])
        /\ tries' = [tries EXCEPT ![h] = @ + 1]
     \/ UNCHANGED <<rowVars, steady>>          \* Create fails: the torrent stays behind
  /\ UNCHANGED <<engVars, msgVars, inflight, runVars, listed, finVars, reapVars, bounded, robbed>>

\* deleteJob: JobDeleted for an active row; a seeding one is refused.
DeleteTorrent(h) ==
  /\ row[h].st \notin {"none", "seeding"}
  /\ WriteRows([row EXCEPT ![h] = NoRow])
  /\ removed' = IF row[h].st \in Active THEN removed \cup {h} ELSE removed
  /\ UNCHANGED <<tries, engVars, assigned, inflight, runVars, listed, finVars, reapVars, seedCall, bounded, robbed>>

\* Remove, for both runners: the mark goes, whoever holds it, and the torrent.
RemoveTorrent(h) ==
  /\ h \in removed
  /\ removed' = removed \ {h}
  /\ \/ /\ inflight' = [r \in Runner |-> inflight[r] \ {h}]
        /\ robbed' = IF \E r \in Runner : Holders(r, h) > 0 THEN robbed \cup {h} ELSE robbed
        /\ engine' = [engine EXCEPT ![h] = "absent"]
     \/ UNCHANGED <<inflight, robbed, engine>>           \* Login fails
  /\ UNCHANGED <<rowVars, category, assigned, runVars, listed, finVars, reapVars, seedCall, bounded, steady>>

-----------------------------------------------------------------------------
(* process, for a torrent: one run per hash (Dispatch!OneDownloadPerHash).  *)

RunIdle(h) == /\ run' = [run EXCEPT ![h] = "idle"]
              /\ copy' = [copy EXCEPT ![h] = NoRow]
              /\ outcome' = [outcome EXCEPT ![h] = ""]

\* Bug: Hold stores the mark whoever holds it.
RunHoldAnyway(h) ==
  /\ h \in assigned
  /\ assigned' = assigned \ {h}
  /\ IF run[h] = "idle" /\ row[h].st # "none"
     THEN /\ inflight' = [inflight EXCEPT !["torrin"] = @ \cup {h}]
          /\ copy' = [copy EXCEPT ![h] = [row[h] EXCEPT !.st = "downloading"]]
          /\ Update(h, [row[h] EXCEPT !.st = "downloading"])
          /\ run' = [run EXCEPT ![h] = "source"]
     ELSE UNCHANGED <<row, steady, inflight, copy, run>>
  /\ UNCHANGED <<tries, engVars, removed, outcome, listed, finVars, reapVars, seedCall, bounded, robbed>>
\* The message is dropped if the hash is run, the row gone, or the hash marked.
RunHold(h) ==
  /\ h \in assigned
  /\ assigned' = assigned \ {h}
  /\ IF run[h] = "idle" /\ row[h].st # "none" /\ h \notin inflight["torrin"]
     THEN /\ inflight' = [inflight EXCEPT !["torrin"] = @ \cup {h}]
          /\ copy' = [copy EXCEPT ![h] = [row[h] EXCEPT !.st = "downloading"]]
          /\ Update(h, [row[h] EXCEPT !.st = "downloading"])
          /\ run' = [run EXCEPT ![h] = "source"]
     ELSE UNCHANGED <<row, steady, inflight, copy, run>>
  /\ UNCHANGED <<tries, engVars, removed, outcome, listed, finVars, reapVars, seedCall, bounded, robbed>>

AddTorrent(h, st, cat) ==
  /\ engine' = IF engine[h] = "absent" THEN [engine EXCEPT ![h] = st] ELSE engine
  /\ category' = IF engine[h] = "absent" THEN [category EXCEPT ![h] = cat] ELSE category

\* The debrid services in turn, or the staged file: none has it, a verdict that ends the
\* job, or files to publish.
RunSource(h) ==
  /\ run[h] = "source"
  /\ \/ /\ ~copy[h].seed
        /\ AddTorrent(h, "going", "torrin")
        /\ outcome' = [outcome EXCEPT ![h] = "handed"]
        /\ run' = [run EXCEPT ![h] = "release"]
        /\ UNCHANGED <<row, steady, copy>>
     \/ /\ outcome' = [outcome EXCEPT ![h] = "terminal"]
        /\ run' = [run EXCEPT ![h] = "release"]
        /\ UNCHANGED <<engVars, row, steady, copy>>
     \/ /\ outcome' = [outcome EXCEPT ![h] = "miss"]
        /\ run' = [run EXCEPT ![h] = "release"]
        /\ UNCHANGED <<engVars, row, steady, copy>>
     \/ /\ copy' = [copy EXCEPT ![h].st = "publishing"]
        /\ Update(h, [copy[h] EXCEPT !.st = "publishing"])
        /\ run' = [run EXCEPT ![h] = "publish"]
        /\ UNCHANGED <<engVars, outcome>>
  /\ UNCHANGED <<tries, msgVars, inflight, listed, finVars, reapVars, seedCall, bounded, robbed>>

\* The rest of Publish: complete, or an error (only wrong content is terminal).
RunPublish(h) ==
  /\ run[h] = "publish"
  /\ run' = [run EXCEPT ![h] = "release"]
  /\ \/ /\ WriteRows(Completed(h))
        /\ outcome' = [outcome EXCEPT ![h] = "handed"]
     \/ /\ \E o \in {"error", "terminal"} : outcome' = [outcome EXCEPT ![h] = o]
        /\ UNCHANGED <<row, steady>>
  /\ UNCHANGED <<tries, engVars, msgVars, inflight, copy, listed, finVars, reapVars, seedCall, bounded, robbed>>

\* The mark is given back before what follows; after an error of Publish the row stays
\* "publishing", and the usenet fallback is not tried.
RunRelease(h) ==
  /\ run[h] = "release"
  /\ inflight' = [inflight EXCEPT !["torrin"] = @ \ {h}]
  /\ robbed' = IF Holders("torrin", h) = 1 /\ Holders("torrin-seed", h) = 0 THEN robbed \ {h} ELSE robbed
  /\ \/ outcome[h] = "handed" /\ RunIdle(h)
     \/ /\ outcome[h] # "handed"
        /\ run' = [run EXCEPT ![h] = CASE outcome[h] = "terminal" -> "fail"
                                       [] outcome[h] = "miss" /\ ~copy[h].seed -> "usenet"
                                       [] OTHER -> "start"]
        /\ UNCHANGED <<copy, outcome>>
  /\ UNCHANGED <<rowVars, engVars, msgVars, listed, finVars, reapVars, seedCall, bounded, steady>>

\* UsenetFallback.Try: the content from Usenet, published, or nothing.
RunUsenet(h) ==
  /\ run[h] = "usenet"
  /\ \/ WriteRows(Completed(h)) /\ RunIdle(h)
     \/ /\ run' = [run EXCEPT ![h] = "start"]
        /\ \/ UNCHANGED <<row, steady, copy>>
           \/ /\ copy' = [copy EXCEPT ![h].st = "publishing"]
              /\ Update(h, [copy[h] EXCEPT !.st = "publishing"])
        /\ UNCHANGED outcome
  /\ UNCHANGED <<tries, engVars, msgVars, inflight, listed, finVars, reapVars, seedCall, bounded, robbed>>

\* tr.Start: the magnet goes to the engine, unless it answers with an error.  A seed has
\* no magnet: the engine refuses it.
RunStart(h) ==
  /\ run[h] = "start"
  /\ \/ ~copy[h].seed /\ AddTorrent(h, "going", "torrin") /\ RunIdle(h)
     \/ run' = [run EXCEPT ![h] = "fail"] /\ UNCHANGED <<engVars, copy, outcome>>
  /\ UNCHANGED <<rowVars, msgVars, inflight, listed, finVars, reapVars, seedCall, bounded, robbed, steady>>

\* Bug: the row is left as it is.
RunFailQuiet(h) ==
  /\ run[h] = "fail" /\ RunIdle(h)
  /\ UNCHANGED <<rowVars, engVars, msgVars, inflight, listed, finVars, reapVars, seedCall, bounded, robbed, steady>>
RunFail(h) ==
  /\ run[h] = "fail"
  /\ Update(h, [copy[h] EXCEPT !.st = "failed"])
  /\ RunIdle(h)
  /\ UNCHANGED <<tries, engVars, msgVars, inflight, listed, finVars, reapVars, seedCall, bounded, robbed>>

\* The reconciliation re-assigns a row nobody runs, but for a torrent being downloaded.
ReconcileTorrent(h) ==
  /\ row[h].st \in {"pending", "publishing"} /\ run[h] = "idle" /\ h \notin assigned
  /\ assigned' = assigned \cup {h}
  /\ UNCHANGED <<rowVars, engVars, removed, inflight, runVars, listed, finVars, reapVars, seedCall, bounded, robbed, steady>>

-----------------------------------------------------------------------------
(* poll: the downloading rows of a runner, each driven by what the engine  *)
(* says of it.                                                             *)

Listed(r) == {h \in Hash : listed[r][h].st # "none"}
Unlist(r, h) == listed' = [listed EXCEPT ![r][h] = NoRow]

PollList(r) ==
  /\ Listed(r) = {}
  /\ listed' = [listed EXCEPT ![r] = [h \in Hash |->
       IF row[h].st = "downloading" /\ Driver(row[h]) = r THEN row[h] ELSE NoRow]]
  /\ listed' # listed
  /\ UNCHANGED <<rowVars, engVars, msgVars, inflight, runVars, finVars, reapVars, seedCall, bounded,
                 robbed, steady>>

DriveBusy(r, h) ==
  /\ h \in Listed(r) \cap inflight[r]
  /\ Unlist(r, h)
  /\ UNCHANGED <<rowVars, engVars, msgVars, inflight, runVars, finVars, reapVars, seedCall, bounded,
                 robbed, steady>>

Drivable(r, h) == h \in Listed(r) \ inflight[r] /\ Unlist(r, h)

\* A torrent that is not there, or of which the engine says nothing, is assigned again ...
Reassign(r, h) ==
  /\ Drivable(r, h)
  /\ assigned' = assigned \cup {h}
  /\ UNCHANGED <<rowVars, engVars, removed, inflight, runVars, finVars, reapVars, seedCall, bounded,
                 robbed, steady>>

\* ... unless its row has been written in the last 30 seconds.
ReassignLater(r, h) ==
  /\ Drivable(r, h)
  /\ UNCHANGED <<rowVars, engVars, msgVars, inflight, runVars, finVars, reapVars, seedCall, bounded,
                 robbed, steady>>

\* failDelete: an engine error, no peers, no metadata, or a size over the plan's.
DriveFails(r, h) ==
  /\ Drivable(r, h) /\ engine[h] # "absent"
  /\ Update(h, [listed[r][h] EXCEPT !.st = "failed"])
  /\ engine' = [engine EXCEPT ![h] = "absent"]
  /\ UNCHANGED <<tries, category, msgVars, inflight, runVars, finVars, reapVars, seedCall, bounded, robbed>>

\* Its metadata, its movement or its stall is written into the row.
DriveOn(r, h) ==
  /\ Drivable(r, h) /\ engine[h] # "absent"
  /\ Update(h, listed[r][h])
  /\ UNCHANGED <<tries, engVars, msgVars, inflight, runVars, finVars, reapVars, seedCall, bounded, robbed>>

\* finalize: a finished torrent is marked and has a goroutine.
Finalize(r, h) ==
  /\ Drivable(r, h) /\ engine[h] = "done"
  /\ inflight' = [inflight EXCEPT ![r] = @ \cup {h}]
  /\ \E f \in Fin :
       /\ fin[f] = "idle"
       /\ fin' = [fin EXCEPT ![f] = "files"]
       /\ finHash' = [finHash EXCEPT ![f] = h]
       /\ finRow' = [finRow EXCEPT ![f] = listed[r][h]]
  /\ UNCHANGED <<rowVars, engVars, msgVars, runVars, reapVars, seedCall, bounded, robbed, steady>>

-----------------------------------------------------------------------------
(* The goroutine of finalize.                                              *)

FinStep(f, pc) == fin' = [fin EXCEPT ![f] = pc] /\ UNCHANGED <<finHash, finRow>>
FinUpdate(f, st) == Update(finHash[f], [finRow[f] EXCEPT !.st = st])

\* Bug: an error returns before the mark's deferred removal.
FinFilesLeaves(f) ==
  /\ fin[f] = "files"
  /\ FinUpdate(f, "failed") /\ fin' = [fin EXCEPT ![f] = "idle"]
  /\ finHash' = [finHash EXCEPT ![f] = NoHash] /\ finRow' = [finRow EXCEPT ![f] = NoRow]
  /\ UNCHANGED <<tries, engVars, msgVars, inflight, runVars, listed, reapVars, seedCall, bounded, robbed>>
\* An error, a verdict that takes the torrent with it, or files to publish.
FinFiles(f) ==
  /\ fin[f] = "files"
  /\ \/ FinUpdate(f, "failed") /\ FinStep(f, "end")
     \/ FinUpdate(f, "failed") /\ FinStep(f, "delete")
     \/ FinUpdate(f, "publishing") /\ FinStep(f, "publish")
  /\ UNCHANGED <<tries, engVars, msgVars, inflight, runVars, listed, reapVars, seedCall, bounded, robbed>>

FinPublish(f) ==
  /\ fin[f] = "publish"
  /\ \/ FinUpdate(f, "failed") /\ FinStep(f, "end")
     \/ /\ WriteRows(Completed(finHash[f]))
        /\ FinStep(f, IF finRow[f].seed THEN "seeding" ELSE "delete")
  /\ UNCHANGED <<tries, engVars, msgVars, inflight, runVars, listed, reapVars, seedCall, bounded, robbed>>

FinSeeding(f) ==
  /\ fin[f] = "seeding"
  /\ FinUpdate(f, "seeding") /\ FinStep(f, "end")
  /\ UNCHANGED <<tries, engVars, msgVars, inflight, runVars, listed, reapVars, seedCall, bounded, robbed>>

FinDelete(f) ==
  /\ fin[f] = "delete"
  /\ engine' = [engine EXCEPT ![finHash[f]] = "absent"]
  /\ FinStep(f, "end")
  /\ UNCHANGED <<rowVars, category, msgVars, inflight, runVars, listed, reapVars, seedCall, bounded,
                 robbed, steady>>

\* The deferred calls: the mark goes, whoever's it is by now.
FinEnd(f) ==
  LET h == finHash[f]  r == Driver(finRow[f])
  IN  /\ fin[f] = "end"
      /\ inflight' = [inflight EXCEPT ![r] = @ \ {h}]
      /\ robbed' = IF \A q \in Runner : Holders(q, h) = (IF q = r THEN 1 ELSE 0)
                   THEN robbed \ {h} ELSE robbed
      /\ fin' = [fin EXCEPT ![f] = "idle"]
      /\ finHash' = [finHash EXCEPT ![f] = NoHash]
      /\ finRow' = [finRow EXCEPT ![f] = NoRow]
      /\ UNCHANGED <<rowVars, engVars, msgVars, runVars, listed, reapVars, seedCall, bounded, steady>>

-----------------------------------------------------------------------------
(* Seeds and orphans.                                                      *)

\* checkSeeds: the targets are met, or the engine has no such torrent, or an error.
WatchSeed(h) ==
  /\ row[h].st = "seeding"
  /\ engine' = [engine EXCEPT ![h] = "absent"] \/ UNCHANGED engine
  /\ WriteRows([row EXCEPT ![h].st = "complete"])
  /\ UNCHANGED <<tries, category, msgVars, inflight, runVars, listed, finVars, reapVars, seedCall,
                 bounded, robbed>>

\* Bug: the listings follow the rows backwards.
StatusOrderBack == <<"seeding", "publishing", "downloading", "pending">>
\* Bug: a finished row counts as active.
StatusOrderComplete == <<"pending", "downloading", "publishing", "complete">>
\* The statuses listed, in order (queued rows have no torrent; processing is publishing).
StatusOrder == <<"pending", "downloading", "publishing", "seeding">>

ReapList(r) ==
  /\ reap.at = 0
  /\ orphans' = {h \in Hash : engine[h] # "absent" /\ category[h] = r}
  /\ orphans' # {}
  /\ keep' = {}
  /\ reap' = [at |-> 1, runner |-> r]
  /\ steady' = {h \in Hash : row[h].st \in Active}
  /\ UNCHANGED <<rowVars, engVars, msgVars, inflight, runVars, listed, finVars, seedCall, bounded, robbed>>

ReapStatus ==
  /\ reap.at \in DOMAIN StatusOrder
  /\ keep' = keep \cup {h \in Hash : row[h].st = StatusOrder[reap.at]}
  /\ reap' = [reap EXCEPT !.at = @ + 1]
  /\ UNCHANGED <<rowVars, engVars, msgVars, inflight, runVars, listed, finVars, orphans, seedCall,
                 bounded, robbed, steady>>

Reaped(h) == h \notin keep /\ h \notin inflight[reap.runner]

ReapTorrent(h) ==
  /\ reap.at > Len(StatusOrder) /\ h \in orphans
  /\ orphans' = orphans \ {h}
  /\ engine' = IF Reaped(h) THEN [engine EXCEPT ![h] = "absent"] ELSE engine
  /\ IF orphans' = {}
     THEN keep' = {} /\ reap' = [at |-> 0, runner |-> "torrin"] /\ steady' = {}
     ELSE UNCHANGED <<keep, reap, steady>>
  /\ UNCHANGED <<rowVars, category, msgVars, inflight, runVars, listed, finVars, seedCall, bounded, robbed>>

-----------------------------------------------------------------------------
(* The engine, and a restart of the worker.                                *)

Engine(h) ==
  /\ engine[h] = "going"
  /\ engine' = [engine EXCEPT ![h] = "done"]
  /\ UNCHANGED <<rowVars, category, msgVars, inflight, runVars, listed, finVars, reapVars, seedCall,
                 bounded, robbed, steady>>

\* What was in memory is gone, and the messages of the meantime.
Stop ==
  /\ stops < MaxStop
  /\ stops' = stops + 1
  /\ assigned' = {} /\ removed' = {}
  /\ inflight' = [r \in Runner |-> {}]
  /\ run' = [h \in Hash |-> "idle"]
  /\ copy' = [h \in Hash |-> NoRow]
  /\ outcome' = [h \in Hash |-> ""]
  /\ listed' = [r \in Runner |-> [h \in Hash |-> NoRow]]
  /\ fin' = [f \in Fin |-> "idle"]
  /\ finHash' = [f \in Fin |-> NoHash]
  /\ finRow' = [f \in Fin |-> NoRow]
  /\ reap' = [at |-> 0, runner |-> "torrin"]
  /\ orphans' = {} /\ keep' = {}
  /\ robbed' = {} /\ steady' = {}
  /\ UNCHANGED <<rowVars, engVars, seedCall>>

RunStep(h) == \/ RunSource(h) \/ RunPublish(h) \/ RunRelease(h)
              \/ RunUsenet(h) \/ RunStart(h) \/ RunFail(h)
PollStep(r) ==
  \/ PollList(r)
  \/ \E h \in Hash : \/ DriveBusy(r, h) \/ Reassign(r, h) \/ ReassignLater(r, h)
                     \/ DriveFails(r, h) \/ DriveOn(r, h) \/ Finalize(r, h)
FinStepOf(f) == FinFiles(f) \/ FinPublish(f) \/ FinSeeding(f) \/ FinDelete(f) \/ FinEnd(f)
ReapStep(r) == ReapList(r) \/ (reap.runner = r /\ (ReapStatus \/ \E h \in Hash : ReapTorrent(h)))

TorrentNext ==
  \/ \E h \in Hash :
       \/ Submit(h) \/ SeedAdd(h) \/ SeedCreate(h) \/ DeleteTorrent(h) \/ RemoveTorrent(h)
       \/ RunHold(h) \/ RunStep(h) \/ ReconcileTorrent(h) \/ WatchSeed(h) \/ Engine(h)
  \/ \E r \in Runner : PollStep(r) \/ ReapStep(r)
  \/ \E f \in Fin : FinStepOf(f)
  \/ Stop

TorrentSpec == TorrentInit /\ [][TorrentNext]_torrentVars

-----------------------------------------------------------------------------
(* What the runner promises.                                               *)

TorrentTypeOK ==
  /\ row \in [Hash -> RowType] /\ tries \in [Hash -> 0 .. MaxSubmit]
  /\ engine \in [Hash -> Torrents] /\ category \in [Hash -> Runner]
  /\ assigned \subseteq Hash /\ removed \subseteq Hash
  /\ inflight \in [Runner -> SUBSET Hash]
  /\ run \in [Hash -> RunPc] /\ copy \in [Hash -> RowType]
  /\ outcome \in [Hash -> {"", "handed", "terminal", "miss", "error"}]
  /\ listed \in [Runner -> [Hash -> RowType]]
  /\ fin \in [Fin -> FinPc] /\ finHash \in [Fin -> Hash \cup {NoHash}] /\ finRow \in [Fin -> RowType]
  /\ reap \in [at : 0 .. 5, runner : Runner] /\ orphans \subseteq Hash /\ keep \subseteq Hash
  /\ seedCall \subseteq Hash /\ stops \in 0 .. MaxStop
  /\ robbed \subseteq Hash /\ steady \subseteq Hash

\* A mark has somebody who will take it away: no torrent is left aside for ever because of
\* a mark its run or its finalisation forgot (process, finalize, Remove).
NoStrayMark ==
  \A r \in Runner : \A h \in inflight[r] : Holders(r, h) > 0

\* A torrent is fetched, published and taken from the engine by one goroutine at a time,
\* unless a removal took the mark of one that was at it.
OneHolder ==
  \A r \in Runner, h \in Hash :
    h \notin robbed => Holders(r, h) <= 1 /\ (Holders(r, h) = 1 => h \in inflight[r])

\* A pass of ReapOrphans whose listings succeed spares every torrent whose row has been
\* active since it began, as long as the row only goes forward between two listings.
ReapSparesActive ==
  \A h \in orphans \cap steady : reap.at > Len(StatusOrder) => ~Reaped(h)

\* A download the engine has no torrent of is handed to it again, or ends.
MissingReturns ==
  \A h \in Hash :
    row[h].st = "downloading" /\ engine[h] = "absent" ~> row[h].st # "downloading" \/ engine[h] # "absent"

\* A torrent whose row is gone or has ended does not stay in the engine.
OrphanGoes ==
  \A h \in Hash :
    row[h].st \notin Active /\ engine[h] # "absent" ~> row[h].st \in Active \/ engine[h] = "absent"

=============================================================================
