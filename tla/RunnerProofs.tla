---------------------------- MODULE RunnerProofs ----------------------------
(***************************************************************************)
(* What the runners of the ingest node keep, for any torrents, runs,       *)
(* services, posts and links: what the torrent runner knows of the engine  *)
(* is true and a stuck torrent is restarted once; what a debrid service    *)
(* was given is taken back, and nothing of its owner's; a release unpacks  *)
(* one packaging, and goes to Usenet when every one is dead; a link stays  *)
(* within its limit; what is fetched by HTTP, from Usenet or through the   *)
(* bot is whole, or known not to be.  And what the payments give that the  *)
(* ingest runs are made for: what a plan has left is covered by what has   *)
(* been paid and not yet served, and a code is sold once, gives one        *)
(* period, is settled by its own partner and is guessed at no oftener than *)
(* the limiter says.  Each has its inductive invariant.                    *)
(***************************************************************************)
EXTENDS TorrentRunner, TorrentStall, DebridFetch, ReleaseRun, LinkRun, PartFile, UsenetFetch,
  TelegramBot, PlanLife, ResellerCodes, FiniteSetTheorems, SequenceTheorems, TLAPS

-----------------------------------------------------------------------------
(* The inductive invariants.                                               *)

\* A finalisation that runs has a hash, and a poll drives its own runner's rows: without the
\* second, a finalisation would be counted for a runner that did not mark its hash.
OwnRows ==
  /\ \A f \in Fin : fin[f] # "idle" => finHash[f] \in Hash
  /\ \A r \in Runner, h \in Hash : listed[r][h].st # "none" => Driver(listed[r][h]) = r

\* An unbroken active row has been listed, or its turn is still to come: the listings go
\* through the statuses in the order in which a row goes through them.
SteadyInv ==
  \A h \in steady : row[h].st \in Active /\ (h \in keep \/ Rank(row[h].st) >= reap.at)

MarkInv == OwnRows /\ NoStrayMark /\ OneHolder

TorrentIInv == TorrentTypeOK /\ MarkInv /\ SteadyInv

\* A torrent that has been restarted and has not moved since still says so in its row: the
\* text of the error is all that is left of the restart.
StallIInv ==
  /\ StallTypeOK
  /\ waiting = "yes" /\ restarts > 0 => note = "restarting"
  /\ restarts <= 1

-----------------------------------------------------------------------------
(* Stalls.                                                                 *)

\* The clock has a place in its range.
LEMMA ClockTypes == quiet \in 0..FourHours /\ quiet < FourHours => quiet + 1 \in 0..FourHours
  BY DEF FourHours

LEMMA NoClock == 0 \in 0..FourHours /\ 0 <= 1 /\ 0 \in 0..2 /\ 1 \in 0..2 /\ 1 <= 1 /\ ~(0 > 0)
  BY DEF FourHours

LEMMA NoRestart == restarts \in 0..2 /\ ~(restarts > 0) => restarts = 0
  OBVIOUS

LEMMA StallInitially == StallFresh /\ waiting \in {"yes", "over"} => StallIInv
  <1> SUFFICES ASSUME StallFresh, waiting \in {"yes", "over"} PROVE StallIInv
    OBVIOUS
  <1>1. torrent = "meta" /\ note = "" /\ named \in BOOLEAN /\ quiet = 0 /\ restarts = 0
    BY DEF StallFresh
  <1> QED
    BY ONLY <1>1, NoClock, waiting \in {"yes", "over"} DEF StallIInv, StallTypeOK

\* Whatever resets the notes and the clock, a stall is restarted once (finalize.go).
LEMMA StallStepKeeps == StallIInv /\ [StallNext]_stallVars => StallIInv'
  <1> SUFFICES ASSUME StallIInv, [StallNext]_stallVars PROVE StallIInv'
    OBVIOUS
  <1> USE DEF StallIInv, StallTypeOK
  <1>1. CASE TorrentMoves
    BY <1>1, NoClock, Zenon DEF TorrentMoves, EngineMoves
  <1>2. CASE TimePasses
    BY <1>2, ClockTypes DEF TimePasses
  <1>3. CASE Poll
    <2>1. CASE DriveMetadata
      BY <2>1, NoClock DEF DriveMetadata, GiveUp
    <2>2. CASE DriveRestart
      <3>1. waiting = "yes" /\ note # "restarting"
        BY <2>2 DEF DriveRestart, Stalled
      <3>3. restarts = 0
        BY <3>1, NoRestart
      <3> QED
        BY <2>2, <3>3, NoClock DEF DriveRestart, Stalled, Restart
    <2>5. CASE DriveStalled
      <3>1. waiting = "yes" /\ note # "restarting"
        BY <2>5 DEF DriveStalled, Stalled
      <3> QED
        BY <2>5, <3>1, NoClock DEF DriveStalled, Stalled
    <2>3. CASE DriveMoving \/ DriveDone
      BY <2>3, NoClock DEF DriveMoving, DriveDone
    <2>4. CASE DriveBroken \/ DriveNoMetadata \/ DriveNoPeers
      BY <2>4, NoClock DEF DriveBroken, DriveNoMetadata, DriveNoPeers, GiveUp
    <2> QED
      BY <1>3, <2>1, <2>2, <2>3, <2>4, <2>5 DEF Poll
  <1>4. CASE UNCHANGED stallVars
    BY <1>4 DEF stallVars
  <1> QED
    BY <1>1, <1>2, <1>3, <1>4 DEF StallNext

-----------------------------------------------------------------------------
(* Rows.                                                                   *)

LEMMA RowWith ==
  ASSUME NEW r \in RowType, NEW st \in Active \cup {"none", "failed", "complete"}
  PROVE  [r EXCEPT !.st = st] \in RowType
  BY DEF RowType

LEMMA NoRowType == NoRow \in RowType
  BY TorrentAssumption DEF NoRow, RowType

LEMMA WrittenTypes ==
  ASSUME row \in [Hash -> RowType], NEW h \in Hash, NEW r \in RowType
  PROVE  Written(h, r) \in [Hash -> RowType]
  BY DEF Written

LEMMA CompletedTypes ==
  ASSUME row \in [Hash -> RowType], NEW h \in Hash
  PROVE  Completed(h) \in [Hash -> RowType]
  BY DEF Completed, RowType

\* A write of the rows, by whomever, leaves only unbroken rows in steady.
LEMMA WriteKeeps ==
  ASSUME TorrentIInv, NEW rows \in [Hash -> RowType], WriteRows(rows), UNCHANGED <<keep, reap>>
  PROVE  row' \in [Hash -> RowType] /\ steady' \subseteq Hash /\ SteadyInv'
  <1>1. row' = rows /\ steady' \subseteq steady
    BY DEF WriteRows, Steady
  <1>2. \A h \in steady' : row'[h].st \in Active /\ Rank(row'[h].st) >= Rank(row[h].st)
    BY DEF WriteRows, Steady
  <1>3. \A h \in Hash : Rank(row'[h].st) \in 0..4 /\ Rank(row[h].st) \in 0..4
    BY DEF Rank
  <1>4. reap.at \in 0..5
    BY DEF TorrentIInv, TorrentTypeOK
  <1>5. steady \subseteq Hash /\ SteadyInv /\ keep' = keep /\ reap' = reap
    BY DEF TorrentIInv, TorrentTypeOK
  <1>6. SteadyInv'
    BY <1>1, <1>2, <1>3, <1>4, <1>5 DEF SteadyInv
  <1> QED
    BY <1>1, <1>5, <1>6

LEMMA SteadyRests ==
  ASSUME SteadyInv, UNCHANGED <<row, steady, keep, reap>>
  PROVE  SteadyInv'
  BY DEF SteadyInv

-----------------------------------------------------------------------------
(* Holders of marks.                                                       *)

LEMMA HolderTypes ==
  \A r \in Runner, h \in Hash :
    /\ IsFiniteSet(FinsOf(r, h)) /\ Cardinality(FinsOf(r, h)) \in Nat
    /\ Holders(r, h) \in Nat
  <1>1. \A r, h : FinsOf(r, h) \subseteq Fin
    BY DEF FinsOf
  <1>2. \A r, h : IsFiniteSet(FinsOf(r, h)) /\ Cardinality(FinsOf(r, h)) \in Nat
    BY <1>1, FS_Subset, FS_CardinalityType, TorrentAssumption
  <1> QED
    BY <1>2 DEF Holders

\* No step of a finalisation but its first and last changes who holds what.
LEMMA SameFins ==
  ASSUME \A f \in Fin : fin'[f] = "idle" <=> fin[f] = "idle", UNCHANGED <<finHash, finRow>>
  PROVE  \A r \in Runner, h \in Hash : FinsOf(r, h)' = FinsOf(r, h)
  BY DEF FinsOf

LEMMA SameHolders ==
  ASSUME \A f \in Fin : fin'[f] = "idle" <=> fin[f] = "idle", UNCHANGED <<finHash, finRow>>,
         \A h \in Hash : run'[h] \in HoldsHash <=> run[h] \in HoldsHash
  PROVE  \A r \in Runner, h \in Hash : Holders(r, h)' = Holders(r, h)
  BY SameFins DEF Holders, RunHolds

\* What a change of who is at work adds or takes: one holder of one hash.
OneMore(r, h) ==
  \A q \in Runner, g \in Hash :
    Holders(q, g)' = IF q = r /\ g = h THEN Holders(q, g) + 1 ELSE Holders(q, g)
OneLess(r, h) ==
  \A q \in Runner, g \in Hash :
    Holders(q, g)' = IF q = r /\ g = h THEN Holders(q, g) - 1 ELSE Holders(q, g)

LEMMA RunTakes ==
  ASSUME NEW h \in Hash, run \in [Hash -> RunPc], UNCHANGED finVars,
         run[h] \notin HoldsHash, run' = [run EXCEPT ![h] = "source"]
  PROVE  OneMore("torrin", h)
  <1>1. \A r \in Runner, g \in Hash : FinsOf(r, g)' = FinsOf(r, g)
    BY SameFins DEF finVars
  <1>2. \A r \in Runner, g \in Hash :
          RunHolds(r, g)' <=> RunHolds(r, g) \/ (r = "torrin" /\ g = h)
    BY DEF RunHolds, HoldsHash
  <1>3. ~RunHolds("torrin", h)
    BY DEF RunHolds
  <1> QED
    BY <1>1, <1>2, <1>3, HolderTypes DEF OneMore, Holders

LEMMA RunLeaves ==
  ASSUME NEW h \in Hash, NEW pc, run \in [Hash -> RunPc], UNCHANGED finVars,
         run[h] \in HoldsHash, pc \notin HoldsHash, run' = [run EXCEPT ![h] = pc]
  PROVE  OneLess("torrin", h)
  <1>1. \A r \in Runner, g \in Hash : FinsOf(r, g)' = FinsOf(r, g)
    BY SameFins DEF finVars
  <1>2. \A r \in Runner, g \in Hash :
          RunHolds(r, g)' <=> RunHolds(r, g) /\ ~(r = "torrin" /\ g = h)
    BY DEF RunHolds, HoldsHash
  <1>3. RunHolds("torrin", h)
    BY DEF RunHolds
  <1> QED
    BY <1>1, <1>2, <1>3, HolderTypes DEF OneLess, Holders

LEMMA FinTakes ==
  ASSUME NEW f \in Fin, NEW h \in Hash, NEW r \in Runner, NEW w, Driver(w) = r,
         fin \in [Fin -> FinPc], finHash \in [Fin -> Hash \cup {NoHash}], finRow \in [Fin -> RowType],
         fin[f] = "idle", fin' = [fin EXCEPT ![f] = "files"],
         finHash' = [finHash EXCEPT ![f] = h], finRow' = [finRow EXCEPT ![f] = w], UNCHANGED run
  PROVE  OneMore(r, h)
  <1>1. \A q \in Runner, g \in Hash :
          FinsOf(q, g)' = IF q = r /\ g = h THEN FinsOf(q, g) \cup {f} ELSE FinsOf(q, g)
    BY DEF FinsOf
  <1>2. f \notin FinsOf(r, h)
    BY DEF FinsOf
  <1>3. Cardinality(FinsOf(r, h) \cup {f}) = Cardinality(FinsOf(r, h)) + 1
    BY <1>2, HolderTypes, FS_AddElement
  <1>4. \A q \in Runner, g \in Hash : RunHolds(q, g)' <=> RunHolds(q, g)
    BY DEF RunHolds
  <1>5. Holders(r, h)' = Holders(r, h) + 1
    <2>1. FinsOf(r, h)' = FinsOf(r, h) \cup {f} /\ (RunHolds(r, h)' <=> RunHolds(r, h))
      BY <1>1, <1>4
    <2>2. Cardinality(FinsOf(r, h)) \in Nat
      BY HolderTypes
    <2> QED
      BY ONLY <2>1, <2>2, <1>3 DEF Holders
  <1>6. \A q \in Runner, g \in Hash : ~(q = r /\ g = h) => Holders(q, g)' = Holders(q, g)
    BY <1>1, <1>4 DEF Holders
  <1> QED
    BY <1>5, <1>6 DEF OneMore

LEMMA FinLeaves ==
  ASSUME NEW f \in Fin, NEW h \in Hash, NEW r \in Runner, NEW w,
         fin \in [Fin -> FinPc], finHash \in [Fin -> Hash \cup {NoHash}], finRow \in [Fin -> RowType],
         fin[f] # "idle", finHash[f] = h, Driver(finRow[f]) = r, fin' = [fin EXCEPT ![f] = "idle"],
         finHash' = [finHash EXCEPT ![f] = NoHash], finRow' = [finRow EXCEPT ![f] = w], UNCHANGED run
  PROVE  OneLess(r, h)
  <1>1. \A q \in Runner, g \in Hash :
          FinsOf(q, g)' = IF q = r /\ g = h THEN FinsOf(q, g) \ {f} ELSE FinsOf(q, g)
    BY DEF FinsOf
  <1>2. f \in FinsOf(r, h)
    BY DEF FinsOf
  <1>3. Cardinality(FinsOf(r, h) \ {f}) = Cardinality(FinsOf(r, h)) - 1
    BY <1>2, HolderTypes, FS_RemoveElement
  <1>4. \A q \in Runner, g \in Hash : RunHolds(q, g)' <=> RunHolds(q, g)
    BY DEF RunHolds
  <1>5. Holders(r, h)' = Holders(r, h) - 1
    <2>1. FinsOf(r, h)' = FinsOf(r, h) \ {f} /\ (RunHolds(r, h)' <=> RunHolds(r, h))
      BY <1>1, <1>4
    <2>2. Cardinality(FinsOf(r, h)) \in Nat
      BY HolderTypes
    <2> QED
      BY ONLY <2>1, <2>2, <1>3 DEF Holders
  <1>6. \A q \in Runner, g \in Hash : ~(q = r /\ g = h) => Holders(q, g)' = Holders(q, g)
    BY <1>1, <1>4 DEF Holders
  <1> QED
    BY <1>5, <1>6 DEF OneLess


-----------------------------------------------------------------------------
(* Marks.                                                                  *)

\* Nobody takes or leaves a hash.
AsHeld == \A r \in Runner, h \in Hash : Holders(r, h)' = Holders(r, h)

LEMMA MarksRest ==
  ASSUME TorrentIInv, AsHeld, UNCHANGED <<inflight, robbed>>
  PROVE  NoStrayMark' /\ OneHolder'
  <1> inflight \in [Runner -> SUBSET Hash]
    BY DEF TorrentIInv, TorrentTypeOK
  <1> QED
    BY DEF TorrentIInv, MarkInv, AsHeld, NoStrayMark, OneHolder

LEMMA MarkTaken ==
  ASSUME TorrentIInv, NEW r \in Runner, NEW h \in Hash, OneMore(r, h), h \notin inflight[r],
         inflight' = [inflight EXCEPT ![r] = @ \cup {h}], UNCHANGED robbed
  PROVE  NoStrayMark' /\ OneHolder'
  <1>1. inflight \in [Runner -> SUBSET Hash] /\ NoStrayMark /\ OneHolder
    BY DEF TorrentIInv, TorrentTypeOK, MarkInv
  <1>2. h \notin robbed => Holders(r, h) = 0
    BY <1>1, HolderTypes DEF OneHolder
  <1>3. \A q \in Runner : inflight'[q] = IF q = r THEN inflight[q] \cup {h} ELSE inflight[q]
    BY <1>1
  <1>4. NoStrayMark'
    BY <1>1, <1>3, HolderTypes DEF NoStrayMark, OneMore
  <1>5. OneHolder'
    BY <1>1, <1>2, <1>3, HolderTypes DEF OneHolder, OneMore
  <1> QED
    BY <1>4, <1>5

\* The mark goes with its holder; what a removal had done to the hash is over with the last.
LEMMA MarkGiven ==
  ASSUME TorrentIInv, NEW r \in Runner, NEW h \in Hash, OneLess(r, h), Holders(r, h) > 0,
         inflight' = [inflight EXCEPT ![r] = @ \ {h}],
         robbed' = robbed \/ (robbed' = robbed \ {h} /\ \A q \in Runner : Holders(q, h)' = 0)
  PROVE  NoStrayMark' /\ OneHolder'
  <1>1. inflight \in [Runner -> SUBSET Hash] /\ NoStrayMark /\ OneHolder
    BY DEF TorrentIInv, TorrentTypeOK, MarkInv
  <1>3. \A q \in Runner : inflight'[q] = IF q = r THEN inflight[q] \ {h} ELSE inflight[q]
    BY <1>1
  <1>4. NoStrayMark'
    BY <1>1, <1>3, HolderTypes DEF NoStrayMark, OneLess
  <1>5. OneHolder'
    <2> SUFFICES ASSUME NEW q \in Runner, NEW g \in Hash, g \notin robbed'
                 PROVE  Holders(q, g)' <= 1 /\ (Holders(q, g)' = 1 => g \in inflight'[q])
      BY DEF OneHolder
    <2>1. CASE g # h
      BY <2>1, <1>1, <1>3 DEF OneHolder, OneLess
    <2>2. CASE g = h /\ robbed' = robbed
      BY <2>2, <1>1, <1>3, HolderTypes DEF OneHolder, OneLess
    <2>3. CASE g = h /\ robbed' # robbed
      BY <2>3
    <2> QED
      BY <2>1, <2>2, <2>3
  <1> QED
    BY <1>4, <1>5

LEMMA MarkRobbed ==
  ASSUME TorrentIInv, NEW h \in Hash, AsHeld,
         inflight' = [r \in Runner |-> inflight[r] \ {h}],
         robbed' = IF \E r \in Runner : Holders(r, h) > 0 THEN robbed \cup {h} ELSE robbed
  PROVE  NoStrayMark' /\ OneHolder'
  <1>1. inflight \in [Runner -> SUBSET Hash] /\ NoStrayMark /\ OneHolder
    BY DEF TorrentIInv, TorrentTypeOK, MarkInv
  <1>2. NoStrayMark'
    BY <1>1 DEF NoStrayMark, AsHeld
  <1>3. OneHolder'
    BY <1>1, HolderTypes DEF OneHolder, AsHeld
  <1> QED
    BY <1>2, <1>3

\* All that a step outside RunHold, Finalize, RunRelease, FinEnd, Remove and a restart does.
LEMMA MarkUntouched ==
  ASSUME TorrentIInv, UNCHANGED <<inflight, robbed, finHash, finRow>>,
         \A f \in Fin : fin'[f] = "idle" <=> fin[f] = "idle",
         \A h \in Hash : run'[h] \in HoldsHash <=> run[h] \in HoldsHash,
         \A r \in Runner, h \in Hash :
           listed'[r][h].st # "none" => listed'[r][h] = listed[r][h] \/ Driver(listed'[r][h]) = r
  PROVE  MarkInv'
  <1>1. AsHeld
    BY SameHolders DEF AsHeld
  <1>2. OwnRows'
    BY DEF OwnRows, TorrentIInv, MarkInv
  <1> QED
    BY <1>1, <1>2, MarksRest DEF MarkInv


-----------------------------------------------------------------------------
(* Types.                                                                  *)

LEMMA UpdateTypes ==
  ASSUME TorrentIInv, NEW h \in Hash, NEW r \in RowType, Update(h, r)
  PROVE  row' \in [Hash -> RowType] /\ steady' \subseteq Hash
  <1>1. Written(h, r) \in [Hash -> RowType]
    BY WrittenTypes DEF TorrentIInv, TorrentTypeOK
  <1> QED
    BY <1>1 DEF Update, WriteRows, Steady, TorrentIInv, TorrentTypeOK

LEMMA CompleteTypes ==
  ASSUME TorrentIInv, NEW h \in Hash, WriteRows(Completed(h))
  PROVE  row' \in [Hash -> RowType] /\ steady' \subseteq Hash
  <1>1. Completed(h) \in [Hash -> RowType]
    BY CompletedTypes DEF TorrentIInv, TorrentTypeOK
  <1> QED
    BY <1>1 DEF WriteRows, Steady, TorrentIInv, TorrentTypeOK

LEMMA AddTypes ==
  ASSUME TorrentIInv, NEW h \in Hash, AddTorrent(h, "going", "torrin")
  PROVE  engine' \in [Hash -> Torrents] /\ category' \in [Hash -> Runner]
  <1>1. engine \in [Hash -> Torrents] /\ category \in [Hash -> Runner]
    BY DEF TorrentIInv, TorrentTypeOK
  <1>2. "going" \in Torrents /\ "torrin" \in Runner
    BY DEF Torrents, Runner
  <1> QED
    BY <1>1, <1>2 DEF AddTorrent

Outcomes == {"", "handed", "terminal", "miss", "error"}

LEMMA RunPcs ==
  ASSUME TorrentIInv, NEW h \in Hash,
         UNCHANGED run \/ \E pc \in RunPc : run' = [run EXCEPT ![h] = pc]
  PROVE  run' \in [Hash -> RunPc]
  BY DEF TorrentIInv, TorrentTypeOK

LEMMA OutcomeTypes ==
  ASSUME TorrentIInv, NEW h \in Hash,
         UNCHANGED outcome \/ \E o \in Outcomes : outcome' = [outcome EXCEPT ![h] = o]
  PROVE  outcome' \in [Hash -> Outcomes]
  BY DEF TorrentIInv, TorrentTypeOK, Outcomes

LEMMA IdleTypes ==
  ASSUME TorrentIInv, NEW h \in Hash, RunIdle(h)
  PROVE  run' \in [Hash -> RunPc] /\ copy' \in [Hash -> RowType] /\ outcome' \in [Hash -> Outcomes]
  <1>1. "idle" \in RunPc /\ "" \in Outcomes
    BY DEF RunPc, Outcomes
  <1>2. copy' \in [Hash -> RowType]
    BY NoRowType DEF TorrentIInv, TorrentTypeOK, RunIdle
  <1> QED
    BY <1>1, <1>2, RunPcs, OutcomeTypes DEF RunIdle

LEMMA NextTry ==
  ASSUME TorrentIInv, NEW h \in Hash, tries[h] < MaxSubmit, tries' = [tries EXCEPT ![h] = @ + 1]
  PROVE  tries[h] + 1 \in 0 .. MaxSubmit /\ tries' \in [Hash -> 0 .. MaxSubmit]
  <1>1. tries \in [Hash -> 0 .. MaxSubmit]
    BY DEF TorrentIInv, TorrentTypeOK
  <1> QED
    BY <1>1, TorrentAssumption

LEMMA RequestTypes ==
  ASSUME TorrentIInv, NEW h \in Hash,
         Submit(h) \/ SeedAdd(h) \/ SeedCreate(h) \/ DeleteTorrent(h) \/ RemoveTorrent(h) \/ WatchSeed(h)
  PROVE  TorrentTypeOK'
  <1> USE DEF TorrentIInv, TorrentTypeOK, rowVars, engVars, msgVars, runVars, finVars, reapVars, bounded
  <1>1. CASE Submit(h)
    <2>1. tries[h] + 1 \in 0 .. MaxSubmit /\ tries' \in [Hash -> 0 .. MaxSubmit]
      BY <1>1, NextTry DEF Submit
    <2>2. [NoRow EXCEPT !.st = "pending", !.id = tries[h] + 1] \in RowType
      BY <2>1, NoRowType DEF NoRow, RowType, Active
    <2> QED
      BY <1>1, <2>1, <2>2 DEF Submit, WriteRows, Steady
  <1>2. CASE SeedAdd(h)
    BY <1>2 DEF SeedAdd, Torrents, Runner
  <1>3. CASE SeedCreate(h)
    <2>1. CASE UNCHANGED <<rowVars, steady>>
      BY <1>3, <2>1 DEF SeedCreate
    <2>2. CASE ~UNCHANGED <<rowVars, steady>>
      <3>1. tries[h] + 1 \in 0 .. MaxSubmit /\ tries' \in [Hash -> 0 .. MaxSubmit]
        BY <1>3, <2>2, NextTry DEF SeedCreate
      <3>2. [NoRow EXCEPT !.st = "downloading", !.seed = TRUE, !.id = tries[h] + 1] \in RowType
        BY <3>1, NoRowType DEF NoRow, RowType, Active
      <3>3. row' \in [Hash -> RowType] /\ steady' \subseteq steady
        <4>1. PICK w \in RowType : WriteRows([row EXCEPT ![h] = w])
          BY <1>3, <2>2, <3>2 DEF SeedCreate
        <4> QED
          BY <4>1 DEF WriteRows, Steady
      <3> QED
        BY <1>3, <3>1, <3>3 DEF SeedCreate
    <2> QED
      BY <2>1, <2>2
  <1>4. CASE DeleteTorrent(h)
    BY <1>4, NoRowType DEF DeleteTorrent, WriteRows, Steady
  <1>5. CASE RemoveTorrent(h)
    <2>0. inflight' = [r \in Runner |-> inflight[r] \ {h}] \/ inflight' = inflight
      BY <1>5 DEF RemoveTorrent
    <2>1. inflight' \in [Runner -> SUBSET Hash]
      <3>1. inflight \in [Runner -> SUBSET Hash]
        OBVIOUS
      <3> QED
        BY ONLY <2>0, <3>1
    <2>3. robbed' \subseteq Hash /\ removed' \subseteq Hash
      BY <1>5 DEF RemoveTorrent
    <2>2. engine' \in [Hash -> Torrents]
      BY <1>5 DEF RemoveTorrent, Torrents
    <2> QED
      BY <1>5, <2>1, <2>2, <2>3 DEF RemoveTorrent
  <1>6. CASE WatchSeed(h)
    <2>1. [row[h] EXCEPT !.st = "complete"] \in RowType
      BY RowWith
    <2>2. row' \in [Hash -> RowType] /\ steady' \subseteq Hash
      BY <1>6, <2>1 DEF WatchSeed, WriteRows, Steady
    <2>3. engine' \in [Hash -> Torrents]
      BY <1>6 DEF WatchSeed, Torrents
    <2> QED
      BY <1>6, <2>2, <2>3 DEF WatchSeed
  <1> QED
    BY <1>1, <1>2, <1>3, <1>4, <1>5, <1>6

LEMMA RunTypes ==
  ASSUME TorrentIInv, NEW h \in Hash, RunHold(h) \/ RunStep(h) \/ ReconcileTorrent(h)
  PROVE  TorrentTypeOK'
  <1> USE DEF TorrentIInv, TorrentTypeOK, Outcomes, rowVars, engVars, msgVars, runVars, finVars, reapVars, bounded
  <1>0. [row[h] EXCEPT !.st = "downloading"] \in RowType
        /\ [copy[h] EXCEPT !.st = "publishing"] \in RowType
        /\ [copy[h] EXCEPT !.st = "failed"] \in RowType
    BY RowWith DEF Active
  <1>1. CASE RunHold(h)
    <2>1. CASE UNCHANGED <<row, steady, inflight, copy, run>>
      BY <1>1, <2>1 DEF RunHold
    <2>2. CASE ~UNCHANGED <<row, steady, inflight, copy, run>>
      <3>1. row' \in [Hash -> RowType] /\ steady' \subseteq Hash
        BY <1>0, <1>1, <2>2, UpdateTypes DEF RunHold
      <3>2. run' \in [Hash -> RunPc]
        BY <1>1, <2>2, RunPcs DEF RunHold, RunPc
      <3>3. inflight' \in [Runner -> SUBSET Hash] /\ copy' \in [Hash -> RowType]
        <4>1. inflight' = [inflight EXCEPT !["torrin"] = @ \cup {h}]
              /\ copy' = [copy EXCEPT ![h] = [row[h] EXCEPT !.st = "downloading"]]
          BY <1>1, <2>2 DEF RunHold
        <4> QED
          BY <1>0, <4>1
      <3> QED
        BY <1>1, <3>1, <3>2, <3>3 DEF RunHold
    <2> QED
      BY <2>1, <2>2
  <1>2. CASE RunSource(h)
    <2>1. row' \in [Hash -> RowType] /\ steady' \subseteq Hash
      BY <1>0, <1>2, UpdateTypes DEF RunSource
    <2>2. engine' \in [Hash -> Torrents] /\ category' \in [Hash -> Runner]
      BY <1>2, AddTypes DEF RunSource
    <2>3. copy' \in [Hash -> RowType]
      BY <1>0, <1>2 DEF RunSource
    <2>4. run' \in [Hash -> RunPc] /\ outcome' \in [Hash -> Outcomes]
      BY <1>2, RunPcs, OutcomeTypes DEF RunSource, RunPc, Outcomes
    <2> QED
      BY <1>2, <2>1, <2>2, <2>3, <2>4 DEF RunSource
  <1>3. CASE RunPublish(h)
    <2>1. row' \in [Hash -> RowType] /\ steady' \subseteq Hash
      BY <1>3, CompleteTypes DEF RunPublish
    <2>2. run' \in [Hash -> RunPc] /\ outcome' \in [Hash -> Outcomes]
      BY <1>3, RunPcs, OutcomeTypes DEF RunPublish, RunPc, Outcomes
    <2> QED
      BY <1>3, <2>1, <2>2 DEF RunPublish
  <1>4. CASE RunRelease(h)
    <2>1. run' \in [Hash -> RunPc] /\ copy' \in [Hash -> RowType]
          /\ outcome' \in [Hash -> Outcomes]
      BY <1>4, IdleTypes, RunPcs DEF RunRelease, RunPc, Outcomes
    <2>2. inflight' \in [Runner -> SUBSET Hash] /\ robbed' \subseteq Hash
      BY <1>4 DEF RunRelease, Runner
    <2> QED
      BY <1>4, <2>1, <2>2 DEF RunRelease
  <1>5. CASE RunUsenet(h)
    <2>1. row' \in [Hash -> RowType] /\ steady' \subseteq Hash
      BY <1>0, <1>5, UpdateTypes, CompleteTypes DEF RunUsenet
    <2>2. run' \in [Hash -> RunPc] /\ copy' \in [Hash -> RowType]
          /\ outcome' \in [Hash -> Outcomes]
      <3>1. CASE RunIdle(h)
        BY <3>1, IdleTypes
      <3>2. CASE ~RunIdle(h)
        <4>1. copy' \in [Hash -> RowType]
          BY <1>0, <1>5, <3>2 DEF RunUsenet
        <4>2. run' = [run EXCEPT ![h] = "start"] /\ UNCHANGED outcome
          BY <1>5, <3>2 DEF RunUsenet
        <4> QED
          BY <4>1, <4>2, RunPcs DEF RunPc
      <3> QED
        BY <3>1, <3>2
    <2> QED
      BY <1>5, <2>1, <2>2 DEF RunUsenet
  <1>6. CASE RunStart(h)
    <2>1. engine' \in [Hash -> Torrents] /\ category' \in [Hash -> Runner]
      BY <1>6, AddTypes DEF RunStart
    <2>2. run' \in [Hash -> RunPc] /\ copy' \in [Hash -> RowType]
          /\ outcome' \in [Hash -> Outcomes]
      BY <1>6, IdleTypes, RunPcs DEF RunStart, RunPc, Outcomes
    <2> QED
      BY <1>6, <2>1, <2>2 DEF RunStart
  <1>7. CASE RunFail(h)
    <2>1. row' \in [Hash -> RowType] /\ steady' \subseteq Hash
      BY <1>0, <1>7, UpdateTypes DEF RunFail
    <2>2. run' \in [Hash -> RunPc] /\ copy' \in [Hash -> RowType]
          /\ outcome' \in [Hash -> Outcomes]
      BY <1>7, IdleTypes DEF RunFail
    <2> QED
      BY <1>7, <2>1, <2>2 DEF RunFail
  <1>8. CASE ReconcileTorrent(h)
    BY <1>8 DEF ReconcileTorrent
  <1> QED
    BY <1>1, <1>2, <1>3, <1>4, <1>5, <1>6, <1>7, <1>8 DEF RunStep


LEMMA PollTypes ==
  ASSUME TorrentIInv, NEW r \in Runner, PollStep(r)
  PROVE  TorrentTypeOK'
  <1> USE DEF TorrentIInv, TorrentTypeOK, Outcomes, rowVars, engVars, msgVars, runVars, finVars,
              reapVars, bounded
  <1>1. CASE PollList(r)
    BY <1>1, NoRowType DEF PollList
  <1>2. ASSUME NEW h \in Hash, Unlist(r, h)
        PROVE  listed' \in [Runner -> [Hash -> RowType]]
    BY <1>2, NoRowType DEF Unlist
  <1>3. \A h \in Hash : listed[r][h] \in RowType /\ [listed[r][h] EXCEPT !.st = "failed"] \in RowType
    BY RowWith
  <1>4. ASSUME NEW h \in Hash, DriveBusy(r, h) \/ Reassign(r, h) \/ ReassignLater(r, h)
        PROVE  TorrentTypeOK'
    BY <1>2, <1>4 DEF DriveBusy, Reassign, ReassignLater, Drivable
  <1>5. ASSUME NEW h \in Hash, DriveFails(r, h)
        PROVE  TorrentTypeOK'
    <2>1. row' \in [Hash -> RowType] /\ steady' \subseteq Hash
      BY <1>3, <1>5, UpdateTypes DEF DriveFails
    <2>2. listed' \in [Runner -> [Hash -> RowType]]
      BY <1>2, <1>5 DEF DriveFails, Drivable
    <2>3. engine' \in [Hash -> Torrents]
      BY <1>5 DEF DriveFails, Torrents
    <2> QED
      BY <1>5, <2>1, <2>2, <2>3 DEF DriveFails
  <1>6. ASSUME NEW h \in Hash, DriveOn(r, h)
        PROVE  TorrentTypeOK'
    <2>1. row' \in [Hash -> RowType] /\ steady' \subseteq Hash
      BY <1>3, <1>6, UpdateTypes DEF DriveOn
    <2>2. listed' \in [Runner -> [Hash -> RowType]]
      BY <1>2, <1>6 DEF DriveOn, Drivable
    <2> QED
      BY <1>6, <2>1, <2>2 DEF DriveOn
  <1>7. ASSUME NEW h \in Hash, Finalize(r, h)
        PROVE  TorrentTypeOK'
    <2>1. listed' \in [Runner -> [Hash -> RowType]]
      BY <1>2, <1>7 DEF Finalize, Drivable
    <2>2. fin' \in [Fin -> FinPc] /\ finHash' \in [Fin -> Hash \cup {NoHash}] /\ finRow' \in [Fin -> RowType]
      <3>1. PICK f \in Fin : /\ fin' = [fin EXCEPT ![f] = "files"]
                             /\ finHash' = [finHash EXCEPT ![f] = h]
                             /\ finRow' = [finRow EXCEPT ![f] = listed[r][h]]
        BY <1>7 DEF Finalize
      <3>2. fin' \in [Fin -> FinPc] /\ finHash' \in [Fin -> Hash \cup {NoHash}]
        BY <3>1 DEF FinPc
      <3>3. finRow' \in [Fin -> RowType]
        BY <1>3, <3>1
      <3> QED
        BY <3>2, <3>3
    <2>3. inflight' = [inflight EXCEPT ![r] = @ \cup {h}]
      BY <1>7 DEF Finalize
    <2>4. inflight' \in [Runner -> SUBSET Hash]
      BY <2>3
    <2> QED
      BY <1>7, <2>1, <2>2, <2>4 DEF Finalize
  <1> QED
    BY <1>1, <1>4, <1>5, <1>6, <1>7 DEF PollStep

LEMMA FinUpdateTypes ==
  ASSUME TorrentIInv, NEW f \in Fin, fin[f] # "idle",
         NEW st \in Active \cup {"none", "failed", "complete"}, FinUpdate(f, st)
  PROVE  row' \in [Hash -> RowType] /\ steady' \subseteq Hash
  <1>1. finHash[f] \in Hash /\ [finRow[f] EXCEPT !.st = st] \in RowType
    BY RowWith DEF TorrentIInv, TorrentTypeOK, MarkInv, OwnRows
  <1> QED
    BY <1>1, UpdateTypes DEF FinUpdate

LEMMA FinTypes ==
  ASSUME TorrentIInv, NEW f \in Fin, FinStepOf(f)
  PROVE  TorrentTypeOK'
  <1> USE DEF TorrentIInv, TorrentTypeOK, Outcomes, rowVars, engVars, msgVars, runVars, finVars,
              reapVars, bounded
  <1>1. ASSUME NEW pc \in FinPc, FinStep(f, pc)
        PROVE  fin' \in [Fin -> FinPc] /\ UNCHANGED <<finHash, finRow>>
    BY <1>1 DEF FinStep
  <1>2. {"end", "delete", "publish", "seeding"} \subseteq FinPc
        /\ {"failed", "publishing", "seeding"} \subseteq Active \cup {"none", "failed", "complete"}
    BY DEF FinPc, Active
  <1>3. CASE FinFiles(f)
    <2>1. row' \in [Hash -> RowType] /\ steady' \subseteq Hash
      BY <1>2, <1>3, FinUpdateTypes DEF FinFiles
    <2>2. fin' \in [Fin -> FinPc] /\ UNCHANGED <<finHash, finRow>>
      BY <1>1, <1>2, <1>3 DEF FinFiles
    <2> QED
      BY <1>3, <2>1, <2>2 DEF FinFiles
  <1>4. CASE FinPublish(f)
    <2>0. finHash[f] \in Hash
      BY <1>4 DEF FinPublish, MarkInv, OwnRows
    <2>1. row' \in [Hash -> RowType] /\ steady' \subseteq Hash
      BY <2>0, <1>2, <1>4, FinUpdateTypes, CompleteTypes DEF FinPublish
    <2>2. fin' \in [Fin -> FinPc] /\ UNCHANGED <<finHash, finRow>>
      BY <1>1, <1>2, <1>4 DEF FinPublish
    <2> QED
      BY <1>4, <2>1, <2>2 DEF FinPublish
  <1>5. CASE FinSeeding(f)
    <2>1. row' \in [Hash -> RowType] /\ steady' \subseteq Hash
      BY <1>2, <1>5, FinUpdateTypes DEF FinSeeding
    <2>2. fin' \in [Fin -> FinPc] /\ UNCHANGED <<finHash, finRow>>
      BY <1>1, <1>2, <1>5 DEF FinSeeding
    <2> QED
      BY <1>5, <2>1, <2>2 DEF FinSeeding
  <1>6. CASE FinDelete(f)
    <2>1. fin' \in [Fin -> FinPc] /\ UNCHANGED <<finHash, finRow>>
      BY <1>1, <1>2, <1>6 DEF FinDelete
    <2>2. engine' \in [Hash -> Torrents]
      BY <1>6 DEF FinDelete, Torrents
    <2> QED
      BY <1>6, <2>1, <2>2 DEF FinDelete
  <1>7. CASE FinEnd(f)
    <2>1. inflight' = [inflight EXCEPT ![Driver(finRow[f])] = @ \ {finHash[f]}]
      BY <1>7 DEF FinEnd
    <2>2. inflight' \in [Runner -> SUBSET Hash]
      BY <2>1
    <2>3. robbed' \subseteq Hash
      BY <1>7 DEF FinEnd
    <2>4. fin' \in [Fin -> FinPc] /\ finHash' \in [Fin -> Hash \cup {NoHash}] /\ finRow' \in [Fin -> RowType]
      BY <1>7, NoRowType DEF FinEnd, FinPc
    <2> QED
      BY <1>7, <2>2, <2>3, <2>4 DEF FinEnd
  <1> QED
    BY <1>3, <1>4, <1>5, <1>6, <1>7 DEF FinStepOf

LEMMA OrderFact ==
  /\ Len(StatusOrder) = 4 /\ DOMAIN StatusOrder = 1 .. 4
  /\ StatusOrder[1] = "pending" /\ StatusOrder[2] = "downloading"
  /\ StatusOrder[3] = "publishing" /\ StatusOrder[4] = "seeding"
  BY DEF StatusOrder

LEMMA PassAt ==
  ASSUME NEW r \in Runner, NEW p \in [at : 0 .. 5, runner : Runner]
  PROVE  /\ [at |-> 0, runner |-> r] \in [at : 0 .. 5, runner : Runner]
         /\ [at |-> 1, runner |-> r] \in [at : 0 .. 5, runner : Runner]
         /\ p.at \in 1 .. 4 => [p EXCEPT !.at = @ + 1] \in [at : 0 .. 5, runner : Runner]
  OBVIOUS

LEMMA FirstPass ==
  ASSUME NEW r \in Runner
  PROVE  [at |-> 0, runner |-> r] \in [at : 0 .. 5, runner : Runner]
  OBVIOUS

LEMMA NextStop == stops \in 0 .. MaxStop /\ stops < MaxStop => stops + 1 \in 0 .. MaxStop
  BY TorrentAssumption

LEMMA RestTypes ==
  ASSUME TorrentIInv, (\E r \in Runner : ReapStep(r)) \/ (\E h \in Hash : Engine(h)) \/ Stop
  PROVE  TorrentTypeOK'
  <1> USE DEF TorrentIInv, TorrentTypeOK, Outcomes, rowVars, engVars, msgVars, runVars, finVars,
              reapVars, bounded
  <1>0. reap.at \in 0 .. 5 /\ reap.runner \in Runner /\ "torrin" \in Runner
    BY DEF Runner
  <1>1. ASSUME NEW r \in Runner, ReapList(r)
        PROVE  TorrentTypeOK'
    <2>1. reap' = [at |-> 1, runner |-> r] /\ orphans' \subseteq Hash /\ keep' = {} /\ steady' \subseteq Hash
      BY <1>1 DEF ReapList
    <2> QED
      BY <1>1, <2>1, PassAt DEF ReapList
  <1>2. CASE ReapStatus
    <2>1. reap.at \in 1 .. 4 /\ reap' = [reap EXCEPT !.at = @ + 1] /\ keep' \subseteq Hash
      BY <1>2, OrderFact DEF ReapStatus
    <2>2. reap' \in [at : 0 .. 5, runner : Runner]
      BY <1>0, <2>1, PassAt
    <2> QED
      BY <1>2, <2>1, <2>2 DEF ReapStatus
  <1>3. ASSUME NEW h \in Hash, ReapTorrent(h)
        PROVE  TorrentTypeOK'
    <2>1. engine' \in [Hash -> Torrents]
      BY <1>3 DEF ReapTorrent, Torrents
    <2>2. reap' \in [at : 0 .. 5, runner : Runner]
      BY <1>0, <1>3, PassAt DEF ReapTorrent
    <2>3. keep' \subseteq Hash /\ steady' \subseteq Hash /\ orphans' \subseteq Hash
      BY <1>3 DEF ReapTorrent
    <2> QED
      BY <1>3, <2>1, <2>2, <2>3 DEF ReapTorrent
  <1>4. ASSUME NEW h \in Hash, Engine(h)
        PROVE  TorrentTypeOK'
    BY <1>4 DEF Engine, Torrents
  <1>5. CASE Stop
    <2>1. reap' \in [at : 0 .. 5, runner : Runner] /\ stops' \in 0 .. MaxStop
      BY <1>0, <1>5, PassAt, NextStop DEF Stop
    <2>2. run' \in [Hash -> RunPc] /\ copy' \in [Hash -> RowType] /\ outcome' \in [Hash -> Outcomes]
          /\ inflight' \in [Runner -> SUBSET Hash] /\ listed' \in [Runner -> [Hash -> RowType]]
      BY <1>5, NoRowType DEF Stop, RunPc
    <2>3. fin' \in [Fin -> FinPc] /\ finHash' \in [Fin -> Hash \cup {NoHash}] /\ finRow' \in [Fin -> RowType]
      BY <1>5, NoRowType DEF Stop, FinPc
    <2> QED
      BY <1>5, <2>1, <2>2, <2>3 DEF Stop
  <1> QED
    BY <1>1, <1>2, <1>3, <1>4, <1>5 DEF ReapStep


-----------------------------------------------------------------------------
(* Every step keeps the marks.                                             *)

LEMMA RequestMarks ==
  ASSUME TorrentIInv, NEW h \in Hash,
         \/ Submit(h) \/ SeedAdd(h) \/ SeedCreate(h) \/ DeleteTorrent(h) \/ WatchSeed(h)
         \/ Engine(h) \/ ReconcileTorrent(h)
  PROVE  MarkInv'
  <1>1. UNCHANGED <<inflight, robbed, finVars, runVars, listed>>
    BY DEF Submit, SeedAdd, SeedCreate, DeleteTorrent, WatchSeed, Engine, ReconcileTorrent
  <1> QED
    BY <1>1, MarkUntouched DEF finVars, runVars

LEMMA RemoveMarks ==
  ASSUME TorrentIInv, NEW h \in Hash, RemoveTorrent(h)
  PROVE  MarkInv'
  <1>1. UNCHANGED <<finVars, runVars, listed>>
    BY DEF RemoveTorrent
  <1>2. CASE UNCHANGED <<inflight, robbed>>
    BY <1>1, <1>2, MarkUntouched DEF finVars, runVars
  <1>3. CASE ~UNCHANGED <<inflight, robbed>>
    <2>1. AsHeld
      BY <1>1, SameHolders DEF finVars, runVars, AsHeld
    <2>2. NoStrayMark' /\ OneHolder'
      BY <1>3, <2>1, MarkRobbed DEF RemoveTorrent
    <2> QED
      BY <1>1, <2>2 DEF MarkInv, OwnRows, TorrentIInv, finVars
  <1> QED
    BY <1>2, <1>3

LEMMA RunHoldMarks ==
  ASSUME TorrentIInv, NEW h \in Hash, RunHold(h)
  PROVE  MarkInv'
  <1>1. UNCHANGED <<robbed, finVars, listed>>
    BY DEF RunHold
  <1>2. run \in [Hash -> RunPc] /\ "torrin" \in Runner
    BY DEF TorrentIInv, TorrentTypeOK, Runner
  <1>3. CASE UNCHANGED <<inflight, run>>
    BY <1>1, <1>3, MarkUntouched DEF finVars
  <1>4. CASE ~UNCHANGED <<inflight, run>>
    <2>1. /\ run[h] = "idle" /\ h \notin inflight["torrin"]
          /\ inflight' = [inflight EXCEPT !["torrin"] = @ \cup {h}]
          /\ run' = [run EXCEPT ![h] = "source"]
      BY <1>4 DEF RunHold
    <2>2. OneMore("torrin", h)
      BY <1>1, <1>2, <2>1, RunTakes DEF HoldsHash
    <2>3. NoStrayMark' /\ OneHolder'
      BY <1>1, <1>2, <2>1, <2>2, MarkTaken
    <2> QED
      BY <1>1, <2>3 DEF MarkInv, OwnRows, TorrentIInv, finVars
  <1> QED
    BY <1>3, <1>4

LEMMA RunReleaseMarks ==
  ASSUME TorrentIInv, NEW h \in Hash, RunRelease(h)
  PROVE  MarkInv'
  <1>1. UNCHANGED <<finVars, listed>> /\ run[h] = "release"
    BY DEF RunRelease
  <1>2. /\ run \in [Hash -> RunPc] /\ Runner = {"torrin", "torrin-seed"}
        /\ inflight' = [inflight EXCEPT !["torrin"] = @ \ {h}]
    BY DEF TorrentIInv, TorrentTypeOK, Runner, RunRelease
  <1>3. PICK pc \in {"idle", "fail", "usenet", "start"} : run' = [run EXCEPT ![h] = pc]
    BY DEF RunRelease, RunIdle
  <1>4. OneLess("torrin", h)
    BY <1>1, <1>2, <1>3, RunLeaves DEF HoldsHash
  <1>5. Holders("torrin", h) > 0
    <2>1. RunHolds("torrin", h) /\ Cardinality(FinsOf("torrin", h)) \in Nat
      BY <1>1, <1>2, HolderTypes DEF RunHolds, HoldsHash
    <2> QED
      BY <2>1 DEF Holders
  <1>6. \/ UNCHANGED robbed
        \/ robbed' = robbed \ {h} /\ \A q \in Runner : Holders(q, h)' = 0
    <2>1. CASE Holders("torrin", h) = 1 /\ Holders("torrin-seed", h) = 0
      BY <2>1, <1>2, <1>4 DEF RunRelease, OneLess
    <2>2. CASE ~(Holders("torrin", h) = 1 /\ Holders("torrin-seed", h) = 0)
      BY <2>2 DEF RunRelease
    <2> QED
      BY <2>1, <2>2
  <1>7. NoStrayMark' /\ OneHolder'
    BY <1>2, <1>4, <1>5, <1>6, MarkGiven
  <1> QED
    BY <1>1, <1>7 DEF MarkInv, OwnRows, TorrentIInv, finVars

\* Between holding and releasing, and after, a run does not touch the marks.
LEMMA RunMarks ==
  ASSUME TorrentIInv, NEW h \in Hash,
         RunSource(h) \/ RunPublish(h) \/ RunUsenet(h) \/ RunStart(h) \/ RunFail(h)
  PROVE  MarkInv'
  <1>1. UNCHANGED <<inflight, robbed, finVars, listed>>
    BY DEF RunSource, RunPublish, RunUsenet, RunStart, RunFail
  <1>2. run \in [Hash -> RunPc]
    BY DEF TorrentIInv, TorrentTypeOK
  <1>3. \A g \in Hash : run'[g] \in HoldsHash <=> run[g] \in HoldsHash
    <2>1. CASE RunSource(h) \/ RunPublish(h)
      BY <1>2, <2>1 DEF RunSource, RunPublish, HoldsHash
    <2>2. CASE RunUsenet(h) \/ RunStart(h) \/ RunFail(h)
      BY <1>2, <2>2 DEF RunUsenet, RunStart, RunFail, RunIdle, HoldsHash
    <2> QED
      BY <2>1, <2>2
  <1> QED
    BY <1>1, <1>3, MarkUntouched DEF finVars

LEMMA PollMarks ==
  ASSUME TorrentIInv, NEW r \in Runner, PollStep(r)
  PROVE  MarkInv'
  <1>0. listed \in [Runner -> [Hash -> RowType]] /\ NoRow.st = "none"
    BY DEF TorrentIInv, TorrentTypeOK, NoRow
  <1>1. CASE PollList(r)
    <2>1. \A q \in Runner, h \in Hash : listed'[q][h].st # "none" =>
            listed'[q][h] = listed[q][h] \/ Driver(listed'[q][h]) = q
      BY <1>0, <1>1 DEF PollList
    <2> QED
      BY <1>1, <2>1, MarkUntouched DEF PollList, finVars, runVars
  <1>2. ASSUME NEW h \in Hash, Unlist(r, h)
        PROVE  \A q \in Runner, g \in Hash :
                 listed'[q][g].st # "none" => listed'[q][g] = listed[q][g]
    BY <1>0, <1>2 DEF Unlist
  <1>3. ASSUME NEW h \in Hash,
               DriveBusy(r, h) \/ Reassign(r, h) \/ ReassignLater(r, h) \/ DriveFails(r, h) \/ DriveOn(r, h)
        PROVE  MarkInv'
    <2>1. UNCHANGED <<inflight, robbed, finVars, runVars>> /\ Unlist(r, h)
      BY <1>3 DEF DriveBusy, Reassign, ReassignLater, DriveFails, DriveOn, Drivable
    <2> QED
      BY <1>2, <2>1, MarkUntouched DEF finVars, runVars
  <1>4. ASSUME NEW h \in Hash, Finalize(r, h)
        PROVE  MarkInv'
    <2>1. /\ UNCHANGED <<robbed, run>> /\ Unlist(r, h) /\ h \notin inflight[r]
          /\ inflight' = [inflight EXCEPT ![r] = @ \cup {h}] /\ listed[r][h].st # "none"
      BY <1>4 DEF Finalize, Drivable, Listed, runVars
    <2>2. PICK f \in Fin : /\ fin[f] = "idle" /\ fin' = [fin EXCEPT ![f] = "files"]
                           /\ finHash' = [finHash EXCEPT ![f] = h]
                           /\ finRow' = [finRow EXCEPT ![f] = listed[r][h]]
      BY <1>4 DEF Finalize
    <2>3. /\ Driver(listed[r][h]) = r
          /\ fin \in [Fin -> FinPc] /\ finHash \in [Fin -> Hash \cup {NoHash}]
          /\ finRow \in [Fin -> RowType]
      BY <2>1 DEF TorrentIInv, TorrentTypeOK, MarkInv, OwnRows
    <2>4. OneMore(r, h)
      BY <2>1, <2>2, <2>3, FinTakes
    <2>5. NoStrayMark' /\ OneHolder'
      BY <2>1, <2>4, MarkTaken
    <2>6. OwnRows'
      BY <1>2, <2>1, <2>2, <2>3 DEF TorrentIInv, MarkInv, OwnRows
    <2> QED
      BY <2>5, <2>6 DEF MarkInv
  <1> QED
    BY <1>1, <1>3, <1>4 DEF PollStep

LEMMA FinMarks ==
  ASSUME TorrentIInv, NEW f \in Fin, FinStepOf(f)
  PROVE  MarkInv'
  <1>0. /\ fin \in [Fin -> FinPc] /\ finHash \in [Fin -> Hash \cup {NoHash}]
        /\ finRow \in [Fin -> RowType]
    BY DEF TorrentIInv, TorrentTypeOK
  <1>1. CASE FinFiles(f) \/ FinPublish(f) \/ FinSeeding(f) \/ FinDelete(f)
    <2>1. UNCHANGED <<inflight, robbed, listed, run>>
      BY <1>1 DEF FinFiles, FinPublish, FinSeeding, FinDelete, runVars
    <2>2. fin[f] # "idle" /\ \E pc \in {"publish", "seeding", "delete", "end"} : FinStep(f, pc)
      BY <1>1 DEF FinFiles, FinPublish, FinSeeding, FinDelete
    <2>3. \A g \in Fin : fin'[g] = "idle" <=> fin[g] = "idle"
      BY <1>0, <2>2 DEF FinStep
    <2> QED
      BY <2>1, <2>2, <2>3, MarkUntouched DEF FinStep
  <1>2. CASE FinEnd(f)
    <2>0. PICK h, r : h = finHash[f] /\ r = Driver(finRow[f])
      OBVIOUS
    <2>1. h \in Hash /\ r \in Runner /\ fin[f] # "idle"
      BY <1>2, <2>0 DEF FinEnd, TorrentIInv, MarkInv, OwnRows, Driver, Runner
    <2>2. /\ inflight' = [inflight EXCEPT ![r] = @ \ {h}] /\ UNCHANGED <<run, listed>>
          /\ fin' = [fin EXCEPT ![f] = "idle"]
          /\ finHash' = [finHash EXCEPT ![f] = NoHash] /\ finRow' = [finRow EXCEPT ![f] = NoRow]
      BY <1>2, <2>0 DEF FinEnd, runVars
    <2>3. OneLess(r, h)
      BY <1>0, <2>0, <2>1, <2>2, FinLeaves
    <2>4. Holders(r, h) > 0
      <3>1. f \in FinsOf(r, h) /\ IsFiniteSet(FinsOf(r, h)) /\ Cardinality(FinsOf(r, h)) \in Nat
        BY <2>0, <2>1, HolderTypes DEF FinsOf
      <3>2. Cardinality(FinsOf(r, h)) # 0
        BY <3>1, FS_EmptySet
      <3> QED
        BY <3>1, <3>2 DEF Holders
    <2>5. \/ UNCHANGED robbed
          \/ robbed' = robbed \ {h} /\ \A q \in Runner : Holders(q, h)' = 0
      <3>1. CASE \A q \in Runner : Holders(q, h) = (IF q = r THEN 1 ELSE 0)
        <4>1. \A q \in Runner : Holders(q, h)' = 0
          BY <3>1, <2>1, <2>3 DEF OneLess
        <4>2. robbed' = robbed \ {h}
          BY <3>1, <1>2, <2>0 DEF FinEnd
        <4> QED
          BY <4>1, <4>2
      <3>2. CASE ~\A q \in Runner : Holders(q, h) = (IF q = r THEN 1 ELSE 0)
        BY <3>2, <1>2, <2>0 DEF FinEnd
      <3> QED
        BY <3>1, <3>2
    <2>8. inflight' = [inflight EXCEPT ![r] = @ \ {h}]
      BY <2>2
    <2>6. NoStrayMark' /\ OneHolder'
      BY <2>1, <2>3, <2>4, <2>5, <2>8, MarkGiven
    <2>7. OwnRows'
      BY <1>0, <2>2 DEF TorrentIInv, MarkInv, OwnRows
    <2> QED
      BY <2>6, <2>7 DEF MarkInv
  <1> QED
    BY <1>1, <1>2 DEF FinStepOf

LEMMA ReapMarks ==
  ASSUME TorrentIInv, NEW r \in Runner, ReapStep(r)
  PROVE  MarkInv'
  <1>1. UNCHANGED <<inflight, robbed, finVars, runVars, listed>>
    BY DEF ReapStep, ReapList, ReapStatus, ReapTorrent
  <1> QED
    BY <1>1, MarkUntouched DEF finVars, runVars

\* A restart forgets the marks with those who hold them.
LEMMA StopMarks ==
  ASSUME TorrentIInv, Stop
  PROVE  MarkInv'
  <1>1. \A r \in Runner, h \in Hash : FinsOf(r, h)' = {} /\ ~RunHolds(r, h)'
    BY DEF Stop, FinsOf, RunHolds, HoldsHash
  <1>2. \A r \in Runner, h \in Hash : Holders(r, h)' = 0
    BY <1>1, FS_EmptySet DEF Holders
  <1>3. \A r \in Runner : inflight'[r] = {} /\ \A h \in Hash : listed'[r][h].st = "none"
    BY DEF Stop, NoRow
  <1> QED
    <2>1. OwnRows'
      BY <1>3 DEF Stop, OwnRows
    <2>2. NoStrayMark'
      BY <1>3 DEF NoStrayMark
    <2>3. OneHolder'
      BY <1>2 DEF OneHolder
    <2> QED
      BY <2>1, <2>2, <2>3 DEF MarkInv


-----------------------------------------------------------------------------
(* Every step keeps what the reaper relies on.                             *)

LEMMA Ranked ==
  ASSUME NEW st \in {"pending", "downloading", "publishing", "seeding"}
  PROVE  Rank(st) \in 1 .. 4 /\ StatusOrder[Rank(st)] = st
  BY OrderFact DEF Rank

LEMMA ReapSteady ==
  ASSUME TorrentIInv, NEW r \in Runner, ReapStep(r)
  PROVE  SteadyInv'
  <1>0. steady \subseteq Hash /\ reap \in [at : 0 .. 5, runner : Runner] /\ SteadyInv
    BY DEF TorrentIInv, TorrentTypeOK
  <1>1. CASE ReapList(r)
    <2>1. reap'.at = 1 /\ UNCHANGED row /\ \A h \in steady' : row[h].st \in Active
      BY <1>1 DEF ReapList, rowVars
    <2>2. \A st \in Active : Rank(st) >= 1
      BY Ranked DEF Active
    <2> QED
      BY <2>1, <2>2 DEF SteadyInv
  <1>2. CASE ReapStatus
    <2>1. /\ reap.at \in 1 .. 4 /\ reap'.at = reap.at + 1 /\ UNCHANGED <<row, steady>>
          /\ keep' = keep \cup {h \in Hash : row[h].st = StatusOrder[reap.at]}
      BY <1>0, <1>2, OrderFact DEF ReapStatus, rowVars
    <2>2. \A h \in steady : Rank(row[h].st) \in 1 .. 4 /\ StatusOrder[Rank(row[h].st)] = row[h].st
      BY <1>0, Ranked DEF SteadyInv, Active
    <2>3. \A h \in steady : Rank(row[h].st) = reap.at => h \in keep'
      BY <1>0, <2>1, <2>2
    <2>4. \A h \in steady : Rank(row[h].st) >= reap.at => h \in keep' \/ Rank(row[h].st) >= reap.at + 1
      BY <2>1, <2>2, <2>3
    <2> QED
      BY <1>0, <2>1, <2>4 DEF SteadyInv
  <1>3. CASE \E h \in Hash : ReapTorrent(h)
    <2>1. steady' = {} \/ UNCHANGED <<row, steady, keep, reap>>
      BY <1>3 DEF ReapTorrent, rowVars
    <2> QED
      BY <2>1, SteadyRests, <1>0 DEF SteadyInv
  <1> QED
    BY <1>1, <1>2, <1>3 DEF ReapStep

LEMMA SteadyWritten ==
  ASSUME TorrentIInv, UNCHANGED reapVars, row' \in [Hash -> RowType],
         (\E rows : WriteRows(rows)) \/ UNCHANGED <<row, steady>>
  PROVE  SteadyInv'
  <1>1. CASE UNCHANGED <<row, steady>>
    BY <1>1, SteadyRests DEF reapVars, TorrentIInv
  <1>2. CASE \E rows : WriteRows(rows)
    <2>1. PICK rows : WriteRows(rows)
      BY <1>2
    <2>2. rows \in [Hash -> RowType]
      BY <2>1 DEF WriteRows
    <2> QED
      BY <2>1, <2>2, WriteKeeps DEF reapVars
  <1> QED
    BY <1>1, <1>2

LEMMA SteadyKept ==
  ASSUME TorrentIInv, TorrentNext, TorrentTypeOK'
  PROVE  SteadyInv'
  <1>0. row' \in [Hash -> RowType]
    BY DEF TorrentTypeOK
  <1> USE DEF rowVars
  <1>1. ASSUME NEW h \in Hash,
               \/ Submit(h) \/ SeedAdd(h) \/ SeedCreate(h) \/ DeleteTorrent(h) \/ RemoveTorrent(h)
               \/ ReconcileTorrent(h) \/ WatchSeed(h) \/ Engine(h)
        PROVE  SteadyInv'
    <2>1. UNCHANGED reapVars /\ ((\E rows : WriteRows(rows)) \/ UNCHANGED <<row, steady>>)
      BY <1>1 DEF Submit, SeedAdd, SeedCreate, DeleteTorrent, RemoveTorrent, ReconcileTorrent,
                  WatchSeed, Engine
    <2> QED
      BY <1>0, <2>1, SteadyWritten
  <1>2. ASSUME NEW h \in Hash, RunHold(h) \/ RunStep(h)
        PROVE  SteadyInv'
    <2>1. UNCHANGED reapVars
      BY <1>2 DEF RunStep, RunHold, RunSource, RunPublish, RunRelease, RunUsenet, RunStart, RunFail
    <2>2. (\E rows : WriteRows(rows)) \/ UNCHANGED <<row, steady>>
      <3>1. CASE RunHold(h) \/ RunSource(h) \/ RunPublish(h)
        BY <3>1 DEF RunHold, RunSource, RunPublish, Update
      <3>2. CASE RunRelease(h) \/ RunUsenet(h) \/ RunStart(h) \/ RunFail(h)
        BY <3>2 DEF RunRelease, RunUsenet, RunStart, RunFail, Update
      <3> QED
        BY <1>2, <3>1, <3>2 DEF RunStep
    <2> QED
      BY <1>0, <2>1, <2>2, SteadyWritten
  <1>3. ASSUME NEW r \in Runner, PollStep(r)
        PROVE  SteadyInv'
    <2>1. UNCHANGED reapVars /\ ((\E rows : WriteRows(rows)) \/ UNCHANGED <<row, steady>>)
      BY <1>3 DEF PollStep, PollList, DriveBusy, Reassign, ReassignLater, DriveFails, DriveOn,
                  Finalize, Update
    <2> QED
      BY <1>0, <2>1, SteadyWritten
  <1>4. ASSUME NEW f \in Fin, FinStepOf(f)
        PROVE  SteadyInv'
    <2>1. UNCHANGED reapVars /\ ((\E rows : WriteRows(rows)) \/ UNCHANGED <<row, steady>>)
      BY <1>4 DEF FinStepOf, FinFiles, FinPublish, FinSeeding, FinDelete, FinEnd, FinUpdate, Update
    <2> QED
      BY <1>0, <2>1, SteadyWritten
  <1>5. CASE Stop
    BY <1>5 DEF Stop, SteadyInv
  <1> QED
    BY <1>1, <1>2, <1>3, <1>4, <1>5, ReapSteady DEF TorrentNext

-----------------------------------------------------------------------------
(* The runner.                                                             *)

LEMMA TorrentInitially == TorrentInit => TorrentIInv
  <1> SUFFICES ASSUME TorrentInit PROVE TorrentIInv
    OBVIOUS
  <1>1. TorrentTypeOK
    <2>1. /\ row \in [Hash -> RowType] /\ copy \in [Hash -> RowType]
          /\ listed \in [Runner -> [Hash -> RowType]] /\ finRow \in [Fin -> RowType]
      BY NoRowType DEF TorrentInit
    <2>2. /\ tries \in [Hash -> 0 .. MaxSubmit] /\ stops \in 0 .. MaxStop
      <3>1. 0 \in 0 .. MaxSubmit /\ 0 \in 0 .. MaxStop
        BY TorrentAssumption
      <3> QED
        BY <3>1 DEF TorrentInit
    <2>3. /\ engine \in [Hash -> Torrents] /\ category \in [Hash -> Runner]
          /\ run \in [Hash -> RunPc] /\ fin \in [Fin -> FinPc]
          /\ outcome \in [Hash -> {"", "handed", "terminal", "miss", "error"}]
      BY DEF TorrentInit, Torrents, Runner, RunPc, FinPc
    <2>4. reap \in [at : 0 .. 5, runner : Runner]
      <3>1. "torrin" \in Runner
        BY DEF Runner
      <3> QED
        BY <3>1, FirstPass DEF TorrentInit
    <2> QED
      BY <2>1, <2>2, <2>3, <2>4 DEF TorrentInit, TorrentTypeOK
  <1>2. MarkInv
    <2>1. \A r \in Runner, h \in Hash : FinsOf(r, h) = {} /\ ~RunHolds(r, h)
      BY DEF TorrentInit, FinsOf, RunHolds, HoldsHash
    <2>2. \A r \in Runner, h \in Hash : Holders(r, h) = 0
      BY <2>1, FS_EmptySet DEF Holders
    <2>3. OneHolder
      BY <2>2 DEF OneHolder
    <2>4. OwnRows /\ NoStrayMark
      BY DEF TorrentInit, OwnRows, NoStrayMark, NoRow
    <2> QED
      BY <2>3, <2>4 DEF MarkInv
  <1>3. SteadyInv
    BY DEF TorrentInit, SteadyInv
  <1> QED
    BY <1>1, <1>2, <1>3 DEF TorrentIInv

LEMMA TorrentStepKeeps == TorrentIInv /\ [TorrentNext]_torrentVars => TorrentIInv'
  <1> SUFFICES ASSUME TorrentIInv, [TorrentNext]_torrentVars PROVE TorrentIInv'
    OBVIOUS
  <1>1. CASE TorrentNext
    <2>1. TorrentTypeOK'
      BY <1>1, RequestTypes, RunTypes, PollTypes, FinTypes, RestTypes DEF TorrentNext
    <2>2. MarkInv'
      BY <1>1, RequestMarks, RemoveMarks, RunHoldMarks, RunReleaseMarks, RunMarks, PollMarks,
         FinMarks, ReapMarks, StopMarks DEF TorrentNext, RunStep
    <2>3. SteadyInv'
      BY <1>1, <2>1, SteadyKept
    <2> QED
      BY <2>1, <2>2, <2>3 DEF TorrentIInv
  <1>2. CASE UNCHANGED torrentVars
    <2>1. TorrentTypeOK'
      BY <1>2 DEF torrentVars, TorrentIInv, TorrentTypeOK
    <2>2. MarkInv'
      BY <1>2, MarkUntouched DEF torrentVars
    <2>3. SteadyInv'
      BY <1>2, SteadyRests DEF torrentVars, TorrentIInv
    <2> QED
      BY <2>1, <2>2, <2>3 DEF TorrentIInv
  <1> QED
    BY <1>1, <1>2

\* When the listings are over, every unbroken active row has been listed.
LEMMA SteadySpared == TorrentIInv => ReapSparesActive
  <1> SUFFICES ASSUME TorrentIInv, NEW h \in orphans \cap steady, reap.at > Len(StatusOrder)
               PROVE  h \in keep
    BY DEF ReapSparesActive, Reaped
  <1>1. reap.at > 4 /\ reap.at \in 0 .. 5 /\ row[h].st \in Active
        /\ (h \in keep \/ Rank(row[h].st) >= reap.at)
    BY OrderFact DEF TorrentIInv, TorrentTypeOK, SteadyInv
  <1>2. Rank(row[h].st) \in 1 .. 4
    BY <1>1, Ranked DEF Active
  <1> QED
    BY <1>1, <1>2

\* For any torrents and any number of finalisations: a mark is held and has one holder, unless
\* a removal took it (torrent.go), and the reaper spares what an active row names (orphans.go).
THEOREM TorrentInvariant == TorrentSpec => [](TorrentTypeOK /\ NoStrayMark /\ OneHolder /\ ReapSparesActive)
  <1>1. TorrentIInv => TorrentTypeOK /\ NoStrayMark /\ OneHolder /\ ReapSparesActive
    BY SteadySpared DEF TorrentIInv, MarkInv
  <1> QED
    BY <1>1, TorrentInitially, TorrentStepKeeps, PTL DEF TorrentSpec

\* Whatever resets the notes and the clock of a row, a stall is restarted once (finalize.go).
THEOREM RestartedOnceHolds == StallSpec => []RestartedOnce
  <1>1. StallInit => StallIInv
    BY StallInitially DEF StallInit
  <1>2. StallIInv => RestartedOnce
    BY DEF StallIInv, RestartedOnce
  <1> QED
    BY <1>1, <1>2, StallStepKeeps, PTL DEF StallSpec

-----------------------------------------------------------------------------
(* The run over the debrid services.                                       *)

DebridCalls == {"run", "look", "add", "select", "poll", "links", "unready", "mine", "attempt",
                "publish", "over", "idle"}
Fetching  == {"look", "add", "select", "poll", "links", "unready", "mine"}
MayHold   == {"select", "poll", "links", "unready", "attempt"}

DebridTypes ==
  /\ asks \in [Run -> DebridCalls] /\ link \in [Run -> Nat] /\ DOMAIN handle = Run
  /\ scratch \in [Run -> [File -> DebridKind \union {"none", "before"}]]

\* A run that asks a service is at one of its chain.
PlaceInv == \A r \in Run : asks[r] \in Fetching \union {"attempt"} => link[r] \in 1 .. Len(ChainOf[r])

\* A handle is of one item, the run's own at the service it asks, and held only in the calls
\* that follow the one that adds.
HandleInv ==
  \A r \in Run :
    /\ \A i \in handle[r] : i[1] = r /\ i[2] = Service(r) /\ handle[r] = {i}
    /\ asks[r] \notin MayHold => handle[r] = {}

\* What a run has added and not lost sight of, it has the handle of.
AddedInv == \A i \in account \ stuck : i[1] \in Run => i \in handle[i[1]]

\* What is in the directory is of the service asked, or from before a crash.
ScratchInv ==
  \A r \in Run, f \in File :
    scratch[r][f] \in {"none", "before"} \/ (asks[r] \in {"attempt", "publish"} /\ scratch[r][f] = Service(r))

DebridIInv == DebridTypes /\ PlaceInv /\ HandleInv /\ AddedInv /\ ScratchInv

LEMMA DebridInitially == DebridFresh /\ asks \in [Run -> {"run", "idle"}] => DebridIInv
  <1> SUFFICES ASSUME DebridFresh, asks \in [Run -> {"run", "idle"}] PROVE DebridIInv
    OBVIOUS
  <1>1. DebridTypes
    BY DEF DebridFresh, DebridTypes, DebridCalls, Empty
  <1>2. PlaceInv /\ HandleInv /\ ScratchInv
    BY DEF DebridFresh, PlaceInv, HandleInv, ScratchInv, Fetching, Empty
  <1>3. AddedInv
    BY DebridAssumption DEF DebridFresh, AddedInv
  <1> QED
    BY <1>1, <1>2, <1>3 DEF DebridIInv

\* One run's handle is emptied, and what it held is gone or stuck.
LEMMA ReleasesKeep ==
  ASSUME DebridIInv, NEW r \in Run, Releases(r)
  PROVE  /\ DOMAIN handle' = Run /\ handle'[r] = {} /\ \A q \in Run \ {r} : handle'[q] = handle[q]
         /\ AddedInv'
         /\ \A i \in account \ account' : i \in handle[r]
  <1>1. handle' = [handle EXCEPT ![r] = {}] /\ DOMAIN handle = Run
    BY DEF Releases, DebridIInv, DebridTypes
  <1>2. \A q \in Run \ {r} : \A i \in handle[q] : i[1] = q
    BY DEF DebridIInv, HandleInv
  <1>3. \/ account' = account \ handle[r] /\ UNCHANGED stuck
        \/ stuck' = stuck \union handle[r] /\ UNCHANGED account
    BY DEF Releases
  <1> QED
    BY <1>1, <1>2, <1>3 DEF DebridIInv, AddedInv

\* A step that moves one run, keeps the others' and the items.
LEMMA RunMoves ==
  ASSUME DebridIInv, NEW r \in Run, NEW call \in DebridCalls, Goes(r, call),
         link' \in [Run -> Nat], \A q \in Run \ {r} : link'[q] = link[q],
         call \in Fetching \union {"attempt"} => link'[r] \in 1 .. Len(ChainOf[r]),
         DOMAIN handle' = Run, \A q \in Run \ {r} : handle'[q] = handle[q],
         \A i \in handle'[r] : i[1] = r /\ i[2] = Service(r)' /\ handle'[r] = {i},
         call \notin MayHold => handle'[r] = {},
         AddedInv',
         scratch' \in [Run -> [File -> DebridKind \union {"none", "before"}]],
         \A q \in Run \ {r} : scratch'[q] = scratch[q],
         \A f \in File : scratch'[r][f] \in {"none", "before"} \/ (call \in {"attempt", "publish"} /\ scratch'[r][f] = Service(r)')
  PROVE  DebridIInv'
  <1>1. /\ asks' \in [Run -> DebridCalls] /\ asks'[r] = call /\ \A q \in Run \ {r} : asks'[q] = asks[q]
    BY DEF Goes, DebridIInv, DebridTypes
  <1>2. \A q \in Run \ {r} : Service(q)' = Service(q)
    BY DEF Service
  <1>3. DebridTypes' /\ PlaceInv'
    BY <1>1 DEF DebridIInv, DebridTypes, PlaceInv
  <1>4. HandleInv'
    BY <1>1, <1>2 DEF DebridIInv, HandleInv
  <1>5. ScratchInv'
    BY <1>1, <1>2 DEF DebridIInv, ScratchInv
  <1> QED
    BY <1>3, <1>4, <1>5 DEF DebridIInv

\* To the next service, with nothing held and a directory that is empty or from before.
LEMMA NextServiceKeeps ==
  ASSUME DebridIInv, NEW r \in Run, NextService(r), asks[r] = "run" \/ asks[r] \in Fetching \union {"attempt"},
         DOMAIN handle' = Run, \A q \in Run \ {r} : handle'[q] = handle[q], handle'[r] = {},
         AddedInv',
         scratch' \in [Run -> [File -> DebridKind \union {"none", "before"}]],
         \A q \in Run \ {r} : scratch'[q] = scratch[q],
         \A f \in File : scratch'[r][f] \in {"none", "before"}
  PROVE  DebridIInv'
  <1>1. PICK call \in {"look", "over"} : Goes(r, call) /\ (call = "look" <=> link[r] < Len(ChainOf[r]))
    BY DEF NextService
  <1>2. link \in [Run -> Nat] /\ Len(ChainOf[r]) \in Nat
    BY DebridAssumption DEF DebridIInv, DebridTypes
  <1>3. link' \in [Run -> Nat] /\ link'[r] = link[r] + 1 /\ \A q \in Run \ {r} : link'[q] = link[q]
    BY <1>2 DEF NextService
  <1>4. call = "look" => link'[r] \in 1 .. Len(ChainOf[r])
    BY <1>1, <1>2, <1>3
  <1>5. call \in DebridCalls /\ call \notin MayHold /\ (call \in Fetching \union {"attempt"} => call = "look")
    BY <1>1 DEF DebridCalls, MayHold, Fetching
  <1> QED
    BY <1>1, <1>3, <1>4, <1>5, RunMoves

\* What is in the directory while a service is asked.
LEMMA ScratchOf ==
  ASSUME DebridIInv, NEW r \in Run, asks[r] \notin {"attempt", "publish"}
  PROVE  \A f \in File : scratch[r][f] \in {"none", "before"}
  BY DEF DebridIInv, ScratchInv

LEMMA MissesKeeps ==
  ASSUME DebridIInv, NEW r \in Run, asks[r] \in Fetching, Misses(r)
  PROVE  DebridIInv'
  <1>1. UNCHANGED scratch /\ scratch \in [Run -> [File -> DebridKind \union {"none", "before"}]]
    BY DEF Misses, NoFiles, DebridIInv, DebridTypes
  <1>2. \A f \in File : scratch[r][f] \in {"none", "before"}
    BY ScratchOf DEF Fetching
  <1> QED
    BY <1>1, <1>2, ReleasesKeep, NextServiceKeeps DEF Misses

LEMMA AsksKeeps ==
  ASSUME DebridIInv, NEW r \in Run, asks[r] \in Fetching,
         NEW call \in Fetching \union {"attempt"}, call \in MayHold \/ handle[r] = {}, Asks(r, call)
  PROVE  DebridIInv'
  <1>1. /\ Goes(r, call) /\ UNCHANGED <<handle, account, stuck, link, scratch>>
        /\ call \in DebridCalls /\ call # "publish"
    BY DEF Asks, Untouched, NoFiles, DebridCalls, Fetching
  <1>2. \A f \in File : scratch[r][f] \in {"none", "before"}
    BY ScratchOf DEF Fetching
  <1>3. Service(r)' = Service(r) /\ AddedInv'
    BY <1>1 DEF Service, DebridIInv, AddedInv
  <1>4. \A i \in handle'[r] : i[1] = r /\ i[2] = Service(r)' /\ handle'[r] = {i}
    BY <1>1, <1>3 DEF DebridIInv, HandleInv
  <1>5. link' \in [Run -> Nat] /\ link'[r] \in 1 .. Len(ChainOf[r])
        /\ DOMAIN handle' = Run /\ scratch' \in [Run -> [File -> DebridKind \union {"none", "before"}]]
    BY <1>1 DEF DebridIInv, DebridTypes, PlaceInv
  <1> QED
    BY <1>1, <1>2, <1>3, <1>4, <1>5, RunMoves

LEMMA HitsKeeps ==
  ASSUME DebridIInv, NEW r \in Run, asks[r] \in Fetching, Hits(r)
  PROVE  DebridIInv'
  BY AsksKeeps DEF Hits, Asks, MayHold

\* A poll that finds the item ready.
LEMMA PollsKeep ==
  ASSUME DebridIInv, NEW r \in Run, asks[r] \in Fetching, Goes(r, "links"),
         UNCHANGED <<handle, account, stuck, link>>, NoFiles
  PROVE  DebridIInv'
  <1>1. \A f \in File : scratch[r][f] \in {"none", "before"}
    BY ScratchOf DEF Fetching
  <1>2. Service(r)' = Service(r) /\ AddedInv' /\ UNCHANGED scratch
    BY DEF Service, DebridIInv, AddedInv, NoFiles
  <1>3. \A i \in handle'[r] : i[1] = r /\ i[2] = Service(r)' /\ handle'[r] = {i}
    BY <1>2 DEF DebridIInv, HandleInv
  <1>4. link' \in [Run -> Nat] /\ link'[r] \in 1 .. Len(ChainOf[r])
        /\ DOMAIN handle' = Run /\ scratch' \in [Run -> [File -> DebridKind \union {"none", "before"}]]
    BY <1>2 DEF DebridIInv, DebridTypes, PlaceInv
  <1> QED
    BY <1>1, <1>2, <1>3, <1>4, RunMoves DEF DebridCalls, MayHold

LEMMA AddsKeeps ==
  ASSUME DebridIInv, NEW r \in Run, asks[r] = "add", NEW call \in Fetching \intersect MayHold, NEW isReady \in BOOLEAN,
         Adds(r, call, isReady)
  PROVE  DebridIInv'
  <1> DEFINE item == DebridItem(r)
  <1>1. item[1] = r /\ item[2] = Service(r) /\ handle[r] = {} /\ asks[r] \in Fetching
    BY DEF DebridItem, DebridIInv, HandleInv, MayHold, Fetching
  <1>2. \A f \in File : scratch[r][f] \in {"none", "before"}
    BY <1>1, ScratchOf DEF Fetching
  <1>3. account' = account \union {item} /\ UNCHANGED scratch /\ DOMAIN handle = Run /\ link \in [Run -> Nat]
        /\ link[r] \in 1 .. Len(ChainOf[r]) /\ scratch \in [Run -> [File -> DebridKind \union {"none", "before"}]]
    BY <1>1 DEF Adds, NoFiles, DebridIInv, DebridTypes, PlaceInv
  <1> HIDE DEF item
  <1>4. CASE handle' = [handle EXCEPT ![r] = {item}] /\ Goes(r, call) /\ UNCHANGED <<stuck, link>>
    <2>1. handle'[r] = {item} /\ DOMAIN handle' = Run /\ \A q \in Run \ {r} : handle'[q] = handle[q]
      BY <1>3, <1>4
    <2>2. AddedInv'
      BY <1>1, <1>3, <1>4, <2>1 DEF DebridIInv, AddedInv
    <2>3. Service(r)' = Service(r) /\ call \in DebridCalls
      BY <1>4 DEF Service, DebridCalls, Fetching
    <2> QED
      BY <1>1, <1>2, <1>3, <1>4, <2>1, <2>2, <2>3, RunMoves
  <1>5. CASE stuck' = stuck \union {item} /\ NextService(r) /\ UNCHANGED handle
    <2>1. AddedInv'
      BY <1>3, <1>5 DEF DebridIInv, AddedInv
    <2> QED
      BY <1>1, <1>2, <1>3, <1>5, <2>1, NextServiceKeeps
  <1> QED
    BY <1>4, <1>5 DEF Adds, item

\* The calls to the services, each of which asks on, finds, adds, or misses.
LEMMA CallsKeep ==
  ASSUME DebridIInv, NEW r \in Run,
         \/ \E p \in DebridKind : LibraryFetch(r, p)
         \/ RdAdd(r) \/ RdSelect(r) \/ RdPoll(r) \/ RdLinks(r) \/ AdAdd(r) \/ AdUnready(r) \/ AdFiles(r)
         \/ TbCached(r) \/ TbCreate(r) \/ TbLibraryID(r) \/ TbListTorrent(r)
         \/ OcAdd(r) \/ OcPoll(r) \/ OcExplore(r) \/ PmFetch(r)
  PROVE  DebridIInv'
  <1>1. asks[r] \in Fetching
    BY DEF At, Fetching, LibraryFetch, RdAdd, RdSelect, RdPoll, RdLinks, AdAdd, AdUnready, AdFiles,
           TbCached, TbCreate, TbLibraryID, TbListTorrent, OcAdd, OcPoll, OcExplore, PmFetch
  <1>2. asks[r] \in {"look", "add", "mine"} => handle[r] = {}
    BY DEF DebridIInv, HandleInv, MayHold
  <1>3. CASE Misses(r)
    BY <1>1, <1>3, MissesKeeps
  <1>4. CASE Hits(r)
    BY <1>1, <1>4, HitsKeeps
  <1>5. CASE \E call \in Fetching : Asks(r, call) /\ (call \in MayHold \/ asks[r] \in {"look", "add", "mine"})
    BY <1>1, <1>2, <1>5, AsksKeeps
  <1>6. CASE Goes(r, "links") /\ UNCHANGED <<handle, account, stuck, link>> /\ NoFiles
    BY <1>1, <1>6, PollsKeep
  <1>7. CASE asks[r] = "add" /\ \E call \in Fetching \intersect MayHold, isReady \in BOOLEAN : Adds(r, call, isReady)
    BY <1>7, AddsKeeps
  <1> HIDE DEF DebridIInv
  <1>8. CASE \E p \in DebridKind : LibraryFetch(r, p)
    BY <1>3, <1>4, <1>5, <1>8 DEF LibraryFetch, At, Fetching
  <1>9. CASE RdAdd(r) \/ AdAdd(r) \/ TbCreate(r) \/ OcAdd(r)
    BY <1>3, <1>7, <1>9 DEF RdAdd, AdAdd, TbCreate, OcAdd, At, Fetching, MayHold
  <1>10. CASE RdSelect(r)
    BY <1>3, <1>5, <1>10 DEF RdSelect, Fetching, MayHold
  <1>11. CASE RdPoll(r) \/ OcPoll(r)
    BY <1>3, <1>6, <1>11 DEF RdPoll, OcPoll
  <1>12. CASE RdLinks(r) \/ AdUnready(r) \/ AdFiles(r) \/ TbListTorrent(r) \/ OcExplore(r) \/ PmFetch(r)
    BY <1>3, <1>4, <1>12 DEF RdLinks, AdUnready, AdFiles, TbListTorrent, OcExplore, PmFetch
  <1>13. CASE TbCached(r) \/ TbLibraryID(r)
    BY <1>3, <1>5, <1>13 DEF TbCached, TbLibraryID, At, Fetching, MayHold
  <1> QED
    BY <1>8, <1>9, <1>10, <1>11, <1>12, <1>13

\* The attempt, and how the run ends.
LEMMA EndsKeeps ==
  ASSUME DebridIInv, NEW r \in Run, Ends(r),
         DOMAIN handle' = Run, \A q \in Run \ {r} : handle'[q] = handle[q], handle'[r] = {}, AddedInv'
  PROVE  DebridIInv'
  <1>1. /\ Goes(r, "idle") /\ UNCHANGED link /\ scratch' = [scratch EXCEPT ![r] = Empty]
        /\ link \in [Run -> Nat] /\ scratch \in [Run -> [File -> DebridKind \union {"none", "before"}]]
    BY DEF Ends, DebridIInv, DebridTypes
  <1>2. /\ scratch' \in [Run -> [File -> DebridKind \union {"none", "before"}]]
        /\ \A q \in Run \ {r} : scratch'[q] = scratch[q]
        /\ \A f \in File : scratch'[r][f] = "none"
    BY <1>1 DEF Empty
  <1> QED
    BY <1>1, <1>2, RunMoves DEF DebridCalls, Fetching, MayHold

LEMMA AttemptFileKeeps ==
  ASSUME DebridIInv, NEW r \in Run, NEW f \in File, AttemptFile(r, f)
  PROVE  DebridIInv'
  <1>1. /\ asks[r] = "attempt" /\ UNCHANGED <<asks, link, handle, account, stuck>>
        /\ scratch' = [scratch EXCEPT ![r][f] = IF @ = "none" THEN Service(r) ELSE @]
    BY DEF AttemptFile, Untouched
  <1>2. Service(r) \in DebridKind /\ \A q \in Run : Service(q)' = Service(q)
    <2>1. link[r] \in 1 .. Len(ChainOf[r])
      BY <1>1 DEF DebridIInv, PlaceInv
    <2> QED
      BY <1>1, <2>1, DebridAssumption DEF Service
  <1> DEFINE new == IF scratch[r][f] = "none" THEN Service(r) ELSE scratch[r][f]
  <1>3. /\ scratch' \in [Run -> [File -> DebridKind \union {"none", "before"}]]
        /\ \A q \in Run, g \in File : scratch'[q][g] = IF q = r /\ g = f THEN new ELSE scratch[q][g]
    <2>1. scratch \in [Run -> [File -> DebridKind \union {"none", "before"}]]
      BY DEF DebridIInv, DebridTypes
    <2>2. new \in DebridKind \union {"none", "before"} /\ scratch' = [scratch EXCEPT ![r][f] = new]
      BY <1>1, <1>2, <2>1
    <2> HIDE DEF new
    <2> QED
      BY <2>1, <2>2
  <1>4. new \in {"none", "before", Service(r)}
    BY <1>1 DEF DebridIInv, ScratchInv
  <1> HIDE DEF new
  <1>5. ScratchInv'
    BY <1>1, <1>2, <1>3, <1>4 DEF DebridIInv, ScratchInv
  <1>6. DebridTypes' /\ PlaceInv' /\ HandleInv' /\ AddedInv'
    BY <1>1, <1>2, <1>3 DEF DebridIInv, DebridTypes, PlaceInv, HandleInv, AddedInv
  <1> QED
    BY <1>5, <1>6 DEF DebridIInv

LEMMA AttemptEndsKeeps ==
  ASSUME DebridIInv, NEW r \in Run, AttemptRefused(r) \/ AttemptFails(r) \/ AttemptDone(r)
  PROVE  DebridIInv'
  <1>1. asks[r] = "attempt" /\ Releases(r)
    BY DEF AttemptRefused, AttemptFails, AttemptDone
  <1>2. DOMAIN handle' = Run /\ handle'[r] = {} /\ (\A q \in Run \ {r} : handle'[q] = handle[q]) /\ AddedInv'
    BY <1>1, ReleasesKeep
  <1>3. scratch \in [Run -> [File -> DebridKind \union {"none", "before"}]] /\ link \in [Run -> Nat]
    BY DEF DebridIInv, DebridTypes
  <1>4. CASE AttemptRefused(r)
    BY <1>2, <1>4, EndsKeeps DEF AttemptRefused
  <1>5. CASE AttemptFails(r)
    <2>1. /\ scratch' \in [Run -> [File -> DebridKind \union {"none", "before"}]]
          /\ \A q \in Run \ {r} : scratch'[q] = scratch[q]
          /\ \A f \in File : scratch'[r][f] = "none"
      BY <1>3, <1>5 DEF AttemptFails, Empty
    <2> QED
      BY <1>1, <1>2, <1>5, <2>1, NextServiceKeeps DEF AttemptFails
  <1>6. CASE AttemptDone(r)
    <2>1. Goes(r, "publish") /\ UNCHANGED <<link, scratch>>
      BY <1>6 DEF AttemptDone
    <2>2. Service(r)' = Service(r) /\ \A f \in File : scratch[r][f] \in {"none", "before", Service(r)}
      BY <2>1 DEF Service, DebridIInv, ScratchInv
    <2> QED
      BY <1>2, <1>3, <2>1, <2>2, RunMoves DEF DebridCalls, Fetching, MayHold
  <1> QED
    BY <1>1, <1>4, <1>5, <1>6

LEMMA RunEndsKeeps ==
  ASSUME DebridIInv, NEW r \in Run, DebridRun(r) \/ PublishResult(r) \/ RunOver(r)
  PROVE  DebridIInv'
  <1>1. handle[r] = {} /\ DOMAIN handle = Run
        /\ scratch \in [Run -> [File -> DebridKind \union {"none", "before"}]]
    BY DEF DebridRun, PublishResult, RunOver, DebridIInv, DebridTypes, HandleInv, MayHold
  <1>2. UNCHANGED <<handle, account, stuck>> /\ AddedInv'
    BY DEF DebridRun, PublishResult, RunOver, Untouched, DebridIInv, AddedInv
  <1>3. CASE DebridRun(r)
    <2>1. \A f \in File : scratch[r][f] \in {"none", "before"}
      BY <1>3, ScratchOf DEF DebridRun
    <2> QED
      BY <1>1, <1>2, <1>3, <2>1, NextServiceKeeps DEF DebridRun, NoFiles
  <1>4. CASE PublishResult(r) \/ RunOver(r)
    BY <1>1, <1>2, <1>4, EndsKeeps DEF PublishResult, RunOver
  <1> QED
    BY <1>3, <1>4

LEMMA DebridCrashKeeps ==
  ASSUME DebridIInv, NEW r \in Run, DebridCrash(r)
  PROVE  DebridIInv'
  <1>1. /\ Goes(r, "run") /\ link' = [link EXCEPT ![r] = 0] /\ handle' = [handle EXCEPT ![r] = {}]
        /\ stuck' = stuck \union (handle[r] \cap account) /\ UNCHANGED account
        /\ scratch' = [scratch EXCEPT ![r] = [f \in File |-> IF scratch[r][f] = "none" THEN "none" ELSE "before"]]
    BY DEF DebridCrash
  <1>2. link' \in [Run -> Nat] /\ (\A q \in Run \ {r} : link'[q] = link[q])
        /\ DOMAIN handle' = Run /\ (\A q \in Run \ {r} : handle'[q] = handle[q]) /\ handle'[r] = {}
    BY <1>1 DEF DebridIInv, DebridTypes
  <1>3. AddedInv'
    BY <1>1, <1>2 DEF DebridIInv, AddedInv
  <1>4. /\ scratch' \in [Run -> [File -> DebridKind \union {"none", "before"}]]
        /\ \A q \in Run \ {r} : scratch'[q] = scratch[q]
        /\ \A f \in File : scratch'[r][f] \in {"none", "before"}
    BY <1>1 DEF DebridIInv, DebridTypes
  <1> QED
    BY <1>1, <1>2, <1>3, <1>4, RunMoves DEF DebridCalls, Fetching

LEMMA ReapKeeps ==
  ASSUME DebridIInv, NEW i \in account, ADReapOrphans(i)
  PROVE  DebridIInv'
  <1>1. /\ account' = account \ {i} /\ stuck' = stuck \ {i} /\ UNCHANGED <<asks, link, handle, scratch>>
    BY DEF ADReapOrphans, NoFiles
  <1>2. \A r \in Run : Service(r)' = Service(r)
    BY <1>1 DEF Service
  <1> QED
    BY <1>1, <1>2 DEF DebridIInv, DebridTypes, PlaceInv, HandleInv, AddedInv, ScratchInv

LEMMA DebridStepKeeps == DebridIInv /\ [DebridNext]_debridVars => DebridIInv'
  <1>1. ASSUME DebridIInv, UNCHANGED debridVars PROVE DebridIInv'
    <2>1. \A r \in Run : Service(r)' = Service(r)
      BY <1>1 DEF debridVars, Service
    <2> QED
      BY <1>1, <2>1 DEF debridVars, DebridIInv, DebridTypes, PlaceInv, HandleInv, AddedInv, ScratchInv
  <1>2. ASSUME DebridIInv, NEW r \in Run, DebridStep(r) PROVE DebridIInv'
    <2>1. CASE \/ RdLibrary(r) \/ RdAdd(r) \/ RdSelect(r) \/ RdPoll(r) \/ RdLinks(r)
               \/ AdLibrary(r) \/ AdAdd(r) \/ AdUnready(r) \/ AdFiles(r)
               \/ TbCached(r) \/ TbCreate(r) \/ TbLibraryID(r) \/ TbListTorrent(r)
               \/ OcLibrary(r) \/ OcAdd(r) \/ OcPoll(r) \/ OcExplore(r) \/ PmFetch(r)
      BY <1>2, <2>1, CallsKeep DEF RdLibrary, AdLibrary, OcLibrary, DebridKind
    <2>2. CASE DebridRun(r) \/ PublishResult(r) \/ RunOver(r)
      BY <1>2, <2>2, RunEndsKeeps
    <2>3. CASE AttemptRefused(r) \/ AttemptFails(r) \/ AttemptDone(r)
      BY <1>2, <2>3, AttemptEndsKeeps
    <2>4. CASE \E f \in File : AttemptFile(r, f) /\ scratch[r][f] = "none"
      BY <1>2, <2>4, AttemptFileKeeps
    <2> QED
      BY <1>2, <2>1, <2>2, <2>3, <2>4 DEF DebridStep
  <1> QED
    BY <1>1, <1>2, DebridCrashKeeps, ReapKeeps DEF DebridNext

\* What the invariant says of the items and the files.
LEMMA NothingStays == DebridIInv => NothingLeft /\ OneSource
  <1> SUFFICES ASSUME DebridIInv PROVE NothingLeft /\ OneSource
    OBVIOUS
  <1>1. OneSource
    BY DEF DebridIInv, ScratchInv, OneSource
  <1>2. NothingLeft
    <2> SUFFICES ASSUME NEW i \in account \ stuck, i[1] \in Run
                 PROVE  /\ handle[i[1]] = {i} /\ link[i[1]] \in 1 .. Len(ChainOf[i[1]])
                        /\ asks[i[1]] \notin {"look", "publish", "over", "idle"} /\ Service(i[1]) = i[2]
      BY DEF NothingLeft
    <2>1. i \in handle[i[1]]
      BY DEF DebridIInv, AddedInv
    <2>2. handle[i[1]] = {i} /\ i[2] = Service(i[1]) /\ asks[i[1]] \in MayHold
      BY <2>1 DEF DebridIInv, HandleInv
    <2> QED
      BY <2>2 DEF DebridIInv, PlaceInv, MayHold, Fetching
  <1> QED
    BY <1>1, <1>2

\* A step takes from an account only what its run holds, or it is the reaper's.
LEMMA LibraryStays ==
  ASSUME DebridIInv, [DebridNext]_debridVars
  PROVE  \A i \in account \ account' : (i[1] \in Run /\ i \in handle[i[1]]) \/ (i[2] = "ad" /\ UNCHANGED asks)
  <1>1. CASE UNCHANGED debridVars
    BY <1>1 DEF debridVars
  <1>2. ASSUME NEW r \in Run, DebridStep(r)
        PROVE  account \subseteq account' \/ Releases(r)
    BY <1>2 DEF DebridStep, DebridRun, RdLibrary, AdLibrary, OcLibrary, LibraryFetch, RdAdd, RdSelect, RdPoll, RdLinks,
       AdAdd, AdUnready, AdFiles, TbCached, TbCreate, TbLibraryID, TbListTorrent, OcAdd, OcPoll, OcExplore, PmFetch,
       AttemptRefused, AttemptFile, AttemptFails, AttemptDone, PublishResult, RunOver,
       Asks, Hits, Misses, Adds, Untouched
  <1>3. ASSUME NEW r \in Run, Releases(r)
        PROVE  \A i \in account \ account' : i[1] \in Run /\ i \in handle[i[1]]
    <2>1. \A i \in account \ account' : i \in handle[r]
      BY <1>3, ReleasesKeep
    <2> QED
      BY <2>1 DEF DebridIInv, HandleInv
  <1>4. ASSUME NEW r \in Run, DebridCrash(r) PROVE UNCHANGED account
    BY <1>4 DEF DebridCrash
  <1>5. ASSUME NEW i \in account, ADReapOrphans(i)
        PROVE  \A j \in account \ account' : j[2] = "ad" /\ UNCHANGED asks
    BY <1>5 DEF ADReapOrphans
  <1> QED
    BY <1>1, <1>2, <1>3, <1>4, <1>5 DEF DebridNext

\* For any runs, services and libraries, through refusals, failures and crashes: what a service
\* was given is taken back unless the service would not, and what is published is of one
\* service (debrid.go, realdebrid.go, torbox.go).
THEOREM DebridHolds == DebridSpec => [](NothingLeft /\ OneSource)
  <1>1. DebridInit => DebridIInv
    BY DebridInitially DEF DebridInit
  <1> QED
    BY <1>1, DebridStepKeeps, NothingStays, PTL DEF DebridSpec

-----------------------------------------------------------------------------
(* A release from its mirrors.                                             *)

Packagings(A, M) ==
  /\ A \in Seq(Seq(DOMAIN M)) /\ \A a \in 1 .. Len(A) : A[a] # <<>>
  /\ \A n \in DOMAIN M : M[n] \in Nat

Trying == {"unlock", "fetch", "counted", "process"}
Asking == {"fallback", "season", "assemble"}

Dead(a) == \E n \in PartsOf(a) : \A k \in 1 .. mirrors[n] : <<n, k>> \in givenUp
UpTo(n) == {archives[packaging][i] : i \in 1 .. n}

RelTypes ==
  /\ relStage \in Trying \union Asking \union {"resolve", "clear", "complete", "failed"}
  /\ packaging \in Nat \ {0} /\ partNo \in Nat \ {0} /\ mirror \in Nat \ {0}
  /\ seasonListed \subseteq 1 .. MaxEpisode
  /\ Packagings(archives, mirrors)

\* It is at a part of a packaging that there is.
RelPlaceInv ==
  /\ relStage = "resolve" => packaging = 1
  /\ relStage \in Trying \union {"clear"} => packaging <= Len(archives)
  /\ relStage \in Trying => partNo <= Len(archives[packaging])

\* The directory holds the parts before this one, and of this one what has arrived.
RelDirInv ==
  /\ relStage \in {"unlock", "fetch"} => UpTo(partNo - 1) \subseteq relDir /\ relDir \subseteq UpTo(partNo)
  /\ relStage = "counted" => relDir = UpTo(partNo)
  /\ relStage = "process" => relDir = PartsOf(packaging)

\* The packagings and the mirrors before are given up; all are when Usenet is asked.
DeadInv ==
  /\ relStage \in Trying \union {"clear"} => \A a \in 1 .. packaging - 1 : Dead(a)
  /\ relStage \in {"unlock", "fetch"} => \A k \in 1 .. mirror - 1 : <<Part, k>> \in givenUp
  /\ relStage \in Asking => \A a \in DOMAIN archives : Dead(a)

SeasonInv ==
  /\ relStage \notin {"season", "assemble", "complete", "failed"} => seasonListed = {}
  /\ PackHasEveryEpisode

RelIInv == RelTypes /\ RelPlaceInv /\ RelDirInv /\ DeadInv /\ SeasonInv

LEMMA RelInitially == ReleaseInit => RelIInv
  <1> SUFFICES ASSUME ReleaseInit PROVE RelIInv
    OBVIOUS
  <1>1. Packagings(<<>>, <<>>)
    BY DEF Packagings
  <1>2. RelTypes
    BY <1>1 DEF ReleaseInit, RelTypes
  <1> QED
    BY <1>2 DEF ReleaseInit, RelIInv, RelPlaceInv, RelDirInv, DeadInv, SeasonInv, PackHasEveryEpisode, Trying, Asking

\* What BestArchive finds on a page.
LEMMA FoundOnPage ==
  ASSUME NEW p \in DOMAIN Pages, NEW best \in BestArchive(Pages[p])
  PROVE  Packagings(best, MirrorsOn(Pages[p]))
  <1> DEFINE page == Pages[p]
             names == {n \in Names(page) : page[LinkTo(page, n)].kind = "rar"}
  <1>1. IsFiniteSet(DOMAIN page)
    BY ReleaseAssumption
  <1>2. DOMAIN MirrorsOn(page) = Names(page)
    BY DEF MirrorsOn
  <1>3. \A n \in Names(page) : MirrorsOn(page)[n] \in Nat
    <2> SUFFICES ASSUME NEW n \in Names(page) PROVE Cardinality({i \in DOMAIN page : page[i].name = n}) \in Nat
      BY DEF MirrorsOn
    <2> QED
      BY <1>1, FS_Subset, FS_CardinalityType
  <1>4. IsFiniteSet(names)
    <2>1. [i \in DOMAIN page |-> page[i].name] \in Surjection(DOMAIN page, Names(page))
      BY DEF Surjection, Names
    <2>2. IsFiniteSet(Names(page))
      BY ONLY <1>1, <2>1, FS_Surjection
    <2> QED
      BY <2>2, FS_Subset
  <1> DEFINE N == Names(page)
             Full(x) == x \in Seq(Seq(N)) /\ \A a \in 1 .. Len(x) : x[a] # <<>>
  <1>5. Full(<<>>) /\ \A s \in Seq(N) : s # <<>> => Full(<<s>>)
    <2> HIDE DEF N
    <2> QED
      OBVIOUS
  <1>6. \A v \in PickVideo(page) : Full(v)
    <2>1. \A n \in N : <<n>> \in Seq(N) /\ <<n>> # <<>>
      <3> HIDE DEF N
      <3> QED
        OBVIOUS
    <2>2. \A v \in PickVideo(page) : v = <<>> \/ \E n \in N : v = <<<<n>>>>
      BY DEF PickVideo, Names
    <2> HIDE DEF Full, N
    <2> QED
      BY <1>5, <2>1, <2>2
  <1>7. \A r \in RarParts(page) : Full(r)
    <2>1. CASE names = {}
      BY <1>5, <2>1 DEF RarParts
    <2>2. CASE names # {}
      <3>1. Cardinality(names) \in Nat \ {0}
        BY <1>4, <2>2, FS_CardinalityType, FS_EmptySet
      <3>2. \A t \in [1 .. Cardinality(names) -> names] : t \in Seq(N) /\ t # <<>>
        <4> DEFINE m == Cardinality(names)
        <4>1. m \in Nat \ {0} /\ names \subseteq N
          BY <3>1
        <4> HIDE DEF m, names, N
        <4>2. \A t \in [1 .. m -> names] : t \in [1 .. m -> N] /\ 1 \in DOMAIN t
          BY <4>1
        <4>3. \A t \in [1 .. m -> N] : t \in Seq(N)
          BY <4>1
        <4> QED
          BY <4>2, <4>3 DEF m
      <3>3. \A r \in RarParts(page) : \E t \in [1 .. Cardinality(names) -> names] : r = <<t>>
        BY <2>2 DEF RarParts
      <3> HIDE DEF Full, N, names
      <3> QED
        BY <1>5, <3>2, <3>3
    <2> QED
      BY <2>1, <2>2
  <1>8. best \in Seq(Seq(N)) /\ \A a \in 1 .. Len(best) : best[a] # <<>>
    <2>1. PICK v \in PickVideo(page), r \in RarParts(page) : best = v \o r
      BY DEF BestArchive
    <2>2. Full(v) /\ Full(r)
      BY <1>6, <1>7
    <2> HIDE DEF N
    <2>3. /\ best \in Seq(Seq(N)) /\ Len(best) = Len(v) + Len(r)
          /\ \A a \in 1 .. Len(v) + Len(r) : best[a] = IF a <= Len(v) THEN v[a] ELSE r[a - Len(v)]
      BY <2>1, <2>2, ConcatProperties
    <2>4. Len(v) \in Nat /\ Len(r) \in Nat
      BY <2>2
    <2>5. ASSUME NEW a \in 1 .. Len(best) PROVE best[a] # <<>>
      <3>1. CASE a <= Len(v)
        <4>1. a \in 1 .. Len(v) /\ best[a] = v[a]
          BY <2>3, <2>4, <2>5, <3>1
        <4> QED
          BY <2>2, <4>1
      <3>2. CASE ~(a <= Len(v))
        <4>1. a - Len(v) \in 1 .. Len(r) /\ best[a] = r[a - Len(v)]
          BY <2>3, <2>4, <2>5, <3>2
        <4> QED
          BY <2>2, <4>1
      <3> QED
        BY <3>1, <3>2
    <2> QED
      BY <2>3, <2>5
  <1> QED
    BY <1>2, <1>3, <1>8 DEF Packagings, page

\* The part it is at.
LEMMA PartThere ==
  ASSUME RelIInv, relStage \in Trying
  PROVE  /\ packaging \in 1 .. Len(archives) /\ partNo \in 1 .. Len(archives[packaging]) /\ Len(archives[packaging]) \in Nat
         /\ Part \in DOMAIN mirrors /\ mirrors[Part] \in Nat /\ Part \in PartsOf(packaging)
         /\ UpTo(Len(archives[packaging])) = PartsOf(packaging)
  <1>1. /\ packaging \in Nat \ {0} /\ partNo \in Nat \ {0} /\ archives \in Seq(Seq(DOMAIN mirrors))
        /\ packaging <= Len(archives) /\ partNo <= Len(archives[packaging]) /\ \A n \in DOMAIN mirrors : mirrors[n] \in Nat
    BY DEF RelIInv, RelTypes, Packagings, RelPlaceInv
  <1>2. packaging \in 1 .. Len(archives)
    BY <1>1
  <1>3. archives[packaging] \in Seq(DOMAIN mirrors)
    BY <1>1, <1>2
  <1> DEFINE a == archives[packaging]
  <1>4. Len(a) \in Nat /\ partNo \in 1 .. Len(a) /\ DOMAIN a = 1 .. Len(a) /\ a[partNo] \in DOMAIN mirrors
    <2> HIDE DEF a
    <2>1. a \in Seq(DOMAIN mirrors) /\ partNo \in Nat \ {0} /\ partNo <= Len(a)
      BY <1>1, <1>3 DEF a
    <2> QED
      BY <2>1
  <1> QED
    BY <1>1, <1>2, <1>4 DEF Part, PartsOf, UpTo

\* Mirrors given up stay so.
LEMMA DeadStays ==
  ASSUME UNCHANGED <<archives, mirrors>>, givenUp \subseteq givenUp'
  PROVE  \A a : Dead(a) => Dead(a)'
  BY DEF Dead, PartsOf

LEMMA RelEndsKeep ==
  ASSUME RelIInv, relStage' \in {"complete", "failed"}, UNCHANGED <<archives, mirrors, relPlace, seasonListed>>
  PROVE  RelIInv'
  BY DEF RelIInv, RelTypes, RelPlaceInv, RelDirInv, DeadInv, SeasonInv, PackHasEveryEpisode, Trying, Asking, relPlace

LEMMA GiveUpKeeps ==
  ASSUME RelIInv, relStage \in {"unlock", "fetch"}, GiveUpMirror, UNCHANGED <<archives, mirrors, seasonListed>>
  PROVE  RelIInv'
  <1>1. relStage \in Trying
    BY DEF Trying
  <1>2. /\ packaging \in 1 .. Len(archives) /\ partNo \in Nat \ {0} /\ mirror \in Nat \ {0}
        /\ Len(archives) \in Nat /\ DOMAIN archives = 1 .. Len(archives)
    BY <1>1, PartThere DEF RelIInv, RelTypes, Packagings
  <1>3. mirrors[Part] \in Nat /\ Part \in PartsOf(packaging)
    BY <1>1, PartThere
  <1>4. givenUp' = givenUp \union {<<Part, mirror>>} /\ UNCHANGED partNo
    BY DEF GiveUpMirror, Fails
  <1>5. \A a : Dead(a) => Dead(a)'
    BY <1>4, DeadStays
  <1>6. \A k \in 1 .. mirror - 1 : <<Part, k>> \in givenUp
    BY DEF RelIInv, DeadInv
  <1>7. \A k \in 1 .. mirror : <<Part, k>> \in givenUp'
    BY <1>2, <1>4, <1>6
  <1>8. \A a \in 1 .. packaging - 1 : Dead(a)'
    BY <1>1, <1>5 DEF RelIInv, DeadInv
  <1>9. seasonListed = {}
    BY DEF RelIInv, SeasonInv
  <1>10. CASE Fails /\ UNCHANGED <<packaging, partNo, mirror>>
    BY <1>10, <1>9 DEF Fails, RelIInv, RelTypes, RelPlaceInv, RelDirInv, DeadInv, SeasonInv, PackHasEveryEpisode, Trying, Asking
  <1>11. CASE mirror' = mirror + 1 /\ relStage' = "unlock" /\ UNCHANGED <<packaging, partNo, relDir>>
    <2>1. Part' = Part /\ UpTo(partNo - 1)' = UpTo(partNo - 1) /\ UpTo(partNo)' = UpTo(partNo)
      BY <1>4, <1>11 DEF Part, UpTo
    <2>2. \A k \in 1 .. mirror' - 1 : <<Part', k>> \in givenUp'
      BY <1>2, <1>7, <1>11, <2>1
    <2>3. RelTypes' /\ RelPlaceInv'
      BY <1>1, <1>2, <1>11 DEF RelIInv, RelTypes, RelPlaceInv, Trying
    <2>4. RelDirInv'
      BY <1>11, <2>1 DEF RelIInv, RelDirInv
    <2>5. DeadInv'
      BY <1>8, <1>11, <2>2 DEF DeadInv, Asking
    <2> QED
      BY <1>9, <1>11, <2>3, <2>4, <2>5 DEF RelIInv, SeasonInv, PackHasEveryEpisode
  <1>12. ASSUME mirror >= mirrors[Part], UNCHANGED <<partNo, mirror>>
         PROVE  \A a \in 1 .. packaging : Dead(a)'
    <2>1. \A k \in 1 .. mirrors[Part] : <<Part, k>> \in givenUp'
      BY <1>2, <1>3, <1>7, <1>12
    <2>2. \A a : a = packaging => Dead(a)'
      BY <1>3, <2>1 DEF Dead, PartsOf
    <2>3. \A a \in 1 .. packaging : a = packaging \/ a \in 1 .. packaging - 1
      BY <1>2
    <2> QED
      BY <1>8, <2>2, <2>3
  <1>13. CASE /\ mirror >= mirrors[Part] /\ UNCHANGED <<partNo, mirror>>
              /\ packaging < Len(archives) /\ packaging' = packaging + 1 /\ relStage' = "clear"
    <2>1. \A a \in 1 .. packaging' - 1 : Dead(a)'
      BY <1>2, <1>12, <1>13
    <2>2. RelTypes' /\ RelPlaceInv'
      BY <1>2, <1>13 DEF RelIInv, RelTypes, RelPlaceInv, Trying
    <2> QED
      BY <1>9, <1>13, <2>1, <2>2 DEF RelIInv, RelDirInv, DeadInv, SeasonInv, PackHasEveryEpisode, Trying, Asking
  <1>14. CASE /\ mirror >= mirrors[Part] /\ UNCHANGED <<partNo, mirror>>
              /\ ~(packaging < Len(archives)) /\ relStage' = "fallback" /\ UNCHANGED packaging
    <2>1. packaging = Len(archives)
      <3>1. ~(packaging < Len(archives)) /\ packaging <= Len(archives)
        BY ONLY <1>2, <1>14
      <3>2. packaging \in Int /\ Len(archives) \in Int
        BY ONLY <1>2
      <3> DEFINE n == Len(archives)
      <3>3. ~(packaging < n) /\ packaging <= n /\ packaging \in Int /\ n \in Int
        BY <3>1, <3>2
      <3> HIDE DEF n
      <3>4. packaging = n
        BY ONLY <3>3
      <3> QED
        BY <3>4 DEF n
    <2>2. \A a \in DOMAIN archives' : Dead(a)'
      BY <1>2, <1>12, <1>14, <2>1
    <2>3. RelTypes' /\ RelPlaceInv'
      BY <1>2, <1>14 DEF RelIInv, RelTypes, RelPlaceInv, Trying, Asking
    <2> QED
      BY <1>9, <1>14, <2>2, <2>3 DEF RelIInv, RelDirInv, DeadInv, SeasonInv, PackHasEveryEpisode, Trying, Asking
  <1> QED
    BY <1>10, <1>11, <1>13, <1>14 DEF GiveUpMirror

\* Another attempt: in the same place, with what the directory has or the part in it.
LEMMA AnotherTryKeeps ==
  ASSUME RelIInv, relStage \in {"unlock", "fetch"}, relStage' \in {"unlock", "fetch"},
         UNCHANGED <<archives, mirrors, packaging, partNo, mirror, givenUp, seasonListed>>,
         relDir' \in {relDir, relDir \union {Part}}
  PROVE  RelIInv'
  <1>1. relStage \in Trying /\ relStage' \in Trying
    BY DEF Trying
  <1>2. Part' = Part /\ UpTo(partNo - 1)' = UpTo(partNo - 1) /\ UpTo(partNo)' = UpTo(partNo) /\ Part \in UpTo(partNo)
    BY <1>1, PartThere DEF Part, UpTo
  <1>3. RelTypes' /\ RelPlaceInv'
    BY <1>1 DEF RelIInv, RelTypes, RelPlaceInv, Trying
  <1>4. RelDirInv'
    BY <1>2 DEF RelIInv, RelDirInv
  <1>5. DeadInv'
    <2>1. \A a : Dead(a) => Dead(a)'
      BY DeadStays
    <2> QED
      BY <1>1, <1>2, <2>1 DEF RelIInv, DeadInv, Asking
  <1> QED
    BY <1>3, <1>4, <1>5 DEF RelIInv, SeasonInv, PackHasEveryEpisode

LEMMA MirrorFailsKeeps ==
  ASSUME RelIInv, relStage \in {"unlock", "fetch"}, MirrorFails, UNCHANGED <<archives, mirrors, seasonListed>>
  PROVE  RelIInv'
  BY GiveUpKeeps, AnotherTryKeeps, RelEndsKeep DEF MirrorFails, Fails

LEMMA ResolveKeeps ==
  ASSUME RelIInv, Resolve
  PROVE  RelIInv'
  <1>1. CASE Fails /\ UNCHANGED <<archives, mirrors>>
    BY <1>1, RelEndsKeep DEF Resolve, Fails
  <1>2. CASE \E p \in DOMAIN Pages : \E best \in BestArchive(Pages[p]) :
                best # <<>> /\ archives' = best /\ mirrors' = MirrorsOn(Pages[p]) /\ relStage' = "clear"
    <2>0. PICK p \in DOMAIN Pages : \E best \in BestArchive(Pages[p]) :
             best # <<>> /\ archives' = best /\ mirrors' = MirrorsOn(Pages[p]) /\ relStage' = "clear"
      BY <1>2
    <2>1. PICK best \in BestArchive(Pages[p]) :
             best # <<>> /\ archives' = best /\ mirrors' = MirrorsOn(Pages[p]) /\ relStage' = "clear"
      BY <2>0
    <2>2. Packagings(archives, mirrors)'
      BY <2>1, FoundOnPage DEF Packagings
    <2>3. packaging = 1 /\ seasonListed = {}
      BY DEF Resolve, RelIInv, RelPlaceInv, SeasonInv
    <2>4. Len(archives') \in Nat \ {0}
      <3> DEFINE S == Seq(DOMAIN mirrors')
      <3>1. archives' \in Seq(S) /\ archives' # <<>>
        BY <2>1, <2>2 DEF Packagings
      <3> HIDE DEF S
      <3> QED
        BY <3>1, EmptySeq
    <2>5. RelTypes' /\ RelPlaceInv'
      BY <2>1, <2>2, <2>3, <2>4 DEF Resolve, relPlace, RelIInv, RelTypes, RelPlaceInv, Trying, Asking
    <2> QED
      BY <2>1, <2>3, <2>5 DEF Resolve, relPlace, RelIInv, RelDirInv, DeadInv, SeasonInv, PackHasEveryEpisode, Trying, Asking
  <1> QED
    BY <1>1, <1>2 DEF Resolve

LEMMA StartPackagingKeeps ==
  ASSUME RelIInv, StartPackaging
  PROVE  RelIInv'
  <1>1. packaging \in 1 .. Len(archives) /\ archives \in Seq(Seq(DOMAIN mirrors)) /\ archives[packaging] # <<>>
    BY DEF StartPackaging, RelIInv, RelTypes, Packagings, RelPlaceInv
  <1>2. Len(archives[packaging]) \in Nat \ {0}
    <2> DEFINE a == archives[packaging]
               N == DOMAIN mirrors
    <2>1. a \in Seq(N) /\ a # <<>>
      BY <1>1
    <2> HIDE DEF a, N
    <2>2. Len(a) \in Nat \ {0}
      BY <2>1, EmptySeq
    <2> QED
      BY <2>2 DEF a
  <1>3. RelTypes' /\ RelPlaceInv'
    BY <1>1, <1>2 DEF StartPackaging, RelIInv, RelTypes, RelPlaceInv, Trying, Asking
  <1>4. RelDirInv'
    BY DEF StartPackaging, RelDirInv, UpTo
  <1>5. DeadInv'
    <2>1. \A a : Dead(a) => Dead(a)'
      BY DeadStays DEF StartPackaging
    <2>2. \A k \in 1 .. mirror' - 1 : FALSE
      BY DEF StartPackaging
    <2> QED
      BY <2>1, <2>2 DEF StartPackaging, RelIInv, DeadInv, Trying, Asking
  <1> QED
    BY <1>3, <1>4, <1>5 DEF StartPackaging, RelIInv, SeasonInv, PackHasEveryEpisode

LEMMA UnlockKeeps ==
  ASSUME RelIInv, Unlock
  PROVE  RelIInv'
  BY GiveUpKeeps, AnotherTryKeeps, RelEndsKeep, MirrorFailsKeeps DEF Unlock, Fails, relPlace

LEMMA FetchMirrorKeeps ==
  ASSUME RelIInv, FetchMirror
  PROVE  RelIInv'
  <1>1. CASE MirrorFails
    BY <1>1, MirrorFailsKeeps DEF FetchMirror
  <1>2. CASE relStage' = "counted" /\ relDir' = relDir \union {Part} /\ UNCHANGED <<relPlace, givenUp>>
    <2>1. relStage \in Trying /\ relStage' \in Trying
      BY <1>2 DEF FetchMirror, Trying
    <2>2. UpTo(partNo)' = UpTo(partNo) /\ UpTo(partNo) = UpTo(partNo - 1) \union {Part}
      <3>1. partNo \in Nat \ {0}
        BY DEF RelIInv, RelTypes
      <3>2. 1 .. partNo = (1 .. partNo - 1) \union {partNo}
        BY <3>1
      <3> QED
        BY <1>2, <3>2 DEF FetchMirror, relPlace, UpTo, Part
    <2>3. RelTypes' /\ RelPlaceInv'
      BY <1>2, <2>1 DEF FetchMirror, relPlace, RelIInv, RelTypes, RelPlaceInv, Trying
    <2>4. RelDirInv'
      BY <1>2, <2>2 DEF FetchMirror, RelIInv, RelDirInv
    <2>5. DeadInv'
      <3>1. \A a : Dead(a) => Dead(a)'
        BY <1>2, DeadStays DEF FetchMirror
      <3> QED
        BY <1>2, <2>1, <3>1 DEF FetchMirror, relPlace, RelIInv, DeadInv, Asking
    <2> QED
      BY <1>2, <2>3, <2>4, <2>5 DEF FetchMirror, RelIInv, SeasonInv, PackHasEveryEpisode
  <1> QED
    BY <1>1, <1>2 DEF FetchMirror

LEMMA CountKeeps ==
  ASSUME RelIInv, Count
  PROVE  RelIInv'
  <1>0. relStage \in Trying /\ UNCHANGED <<archives, mirrors, givenUp, seasonListed>> /\ relStage = "counted"
    BY DEF Count, Trying
  <1>1. /\ partNo \in 1 .. Len(archives[packaging]) /\ Len(archives[packaging]) \in Nat
        /\ UpTo(Len(archives[packaging])) = PartsOf(packaging)
    BY <1>0, PartThere
  <1>2. \A a : Dead(a) => Dead(a)'
    BY <1>0, DeadStays
  <1>3. relDir = UpTo(partNo)
    BY <1>0 DEF RelIInv, RelDirInv
  <1>4. CASE Fails /\ UNCHANGED relPlace
    BY <1>0, <1>4, RelEndsKeep DEF Fails
  <1>5. CASE /\ partNo < Len(archives[packaging]) /\ partNo' = partNo + 1 /\ mirror' = 1 /\ relStage' = "unlock"
             /\ UNCHANGED <<packaging, relDir>>
    <2>1. RelTypes' /\ RelPlaceInv'
      BY <1>0, <1>1, <1>5 DEF RelIInv, RelTypes, RelPlaceInv, Trying
    <2>2. UpTo(partNo - 1)' = UpTo(partNo) /\ UpTo(partNo) \subseteq UpTo(partNo)'
      <3>1. partNo' - 1 = partNo /\ 1 .. partNo \subseteq 1 .. partNo'
        BY <1>1, <1>5
      <3> QED
        BY <1>0, <1>5, <3>1 DEF UpTo
    <2>3. RelDirInv'
      BY <1>3, <1>5, <2>2 DEF RelDirInv
    <2>4. \A k \in 1 .. mirror' - 1 : FALSE
      BY <1>5
    <2>5. DeadInv'
      BY <1>0, <1>2, <1>5, <2>4 DEF RelIInv, DeadInv, Trying, Asking
    <2> QED
      BY <1>0, <1>5, <2>1, <2>3, <2>5 DEF RelIInv, SeasonInv, PackHasEveryEpisode
  <1>6. CASE /\ ~(partNo < Len(archives[packaging])) /\ relStage' = "process" /\ UNCHANGED <<relPlace, relDir>>
    <2>1. partNo = Len(archives[packaging])
      <3>1. ~(partNo < Len(archives[packaging]))
        BY <1>6
      <3> QED
        BY ONLY <1>1, <3>1
    <2>2. relDir' = PartsOf(packaging)'
      BY <1>0, <1>1, <1>3, <1>6, <2>1 DEF PartsOf, relPlace
    <2>3. RelTypes' /\ RelPlaceInv'
      BY <1>0, <1>6 DEF relPlace, RelIInv, RelTypes, RelPlaceInv, Trying
    <2>4. RelDirInv'
      BY <1>6, <2>2 DEF RelDirInv
    <2>5. DeadInv'
      BY <1>0, <1>2, <1>6 DEF relPlace, RelIInv, DeadInv, Trying, Asking
    <2> QED
      BY <1>0, <1>6, <2>3, <2>4, <2>5 DEF RelIInv, SeasonInv, PackHasEveryEpisode
  <1> QED
    BY <1>4, <1>5, <1>6 DEF Count

LEMMA ProcessReleaseKeeps ==
  ASSUME RelIInv, ProcessRelease
  PROVE  RelIInv'
  BY RelEndsKeep DEF ProcessRelease, Fails

\* Usenet is asked of what is dead.
LEMMA AskingKeeps ==
  ASSUME RelIInv, relStage \in Asking, relStage' \in Asking \union {"complete", "failed"},
         UNCHANGED <<archives, mirrors, relPlace, givenUp>>, SeasonInv', seasonListed' \subseteq 1 .. MaxEpisode
  PROVE  RelIInv'
  <1>1. \A a : Dead(a) => Dead(a)'
    BY DeadStays
  <1>2. DeadInv'
    BY <1>1 DEF RelIInv, DeadInv, Trying, Asking
  <1> QED
    BY <1>2 DEF RelIInv, RelTypes, RelPlaceInv, RelDirInv, relPlace, Trying, Asking

\* No gap up to the highest: every number from 1 on is listed.
LEMMA GaplessHasAll ==
  ASSUME NEW S \in SUBSET (1 .. MaxEpisode), NEW e \in S, Gapless(e, S)
  PROVE  S = 1 .. e
  <1>1. e \in Nat \ {0} /\ \A d \in S : d \in Nat /\ 1 <= d /\ d <= e
    BY ReleaseAssumption DEF Gapless, Highest
  <1>2. S \subseteq 1 .. e
    BY <1>1
  <1>3. IsFiniteSet(1 .. e) /\ Cardinality(1 .. e) = e
    BY <1>1, FS_Interval
  <1> QED
    BY <1>2, <1>3, FS_Subset DEF Gapless

LEMMA ChooseSeasonKeeps ==
  ASSUME RelIInv, ChooseSeason
  PROVE  RelIInv'
  <1>1. seasonListed \in SUBSET (1 .. MaxEpisode) /\ UNCHANGED seasonListed
    BY DEF RelIInv, RelTypes, ChooseSeason
  <1>2. relStage' \in {"assemble", "failed"} /\ (relStage' = "assemble" => wanted' # {} /\ wanted' \subseteq seasonListed)
    <2>1. CASE 1 .. SeasonLength \subseteq seasonListed /\ wanted' = 1 .. SeasonLength /\ relStage' = "assemble"
      <3>1. 1 \in 1 .. SeasonLength
        BY ReleaseAssumption
      <3> QED
        BY <2>1, <3>1
    <2>2. CASE (\E e \in seasonListed : Gapless(e, seasonListed) /\ wanted' = 1 .. e) /\ relStage' = "assemble"
      BY <1>1, <2>2, GaplessHasAll
    <2> QED
      BY <2>1, <2>2 DEF ChooseSeason
  <1> QED
    BY <1>1, <1>2, AskingKeeps DEF ChooseSeason, RelIInv, SeasonInv, PackHasEveryEpisode, Asking

LEMMA ReleaseStepKeeps ==
  ASSUME RelIInv, [ReleaseNext]_releaseVars
  PROVE  RelIInv'
  <1>1. CASE Resolve
    BY <1>1, ResolveKeeps
  <1>2. CASE StartPackaging
    BY <1>2, StartPackagingKeeps
  <1>3. CASE Unlock
    BY <1>3, UnlockKeeps
  <1>4. CASE FetchMirror
    BY <1>4, FetchMirrorKeeps
  <1>5. CASE Count
    BY <1>5, CountKeeps
  <1>6. CASE ProcessRelease
    BY <1>6, ProcessReleaseKeeps
  <1>7. CASE TrySingle
    BY <1>7, AskingKeeps DEF TrySingle, RelIInv, RelTypes, SeasonInv, PackHasEveryEpisode, Asking
  <1>8. CASE SearchPack
    BY <1>8, AskingKeeps DEF SearchPack, SeasonInv, PackHasEveryEpisode, Asking
  <1>9. CASE ChooseSeason
    BY <1>9, ChooseSeasonKeeps
  <1>10. CASE Assemble
    BY <1>10, AskingKeeps DEF Assemble, RelIInv, RelTypes, SeasonInv, PackHasEveryEpisode, Asking
  <1>11. CASE CancelRelease \/ UNCHANGED releaseVars
    <2>1. UNCHANGED <<relStage, archives, mirrors, relPlace, relDir, givenUp, wanted, seasonListed>>
      BY <1>11 DEF CancelRelease, releaseVars
    <2>2. \A a : Dead(a) => Dead(a)'
      BY <2>1, DeadStays
    <2>3. DeadInv'
      BY <2>1, <2>2 DEF RelIInv, DeadInv, relPlace, Part
    <2> QED
      BY <2>1, <2>3 DEF RelIInv, RelTypes, RelPlaceInv, RelDirInv, SeasonInv, PackHasEveryEpisode, relPlace, UpTo, PartsOf
  <1> QED
    BY <1>1, <1>2, <1>3, <1>4, <1>5, <1>6, <1>7, <1>8, <1>9, <1>10, <1>11 DEF ReleaseNext, ReleaseStep

\* What it says of the properties.
LEMMA ReleaseStays == RelIInv => UnpacksOnePackaging /\ FallbackWhenDead /\ PackHasEveryEpisode
  BY DEF RelIInv, RelDirInv, DeadInv, SeasonInv, UnpacksOnePackaging, FallbackWhenDead, Asking, Dead

\* For any post: what is unpacked is one packaging with all its parts, Usenet is asked when
\* every packaging is dead, and a season has every episode (release.go, usenetfallback.go).
THEOREM ReleaseHolds == ReleaseSpec => [](UnpacksOnePackaging /\ FallbackWhenDead /\ PackHasEveryEpisode)
  BY RelInitially, ReleaseStepKeeps, ReleaseStays, PTL DEF ReleaseSpec

-----------------------------------------------------------------------------
(* A link's video, within the plan's limit.                                *)

\* What has arrived since the last look is no more than may arrive between two.
SizeInv ==
  /\ seen \in Nat /\ unseen \in 0 .. TickBytes /\ dirSize = seen + unseen
  /\ linkStage # "failed" /\ MaxBytes > 0 => seen <= MaxBytes

\* A merged video has all its bytes; only what the link leads to is on disk.
MergedInv ==
  /\ got \in [Video -> Nat] /\ file \in [Video -> {"none", "stream", "whole"}]
  /\ \A v \in Video : /\ file[v] = "whole" => got[v] = ItemBytes
                      /\ file[v] # "none" => v \in Offered

\* The process has ended well when one video is collected, and then that video is merged.
EndedInv ==
  /\ linkStage = "probe" => ytdlp = "off"
  /\ linkStage \in {"collect", "complete"} => ytdlp # "running"
  /\ linkStage \in {"collect", "complete"} /\ ~ofList => ytdlp = "exited"
  /\ ytdlp = "exited" => \A v \in Offered : file[v] = "whole"
  /\ collected \subseteq Video
  /\ linkStage = "complete" /\ ~ofList => \A v \in collected : file[v] = "whole"

LinkIInv == SizeInv /\ MergedInv /\ EndedInv

LEMMA LinkInitially == LinkInit => LinkIInv
  <1> SUFFICES ASSUME LinkInit PROVE LinkIInv
    OBVIOUS
  <1>1. SizeInv
    <2>1. 0 \in 0 .. TickBytes /\ 0 = 0 + 0 /\ MaxBytes \in Nat
      BY LinkAssumption
    <2> QED
      BY <2>1 DEF LinkInit, SizeInv
  <1> QED
    BY <1>1 DEF LinkInit, LinkIInv, MergedInv, EndedInv

LEMMA LinkStepKeeps ==
  ASSUME LinkIInv, [LinkNext]_linkVars
  PROVE  LinkIInv'
  <1> USE DEF LinkIInv
  <1>1. CASE Probe
    <2>1. SizeInv'
      BY <1>1 DEF Probe, SizeInv, onDisk, atTick
    <2> QED
      BY <1>1, <2>1 DEF Probe, MergedInv, EndedInv, Offered, onDisk
  <1>2. ASSUME NEW v \in Video, Arrive(v) PROVE LinkIInv'
    <2>1. SizeInv'
      BY <1>2, LinkAssumption DEF Arrive, SizeInv, atTick
    <2>2. MergedInv'
      <3>1. got[v] \in Nat
        BY DEF MergedInv
      <3>2. got' \in [Video -> Nat] /\ file' \in [Video -> {"none", "stream", "whole"}]
        BY <1>2, <3>1 DEF Arrive, MergedInv
      <3>3. /\ \A u \in Video : u # v => file'[u] = file[u] /\ got'[u] = got[u]
            /\ file'[v] = "stream" /\ Offered' = Offered
        BY <1>2 DEF Arrive, MergedInv, Offered
      <3> QED
        BY <1>2, <3>2, <3>3 DEF Arrive, MergedInv
    <2> QED
      BY <1>2, <2>1, <2>2 DEF Arrive, EndedInv, Offered
  <1>3. ASSUME NEW v \in Video, Merge(v) PROVE LinkIInv'
    <2>1. SizeInv'
      BY <1>3 DEF Merge, SizeInv, atTick
    <2>2. MergedInv'
      BY <1>3 DEF Merge, MergedInv, Offered
    <2> QED
      BY <1>3, <2>1, <2>2 DEF Merge, EndedInv, Offered
  <1>4. CASE Exit \/ Kill
    <2>1. SizeInv'
      BY <1>4 DEF Exit, Kill, SizeInv, onDisk, atTick
    <2> QED
      BY <1>4, <2>1 DEF Exit, Kill, MergedInv, EndedInv, Offered, onDisk
  <1>5. CASE LookAtDir
    <2>1. SizeInv'
      <3>1. dirSize \in Nat /\ seen' = dirSize /\ unseen' = 0 /\ dirSize' = dirSize /\ 0 \in 0 .. TickBytes
        BY <1>5, LinkAssumption DEF LookAtDir, SizeInv, onDisk
      <3>2. linkStage' # "failed" => ~OverLimit(dirSize)
        BY <1>5 DEF LookAtDir
      <3> QED
        BY <3>1, <3>2, LinkAssumption DEF SizeInv, OverLimit
    <2> QED
      BY <1>5, <2>1 DEF LookAtDir, MergedInv, EndedInv, Offered, onDisk
  <1>6. CASE Waited
    <2>1. SizeInv'
      BY <1>6 DEF Waited, SizeInv, onDisk, atTick
    <2> QED
      BY <1>6, <2>1 DEF Waited, MergedInv, EndedInv, Offered, onDisk
  <1>7. CASE Collect
    <2>1. SizeInv'
      BY <1>7 DEF Collect, SizeInv, onDisk, atTick
    <2> QED
      BY <1>7, <2>1 DEF Collect, MergedInv, EndedInv, Offered, onDisk
  <1>8. CASE Abort \/ UNCHANGED linkVars
    <2>1. SizeInv'
      BY <1>8 DEF Abort, linkVars, SizeInv, onDisk, atTick
    <2> QED
      BY <1>8, <2>1 DEF Abort, linkVars, MergedInv, EndedInv, Offered, onDisk
  <1> QED
    BY <1>1, <1>2, <1>3, <1>4, <1>5, <1>6, <1>7, <1>8 DEF LinkNext

\* What it says of the properties.
LEMMA LinkStays == LinkIInv => OverrunIsOneTick /\ UnmergedOnlyInLists
  <1> SUFFICES ASSUME LinkIInv PROVE OverrunIsOneTick /\ UnmergedOnlyInLists
    OBVIOUS
  <1>1. OverrunIsOneTick
    BY LinkAssumption DEF LinkIInv, SizeInv, OverrunIsOneTick
  <1> QED
    BY <1>1 DEF LinkIInv, MergedInv, EndedInv, UnmergedOnlyInLists

\* For any link, limit and pace: a download is over the limit by one look's bytes at most, and
\* one video is published merged (ytdlp.go).
THEOREM LinkHolds == LinkSpec => [](OverrunIsOneTick /\ UnmergedOnlyInLists)
  BY LinkInitially, LinkStepKeeps, LinkStays, PTL DEF LinkSpec

-----------------------------------------------------------------------------
(* One file by HTTP.                                                       *)

PartTypes ==
  /\ way \in {"idle", "parallel", "opening", "reading", "failed", "done"}
  /\ part \in Seq(0 .. Size) /\ Len(part) <= Size
  /\ cursor \in [Chunk -> Nat] /\ reach \in Nat

\* A block of the file is where it belongs, or a hole; there is none in what is shorter than
\* the file.
InItsPlace == \A i \in 1 .. Len(part) : part[i] = i \/ (part[i] = 0 /\ Len(part) = Size)

\* What a chunk has passed has arrived.
ChunkInv ==
  way = "parallel" => /\ Len(part) = Size
                      /\ \A c \in Chunk : cursor[c] >= ChunkFrom[c]
                      /\ \A c \in Chunk : \A i \in ChunkFrom[c] .. cursor[c] - 1 : i \in 1 .. Size => part[i] = i

\* In sequence the file is read from its end on, or, when it has its full length, from the start.
SerialInv ==
  /\ way \in {"opening", "reading"} => reach = Len(part)
  /\ way \in {"reading", "done"} => \A i \in 1 .. Len(part) : part[i] = i
  /\ way = "done" => Len(part) = Size

PartIInv == PartTypes /\ InItsPlace /\ ChunkInv /\ SerialInv

LEMMA PartInitially == PartInit => PartIInv
  <1> SUFFICES ASSUME PartInit PROVE PartIInv
    OBVIOUS
  <1>1. PartTypes
    BY PartAssumption DEF PartInit, PartTypes
  <1> QED
    BY <1>1 DEF PartInit, PartIInv, InItsPlace, ChunkInv, SerialInv

LEMMA PartStepKeeps ==
  ASSUME PartIInv, [PartNext]_partVars
  PROVE  PartIInv'
  <1> USE DEF PartIInv
  <1>0. Size \in Nat \ {0} /\ part \in Seq(0 .. Size) /\ Len(part) \in Nat /\ Len(part) <= Size
    BY PartAssumption DEF PartTypes
  <1>1. CASE FetchFile
    <2>1. CASE /\ way' = "parallel" /\ part' = Resized(Size) /\ cursor' = [c \in Chunk |-> ChunkFrom[c]]
               /\ UNCHANGED reach
      <3>1. /\ part' \in [1 .. Size -> 0 .. Size]
            /\ \A i \in 1 .. Size : part'[i] = IF i <= Len(part) THEN part[i] ELSE 0
        BY <1>0, <2>1 DEF Resized
      <3>2. part' \in Seq(0 .. Size) /\ Len(part') = Size
        BY <1>0, <3>1
      <3>3. PartTypes'
        BY <1>0, <2>1, <3>2, PartAssumption DEF PartTypes
      <3>4. InItsPlace'
        BY <1>0, <3>1, <3>2 DEF InItsPlace
      <3>5. ChunkInv'
        <4>1. \A c \in Chunk : cursor'[c] = ChunkFrom[c] /\ ChunkFrom[c] \in Nat
          BY <2>1, PartAssumption
        <4>2. \A c \in Chunk : ChunkFrom[c] .. cursor'[c] - 1 = {}
          BY <4>1
        <4> QED
          BY <3>2, <4>1, <4>2 DEF ChunkInv
      <3> QED
        BY <2>1, <3>3, <3>4, <3>5 DEF SerialInv
    <2>2. CASE way' = "opening" /\ reach' = Len(part) /\ UNCHANGED <<part, cursor, partTries>>
      BY <1>0, <2>2 DEF PartTypes, InItsPlace, ChunkInv, SerialInv
    <2> QED
      BY <1>1, <2>1, <2>2 DEF FetchFile
  <1>2. ASSUME NEW c \in Chunk, ChunkBlock(c) PROVE PartIInv'
    <2> DEFINE b == cursor[c]
    <2>1. b \in 1 .. Size /\ Len(part) = Size
      <3>1. way = "parallel" /\ ~(cursor[c] > ChunkTo[c])
        BY <1>2 DEF ChunkBlock, ChunkOver
      <3>2. Len(part) = Size /\ cursor[c] >= ChunkFrom[c] /\ cursor[c] \in Nat
        BY <3>1 DEF ChunkInv, PartTypes
      <3>3. ChunkFrom[c] \in 1 .. Size /\ ChunkTo[c] \in 1 .. Size
        BY PartAssumption
      <3> QED
        BY ONLY <1>0, <3>1, <3>2, <3>3
    <2>2. /\ part' \in Seq(0 .. Size) /\ Len(part') = Size /\ part'[b] = b
          /\ \A i \in 1 .. Size : i # b => part'[i] = part[i]
      BY <1>0, <1>2, <2>1 DEF ChunkBlock, Placed
    <2>3. /\ cursor' \in [Chunk -> Nat] /\ cursor'[c] = b + 1
          /\ \A d \in Chunk \ {c} : cursor'[d] = cursor[d]
      BY <1>2, <2>1 DEF ChunkBlock, PartTypes
    <2>4. PartTypes'
      BY <1>0, <1>2, <2>2, <2>3 DEF ChunkBlock, PartTypes
    <2>5. InItsPlace'
      BY <1>0, <2>1, <2>2 DEF InItsPlace
    <2>6. ChunkInv'
      <3>1. \A d \in Chunk : cursor'[d] >= ChunkFrom[d]
        BY <1>2, <2>1, <2>3, PartAssumption DEF ChunkBlock, ChunkInv
      <3>2. ASSUME NEW d \in Chunk, NEW i \in ChunkFrom[d] .. cursor'[d] - 1, i \in 1 .. Size PROVE part'[i] = i
        <4>1. CASE i = b
          BY <2>2, <4>1
        <4>2. CASE i # b
          <5>1. i \in ChunkFrom[d] .. cursor[d] - 1
            <6>1. ChunkFrom[d] \in Nat /\ cursor[d] \in Nat /\ b \in Nat
              BY PartAssumption DEF PartTypes
            <6>2. d = c => cursor'[d] = b + 1 /\ cursor[d] = b
              BY <2>3
            <6>3. d # c => cursor'[d] = cursor[d]
              BY <2>3
            <6> QED
              BY <3>2, <4>2, <6>1, <6>2, <6>3
          <5> QED
            BY <1>2, <2>2, <3>2, <4>2, <5>1 DEF ChunkBlock, ChunkInv
        <4> QED
          BY <4>1, <4>2
      <3> QED
        BY <2>2, <3>1, <3>2 DEF ChunkInv
    <2> QED
      BY <1>2, <2>4, <2>5, <2>6 DEF ChunkBlock, SerialInv
  <1>3. ASSUME NEW c \in Chunk, ChunkBreaks(c) PROVE PartIInv'
    BY <1>3 DEF ChunkBreaks, PartTypes, InItsPlace, ChunkInv, SerialInv
  <1>4. CASE ParallelOver
    <2>1. CASE (\A c \in Chunk : cursor[c] > ChunkTo[c]) /\ way' = "done" /\ UNCHANGED <<part, reach>>
      <3>1. Len(part) = Size
        BY <1>4 DEF ParallelOver, ChunkInv
      <3>2. ASSUME NEW i \in 1 .. Size PROVE part[i] = i
        <4>1. PICK c \in Chunk : i \in ChunkFrom[c] .. ChunkTo[c]
          BY PartAssumption
        <4>2. i \in ChunkFrom[c] .. cursor[c] - 1
          BY <2>1, <4>1, PartAssumption DEF PartTypes
        <4> QED
          BY <1>4, <4>2 DEF ParallelOver, ChunkInv
      <3> QED
        BY <1>4, <2>1, <3>1, <3>2 DEF ParallelOver, PartTypes, InItsPlace, ChunkInv, SerialInv
    <2>2. CASE way' = "opening" /\ part' = <<>> /\ reach' = 0
      BY <1>0, <1>4, <2>2 DEF ParallelOver, PartTypes, InItsPlace, ChunkInv, SerialInv
    <2> QED
      BY <1>4, <2>1, <2>2 DEF ParallelOver
  <1>5. ASSUME SerialFails, way \in {"opening", "reading"} PROVE PartIInv'
    <2>1. CASE way' = "failed" /\ part' = <<>>
      BY <1>0, <1>5, <2>1 DEF SerialFails, PartTypes, InItsPlace, ChunkInv, SerialInv
    <2>2. CASE way' = "opening" /\ UNCHANGED part
      BY <1>0, <1>5, <2>2 DEF SerialFails, PartTypes, InItsPlace, ChunkInv, SerialInv
    <2> QED
      BY <1>5, <2>1, <2>2 DEF SerialFails
  <1>6. CASE OpenFails \/ ReadBreaks
    BY <1>5, <1>6 DEF OpenFails, ReadBreaks
  <1>7. CASE OpenFull
    BY <1>0, <1>7 DEF OpenFull, PartTypes, InItsPlace, ChunkInv, SerialInv
  <1>8. CASE OpenPartial
    BY <1>0, <1>8 DEF OpenPartial, PartTypes, InItsPlace, ChunkInv, SerialInv
  <1>9. CASE ReadBlock
    <2>1. reach = Len(part) /\ reach < Size /\ part' = Append(part, reach + 1) /\ reach' = reach + 1 /\ way' = "reading"
      BY <1>9 DEF ReadBlock, SerialInv
    <2>2. part' \in Seq(0 .. Size) /\ Len(part') = Len(part) + 1
          /\ \A i \in 1 .. Len(part) : part'[i] = part[i] /\ part'[Len(part) + 1] = Len(part) + 1
      BY <1>0, <2>1
    <2>3. part'[Len(part) + 1] = Len(part) + 1
      BY <1>0, <2>1
    <2>4. \A i \in 1 .. Len(part') : part'[i] = i
      <3>1. \A i \in 1 .. Len(part) : part[i] = i
        BY <1>9 DEF ReadBlock, SerialInv
      <3>2. \A i \in 1 .. Len(part') : i \in 1 .. Len(part) \/ i = Len(part) + 1
        BY <1>0, <2>2
      <3> QED
        BY <2>2, <2>3, <3>1, <3>2
    <2> QED
      BY <1>0, <1>9, <2>1, <2>2, <2>4 DEF ReadBlock, PartTypes, InItsPlace, ChunkInv, SerialInv
  <1>10. CASE ReadOver
    BY <1>0, <1>10 DEF ReadOver, PartTypes, InItsPlace, ChunkInv, SerialInv
  <1>11. CASE Cancelled \/ UNCHANGED partVars
    BY <1>11 DEF Cancelled, partVars, PartTypes, InItsPlace, ChunkInv, SerialInv
  <1> QED
    BY <1>1, <1>2, <1>3, <1>4, <1>6, <1>7, <1>8, <1>9, <1>10, <1>11 DEF PartNext, PartStep

\* What it says of the properties.
LEMMA PartStays == PartIInv => DoneIsWhole /\ ReadsInPlace
  <1> SUFFICES ASSUME PartIInv PROVE DoneIsWhole /\ ReadsInPlace
    OBVIOUS
  <1>1. part \in Seq(0 .. Size) /\ Len(part) \in Nat /\ Size \in Nat
    BY PartAssumption DEF PartIInv, PartTypes
  <1>2. ASSUME way = "done" PROVE part = [i \in 1 .. Size |-> i]
    <2>1. Len(part) = Size /\ \A i \in 1 .. Size : part[i] = i
      BY <1>2 DEF PartIInv, SerialInv
    <2> QED
      BY <1>1, <2>1
  <1> QED
    BY <1>2 DEF PartIInv, SerialInv, DoneIsWhole, ReadsInPlace

\* For any size, chunks, answers and failures: a file that is done has every block, in its place,
\* and what a broken download left is taken up where it ended (httpdl.go).
THEOREM PartHolds == PartSpec => [](DoneIsWhole /\ ReadsInPlace)
  BY PartInitially, PartStepKeeps, PartStays, PTL DEF PartSpec

-----------------------------------------------------------------------------
(* A release from Usenet.                                                  *)

PieceStates == {"todo", "flying", "got", "gone", "again", "skipped", "fatal"}
Ended == In("got") \union In("gone")

FetchTypes ==
  /\ leg \in {"start", "fetch", "repair", "unpack", "published", "failed"}
  /\ piece \in [Seg -> PieceStates]
  /\ at \in Nat \ {0} /\ lacking \in Nat /\ tally \in Nat
  /\ IsFiniteSet(DOMAIN holes)

\* It fetches a file that there is, and has in its directory no other than those before.
AtInv ==
  /\ leg = "start" => at = 1 /\ piece = Fresh /\ tally = 0 /\ lacking = 0 /\ holes = <<>>
  /\ leg = "fetch" => at <= Len(Order)
  /\ leg \in {"fetch", "repair"} => DOMAIN holes \subseteq {Order[i] : i \in 1 .. at - 1}
  /\ at <= Len(Order) + 1 /\ (at = Len(Order) + 1 => piece = Fresh)

\* Only a cancellation ends a segment without an answer.
StopInv == ~stopped => In("fatal") = {} /\ In("skipped") = {}

\* What counts as done of the files before, and of this one's segments that have ended.
DoneInv == tally <= (at - 1) * Cardinality(Seg) + Cardinality(Ended)

\* A release with its par2 set leaves the repair whole.
RepairedInv ==
  leg \in {"unpack", "published"} /\ InDir(Parity) => \A f \in Videos : InDir(f) /\ holes[f] = {}

FetchIInv == FetchTypes /\ AtInv /\ StopInv /\ DoneInv /\ RepairedInv /\ HolesReported

LEMMA SegNumbers ==
  /\ IsFiniteSet(Seg) /\ Cardinality(Seg) \in Nat /\ Len(Order) \in Nat
  /\ \A T \in SUBSET Seg : IsFiniteSet(T) /\ Cardinality(T) \in Nat /\ Cardinality(T) <= Cardinality(Seg)
  BY UsenetAssumption, FS_CardinalityType, FS_Subset

LEMMA VideoNumbers == IsFiniteSet(Videos)
  <1> DEFINE OrderedFiles == {Order[i] : i \in DOMAIN Order}
  <1>1. DOMAIN Order = 1 .. Len(Order)
    BY UsenetAssumption, SegNumbers
  <1>2. IsFiniteSet(DOMAIN Order)
    BY <1>1, SegNumbers, FS_Interval
  <1>3. [i \in DOMAIN Order |-> Order[i]] \in Surjection(DOMAIN Order, OrderedFiles)
    BY DEF Surjection
  <1>4. IsFiniteSet(OrderedFiles)
    BY ONLY <1>2, <1>3, FS_Surjection
  <1> QED
    BY <1>4, FS_Difference DEF Videos

LEMMA FetchInitially == FetchInit => FetchIInv
  <1> SUFFICES ASSUME FetchInit PROVE FetchIInv
    OBVIOUS
  <1>1. DOMAIN holes = {} /\ IsFiniteSet({})
    BY FS_EmptySet DEF FetchInit
  <1>2. FetchTypes
    BY <1>1 DEF FetchInit, FetchTypes, Fresh, PieceStates
  <1>3. AtInv
    BY <1>1, SegNumbers DEF FetchInit, AtInv
  <1>4. DoneInv
    BY SegNumbers DEF FetchInit, DoneInv, Ended, In
  <1> QED
    BY <1>1, <1>2, <1>3, <1>4 DEF FetchInit, FetchIInv, StopInv, In, Fresh, RepairedInv, HolesReported

\* The gaps of the files before are finite, and a file's own are as many as its segments
\* without data.
LEMMA GapNumbers ==
  ASSUME IsFiniteSet(DOMAIN holes)
  PROVE  IsFiniteSet(Gaps) /\ Cardinality(Gaps) \in Nat
  <1>1. IsFiniteSet((DOMAIN holes) \X Seg)
    BY UsenetAssumption, FS_Product
  <1>2. Gaps \in SUBSET ((DOMAIN holes) \X Seg)
    BY DEF Gaps
  <1> QED
    BY <1>1, <1>2, FS_Subset, FS_CardinalityType

LEMMA OwnGaps ==
  ASSUME NEW f, NEW M \in SUBSET Seg
  PROVE  IsFiniteSet({f} \X M) /\ Cardinality({f} \X M) = Cardinality(M)
  <1>1. IsFiniteSet({f}) /\ Cardinality({f}) = 1
    BY FS_Singleton
  <1>2. IsFiniteSet(M) /\ Cardinality(M) \in Nat
    BY SegNumbers
  <1>3. IsFiniteSet({f} \X M) /\ Cardinality({f} \X M) = Cardinality({f}) * Cardinality(M)
    BY <1>1, <1>2, FS_Product
  <1>4. \A n \in Nat : 1 * n = n
    OBVIOUS
  <1> QED
    BY <1>1, <1>2, <1>3, <1>4

\* A file that comes to an end adds its own gaps to those of the others, and replaces those
\* of a file of its name.
LEMMA FileAddsItsGaps ==
  ASSUME FetchIInv, FileOver
  PROVE  LET M == In("gone") \union In("again")
         IN  /\ ~stopped => Cardinality(Gaps') <= Cardinality(Gaps) + Cardinality(M)
             /\ ~stopped /\ NamesApart => Cardinality(Gaps') = Cardinality(Gaps) + Cardinality(M)
             /\ IsFiniteSet(DOMAIN holes')
  <1> DEFINE M == In("gone") \union In("again")
             f == Order[at]
             B == {p \in Gaps : p[1] # f}
  <1>t. FetchTypes /\ AtInv /\ StopInv
    BY DEF FetchIInv
  <1>1. /\ leg = "fetch" /\ In("todo") = {} /\ In("flying") = {} /\ In("fatal") = {}
        /\ holes' = [g \in DOMAIN holes \union {f} |-> IF g = f THEN Seg \ In("got") ELSE holes[g]]
    BY DEF FileOver, PassOver, Finished
  <1>2. ~stopped => Seg \ In("got") = M
    <2> SUFFICES ASSUME ~stopped PROVE Seg \ In("got") = M
      OBVIOUS
    <2>1. In("skipped") = {}
      BY DEF StopInv, FetchIInv
    <2>2. \A s \in Seg : piece[s] \in PieceStates
      BY <1>t DEF FetchTypes
    <2>3. \A s \in Seg : piece[s] \in {"got", "gone", "again"}
      BY <1>1, <2>1, <2>2 DEF In, PieceStates
    <2> QED
      BY <2>3 DEF In
  <1>3. DOMAIN holes' = DOMAIN holes \union {f} /\ IsFiniteSet(DOMAIN holes')
    BY <1>1, <1>t, FS_AddElement DEF FetchTypes
  <1>4. IsFiniteSet(Gaps) /\ Cardinality(Gaps) \in Nat
    BY <1>t, GapNumbers DEF FetchTypes
  <1>5. IsFiniteSet(B) /\ Cardinality(B) \in Nat /\ Cardinality(B) <= Cardinality(Gaps)
    BY <1>4, FS_Subset, FS_CardinalityType
  <1>6. M \in SUBSET Seg /\ Cardinality(M) \in Nat
    BY SegNumbers DEF In
  <1>7. IsFiniteSet({f} \X M) /\ Cardinality({f} \X M) = Cardinality(M)
    BY <1>6, OwnGaps
  <1>8. ~stopped => Gaps' = B \union ({f} \X M)
    <2> SUFFICES ASSUME ~stopped PROVE Gaps' = B \union ({f} \X M)
      OBVIOUS
    <2>1. holes' = [g \in DOMAIN holes \union {f} |-> IF g = f THEN M ELSE holes[g]]
      BY <1>1, <1>2
    <2>2. Gaps' = {p \in (DOMAIN holes \union {f}) \X Seg : p[2] \in holes'[p[1]]}
      BY <2>1, <1>3 DEF Gaps
    <2> HIDE DEF f, M
    <2> QED
      BY <2>1, <2>2, <1>6 DEF Gaps
  <1>9. B \intersect ({f} \X M) = {}
    BY DEF Gaps
  <1>10. Cardinality({}) = 0
    BY FS_EmptySet
  <1>11. Cardinality(B \union ({f} \X M)) = Cardinality(B) + Cardinality(M) - Cardinality(B \intersect ({f} \X M))
    BY <1>5, <1>7, FS_Union
  <1>12. Cardinality(B \union ({f} \X M)) = Cardinality(B) + Cardinality(M)
    <2>1. Cardinality(B \intersect ({f} \X M)) = 0
      BY <1>9, <1>10
    <2> HIDE DEF B, M, f
    <2> QED
      BY ONLY <1>5, <1>6, <1>11, <2>1
  <1>13. NamesApart => B = Gaps
    <2> SUFFICES ASSUME NamesApart PROVE f \notin DOMAIN holes
      BY DEF Gaps
    <2>1. at \in 1 .. Len(Order) /\ at \in Nat
      BY <1>1, <1>t, SegNumbers DEF AtInv, FetchTypes
    <2>2. DOMAIN Order = 1 .. Len(Order)
      BY UsenetAssumption, SegNumbers
    <2>3. \A i \in 1 .. at - 1 : i \in DOMAIN Order /\ i # at
      BY <2>1, <2>2, SegNumbers
    <2> QED
      BY <1>1, <1>t, <2>1, <2>2, <2>3 DEF AtInv, NamesApart
  <1> HIDE DEF B, f
  <1>14. ~stopped => Cardinality(Gaps') <= Cardinality(Gaps) + Cardinality(M)
    <2>1. Cardinality(B) + Cardinality(M) <= Cardinality(Gaps) + Cardinality(M)
      BY ONLY <1>4, <1>5, <1>6
    <2> QED
      BY <1>8, <1>12, <2>1
  <1> QED
    BY <1>3, <1>8, <1>12, <1>13, <1>14

LEMMA OneFileMore == \A a \in Nat \ {0}, c \in Nat : a * c = (a - 1) * c + c /\ (a - 1) * c \in Nat
  OBVIOUS

\* A piece that ends without an end of the file.
LEMMA PieceKeeps ==
  ASSUME FetchIInv, NEW s \in Seg, NEW t \in PieceStates, leg = "fetch",
         piece[s] \in {"todo", "flying"}, piece' = [piece EXCEPT ![s] = t],
         ~stopped => t \notin {"fatal", "skipped"},
         tally' = IF t \in {"got", "gone"} THEN tally + 1 ELSE tally,
         UNCHANGED <<leg, via, at, pass, holes, lacking, stopped>>
  PROVE  FetchIInv'
  <1>t. FetchTypes /\ AtInv /\ StopInv /\ DoneInv
    BY DEF FetchIInv
  <1>1. FetchTypes'
    BY <1>t DEF FetchTypes
  <1>2. AtInv'
    <2>1. at # Len(Order) + 1
      BY <1>t, SegNumbers DEF AtInv, FetchTypes
    <2> QED
      BY <1>t, <2>1 DEF AtInv
  <1>3. \A u \in {"fatal", "skipped"} : t # u => In(u)' \subseteq In(u)
    BY <1>t DEF In, FetchTypes
  <1>4. StopInv'
    BY <1>t, <1>3 DEF StopInv
  <1>5. Ended' = IF t \in {"got", "gone"} THEN Ended \union {s} ELSE Ended
    BY <1>t DEF Ended, In, FetchTypes, PieceStates
  <1>6. s \notin Ended /\ Ended \in SUBSET Seg
    BY <1>t DEF Ended, In
  <1>7. Cardinality(Ended) \in Nat /\ Cardinality(Ended \union {s}) = Cardinality(Ended) + 1
    BY <1>6, SegNumbers, FS_AddElement
  <1>8. DoneInv'
    <2>1. (at - 1) * Cardinality(Seg) \in Nat /\ tally \in Nat
      BY <1>t, OneFileMore, SegNumbers DEF FetchTypes
    <2>2. CASE t \in {"got", "gone"}
      <3>1. tally' = tally + 1 /\ Cardinality(Ended') = Cardinality(Ended) + 1
        BY <2>2, <1>5, <1>7
      <3> QED
        BY <1>t, <1>7, <2>1, <3>1 DEF DoneInv
    <2>3. CASE t \notin {"got", "gone"}
      BY <1>t, <2>3, <1>5 DEF DoneInv
    <2> QED
      BY <2>2, <2>3
  <1>9. Gaps' = Gaps
    BY DEF Gaps
  <1> QED
    BY <1>1, <1>2, <1>4, <1>8, <1>9 DEF FetchIInv, RepairedInv, HolesReported

\* The end of a file.
LEMMA FileOverKeeps ==
  ASSUME FetchIInv, FileOver
  PROVE  FetchIInv'
  <1> DEFINE M == In("gone") \union In("again")
  <1>t. FetchTypes /\ AtInv /\ StopInv /\ DoneInv
    BY DEF FetchIInv
  <1>1. /\ leg = "fetch" /\ piece' = Fresh /\ at' = at + 1 /\ stopped' = stopped /\ via' = via
        /\ lacking' = lacking + Cardinality(M) /\ tally' = tally + Cardinality(In("again"))
        /\ leg' = IF at = Len(Order) THEN "repair" ELSE leg
        /\ DOMAIN holes' = DOMAIN holes \union {Order[at]}
    BY DEF FileOver, PassOver, Finished
  <1>2. at \in Nat \ {0} /\ at <= Len(Order) /\ Len(Order) \in Nat /\ tally \in Nat /\ lacking \in Nat
    BY <1>1, <1>t, SegNumbers DEF AtInv, FetchTypes
  <1>3. /\ ~stopped => Cardinality(Gaps') <= Cardinality(Gaps) + Cardinality(M)
        /\ ~stopped /\ NamesApart => Cardinality(Gaps') = Cardinality(Gaps) + Cardinality(M)
        /\ IsFiniteSet(DOMAIN holes')
    BY FileAddsItsGaps
  <1>4. M \in SUBSET Seg /\ In("again") \in SUBSET Seg /\ Ended \in SUBSET Seg
    BY DEF In, Ended
  <1>5. Cardinality(M) \in Nat /\ Cardinality(In("again")) \in Nat
    BY <1>4, SegNumbers
  <1>6. FetchTypes'
    <2>1. Fresh \in [Seg -> PieceStates]
      BY DEF Fresh, PieceStates
    <2>2. at' \in Nat \ {0} /\ lacking' \in Nat /\ tally' \in Nat
      BY <1>1, <1>2, <1>5
    <2> QED
      BY <1>1, <1>3, <2>1, <2>2 DEF FetchTypes
  <1>7. AtInv'
    <2>1. at' - 1 = at /\ at' <= Len(Order) + 1 /\ (leg' = "fetch" => at' <= Len(Order))
      BY <1>1, <1>2
    <2>2. DOMAIN holes \subseteq {Order[i] : i \in 1 .. at - 1}
      BY <1>1, <1>t DEF AtInv
    <2>3. DOMAIN holes' \subseteq {Order[i] : i \in 1 .. at}
      BY <1>1, <1>2, <2>2
    <2> QED
      BY <1>1, <2>1, <2>3 DEF AtInv
  <1>8. StopInv'
    BY <1>1 DEF StopInv, In, Fresh
  <1>9. DoneInv'
    <2>1. Ended \intersect In("again") = {}
      BY DEF Ended, In
    <2>2. IsFiniteSet(Ended) /\ IsFiniteSet(In("again")) /\ Cardinality(Ended) \in Nat
      BY <1>4, SegNumbers
    <2>3. Cardinality(Ended \union In("again")) = Cardinality(Ended) + Cardinality(In("again")) - Cardinality(Ended \intersect In("again"))
      BY <2>2, FS_Union
    <2>4. Cardinality(Ended \intersect In("again")) = 0
      BY <2>1, FS_EmptySet
    <2>5. Cardinality(Ended \union In("again")) <= Cardinality(Seg)
      BY <1>4, SegNumbers
    <2>6. Ended' = {} /\ Cardinality(Ended') = 0
      BY <1>1, FS_EmptySet DEF Ended, In, Fresh
    <2>7. at * Cardinality(Seg) = (at - 1) * Cardinality(Seg) + Cardinality(Seg) /\ (at - 1) * Cardinality(Seg) \in Nat
      BY <1>2, OneFileMore, SegNumbers
    <2>8. tally <= (at - 1) * Cardinality(Seg) + Cardinality(Ended)
      BY <1>t DEF DoneInv
    <2>9. tally' <= at * Cardinality(Seg)
      <3> HIDE DEF Ended
      <3>1. Cardinality(Ended) + Cardinality(In("again")) <= Cardinality(Seg)
        BY ONLY <2>2, <2>3, <2>4, <2>5, <1>5, SegNumbers
      <3> QED
        <4>1. tally' = tally + Cardinality(In("again"))
          BY <1>1
        <4>2. Cardinality(Seg) \in Nat
          BY SegNumbers
        <4> QED
          BY ONLY <1>2, <1>5, <2>2, <2>7, <2>8, <3>1, <4>1, <4>2
    <2>10. at' - 1 = at
      BY <1>1, <1>2
    <2>11. at * Cardinality(Seg) \in Nat
      BY <1>2, SegNumbers
    <2> QED
      BY <2>6, <2>9, <2>10, <2>11 DEF DoneInv
  <1>10. HolesReported'
    <2> SUFFICES ASSUME ~stopped, via = "native"
                 PROVE  Cardinality(Gaps') <= lacking' /\ (NamesApart => lacking' = Cardinality(Gaps'))
      BY <1>1 DEF HolesReported, NamesApart
    <2>1. Cardinality(Gaps) <= lacking /\ (NamesApart => lacking = Cardinality(Gaps))
      BY <1>1 DEF FetchIInv, HolesReported
    <2>2. IsFiniteSet(Gaps) /\ Cardinality(Gaps) \in Nat
      BY <1>t, GapNumbers DEF FetchTypes
    <2>3. IsFiniteSet(Gaps') /\ Cardinality(Gaps') \in Nat
      <3>1. Gaps' \in SUBSET ((DOMAIN holes') \X Seg) /\ IsFiniteSet((DOMAIN holes') \X Seg)
        BY <1>3, UsenetAssumption, FS_Product DEF Gaps
      <3> QED
        BY <3>1, FS_Subset, FS_CardinalityType
    <2>4. Cardinality(Gaps') <= Cardinality(Gaps) + Cardinality(M)
      BY <1>3
    <2>5. lacking' = lacking + Cardinality(M)
      BY <1>1
    <2> HIDE DEF M
    <2>6. Cardinality(Gaps') <= lacking'
      BY ONLY <1>2, <1>5, <2>1, <2>2, <2>3, <2>4, <2>5
    <2>7. NamesApart => lacking' = Cardinality(Gaps')
      BY <1>3, <2>1, <2>5
    <2> QED
      BY <2>6, <2>7
  <1> QED
    BY <1>1, <1>6, <1>7, <1>8, <1>9, <1>10 DEF FetchIInv, RepairedInv

LEMMA FetchStepKeeps ==
  ASSUME FetchIInv, [FetchNext]_fetchVars
  PROVE  FetchIInv'
  <1>t. FetchTypes /\ AtInv /\ StopInv /\ DoneInv /\ RepairedInv
    BY DEF FetchIInv
  <1> USE DEF FetchIInv
  <1>1. CASE UNCHANGED fetchVars
    BY <1>1 DEF fetchVars, FetchTypes, AtInv, StopInv, DoneInv, RepairedInv, HolesReported, In, Ended, Gaps, Fresh, InDir
  <1>2. CASE FetchRefused \/ FetchTorBox \/ UnpackFails \/ UnpackEnds
    <2>1. /\ UNCHANGED <<at, piece, holes, lacking, tally, stopped>> /\ leg' \in {"start", "published", "failed"}
          /\ leg' = "start" => leg = "start"
          /\ leg' = "published" => leg = "unpack"
      BY <1>2 DEF FetchRefused, FetchTorBox, UnpackFails, UnpackEnds
    <2> QED
      BY <1>t, <2>1 DEF FetchTypes, AtInv, StopInv, DoneInv, RepairedInv, HolesReported, In, Ended, InDir
  <1>3. CASE TorBoxEnds
    <2>1. /\ leg = "start" /\ UNCHANGED <<via, at, piece, lacking, tally, stopped>>
          /\ \/ leg' = "failed" /\ holes' = holes
             \/ leg' = "published" /\ holes' = [f \in Videos |-> {}]
      BY <1>3 DEF TorBoxEnds
    <2>2. IsFiniteSet(DOMAIN holes')
      <3>1. IsFiniteSet(Videos)
        BY VideoNumbers
      <3> QED
        BY <1>t, <2>1, <3>1 DEF FetchTypes
    <2>3. Parity \notin Videos
      BY DEF Videos
    <2>4. RepairedInv'
      BY <1>t, <2>1, <2>3 DEF RepairedInv, InDir
    <2> QED
      BY <1>t, <2>1, <2>2, <2>4 DEF FetchTypes, AtInv, StopInv, DoneInv, HolesReported, In, Ended
  <1>4. CASE FetchStart
    <2>1. leg = "start" /\ leg' = "fetch" /\ UNCHANGED <<via, at, piece, holes, lacking, tally, stopped>>
      BY <1>4 DEF FetchStart
    <2>2. at <= Len(Order)
      BY <2>1, <1>t, SegNumbers, UsenetAssumption DEF AtInv
    <2>3. Gaps' = Gaps /\ Gaps = {} /\ Cardinality(Gaps) = 0 /\ lacking = 0
      BY <1>t, <2>1, FS_EmptySet DEF Gaps, AtInv
    <2> QED
      BY <1>t, <2>1, <2>2, <2>3 DEF FetchTypes, AtInv, StopInv, DoneInv, RepairedInv, HolesReported, In, Ended, Fresh
  <1>5. CASE StallStops
    BY <1>5, <1>t DEF StallStops, FetchTypes, AtInv, StopInv, DoneInv, RepairedInv, HolesReported, In, Ended, InDir, Fresh
  <1>6. CASE \E s \in Seg : SegStart(s) \/ SegArrives(s) \/ SegFails(s) \/ SegMissing(s)
    <2>1. PICK s \in Seg : SegStart(s) \/ SegArrives(s) \/ SegFails(s) \/ SegMissing(s)
      BY <1>6
    <2>2. CASE SegStart(s)
      <3>1. tally' = tally
        BY <2>2 DEF SegStart
      <3> QED
        BY <2>2, PieceKeeps DEF SegStart, PieceStates
    <2>3. CASE SegArrives(s)
      BY <2>3, PieceKeeps DEF SegArrives, PieceStates
    <2>4. CASE SegFails(s)
      BY <2>4, PieceKeeps DEF SegFails, PieceStates
    <2>5. CASE SegMissing(s)
      BY <2>5, PieceKeeps DEF SegMissing, PieceStates
    <2> QED
      BY <2>1, <2>2, <2>3, <2>4, <2>5
  <1>7. CASE RetryPass
    <2>1. CASE stopped
      BY <2>1, <1>7, <1>t DEF RetryPass, PassOver, FetchTypes, AtInv, StopInv, DoneInv, RepairedInv, HolesReported, In, Ended, Fresh
    <2>2. CASE ~stopped
      <3>1. /\ leg = "fetch" /\ piece' = [s \in Seg |-> IF piece[s] = "again" THEN "todo" ELSE piece[s]]
            /\ UNCHANGED <<leg, via, at, holes, lacking, tally, stopped>>
        BY <1>7, <2>2 DEF RetryPass, PassOver
      <3>2. In("fatal")' = In("fatal") /\ In("skipped")' = In("skipped") /\ Ended' = Ended
        BY <3>1 DEF In, Ended
      <3>3. piece' \in [Seg -> PieceStates]
        BY <3>1, <1>t DEF FetchTypes, PieceStates
      <3>4. at # Len(Order) + 1
        BY <3>1, <1>t, SegNumbers DEF AtInv, FetchTypes
      <3> QED
        BY <1>t, <3>1, <3>2, <3>3, <3>4 DEF FetchTypes, AtInv, StopInv, DoneInv, RepairedInv, HolesReported, Gaps
    <2> QED
      BY <2>1, <2>2
  <1>8. CASE FileOver
    BY <1>8, FileOverKeeps
  <1>9. CASE FatalEnds
    <2>1. leg' = "repair" /\ leg = "fetch" /\ stopped /\ UNCHANGED <<via, at, piece, holes, lacking, tally, stopped>>
      BY <1>9, <1>t DEF FatalEnds, PassOver, StopInv
    <2> QED
      BY <1>t, <2>1 DEF FetchTypes, AtInv, StopInv, DoneInv, RepairedInv, HolesReported, In, Ended
  <1>10. CASE Repair
    <2>1. /\ leg = "repair" /\ leg' \in {"unpack", "failed"} /\ UNCHANGED <<via, at, piece, lacking, tally, stopped>>
          /\ \/ holes' = holes /\ (InDir(Parity) => leg' = "failed")
             \/ holes' = Whole
      BY <1>10 DEF Repair
    <2>2. IsFiniteSet(DOMAIN holes')
      <3>1. IsFiniteSet(Videos)
        BY VideoNumbers
      <3>2. IsFiniteSet(DOMAIN holes \union Videos)
        BY <3>1, <1>t, FS_Union DEF FetchTypes
      <3> QED
        BY <1>t, <2>1, <3>2 DEF FetchTypes, Whole
    <2>3. RepairedInv'
      <3>1. CASE holes' = holes
        <4>1. DOMAIN holes' = DOMAIN holes /\ (InDir(Parity)' <=> InDir(Parity))
          BY <3>1 DEF InDir
        <4>2. \/ leg' = "failed" \/ ~InDir(Parity) \/ holes' = Whole
          BY <2>1
        <4>3. ASSUME holes' = Whole PROVE RepairedInv'
          BY <4>3 DEF RepairedInv, InDir, Whole
        <4> QED
          BY <4>1, <4>2, <4>3 DEF RepairedInv
      <3>2. CASE holes' = Whole
        BY <3>2 DEF RepairedInv, InDir, Whole
      <3> QED
        BY <2>1, <3>1, <3>2
    <2> QED
      BY <1>t, <2>1, <2>2, <2>3 DEF FetchTypes, AtInv, StopInv, DoneInv, HolesReported, In, Ended
  <1> QED
    BY <1>1, <1>2, <1>3, <1>4, <1>5, <1>6, <1>7, <1>8, <1>9, <1>10 DEF FetchNext, FetchStep

LEMMA FetchStays ==
  ASSUME FetchIInv
  PROVE  HolesReported /\ TallyBounded /\ ParityGuards
  <1>t. FetchTypes /\ AtInv /\ DoneInv
    BY DEF FetchIInv
  <1>1. Ended \in SUBSET Seg
    BY DEF Ended, In
  <1>2. /\ Cardinality(Ended) \in Nat /\ Cardinality(Ended) <= Cardinality(Seg) /\ Cardinality(Seg) \in Nat
        /\ Len(Order) \in Nat /\ tally \in Nat /\ at \in Nat \ {0} /\ at <= Len(Order) + 1
        /\ tally <= (at - 1) * Cardinality(Seg) + Cardinality(Ended)
    BY <1>1, <1>t, SegNumbers DEF FetchTypes, AtInv, DoneInv
  <1>3. tally <= Len(Order) * Cardinality(Seg)
    <2>1. CASE at = Len(Order) + 1
      <3>1. Ended = {} /\ Cardinality(Ended) = 0
        BY <2>1, <1>t, FS_EmptySet DEF AtInv, Ended, In, Fresh
      <3>2. at - 1 = Len(Order)
        BY <2>1, <1>2
      <3>3. Len(Order) * Cardinality(Seg) \in Nat
        BY <1>2
      <3> QED
        BY <1>2, <3>1, <3>2, <3>3
    <2>2. CASE at # Len(Order) + 1
      <3>1. at * Cardinality(Seg) = (at - 1) * Cardinality(Seg) + Cardinality(Seg) /\ (at - 1) * Cardinality(Seg) \in Nat
        BY <1>2, OneFileMore
      <3>2. tally <= at * Cardinality(Seg)
        BY ONLY <1>2, <3>1
      <3>3. \A a, b, c \in Nat : a <= b => a * c <= b * c
        OBVIOUS
      <3>4. at \in Nat /\ at <= Len(Order)
        BY <1>2, <2>2
      <3>5. at * Cardinality(Seg) <= Len(Order) * Cardinality(Seg)
        BY <3>3, <3>4, <1>2
      <3>6. at * Cardinality(Seg) \in Nat /\ Len(Order) * Cardinality(Seg) \in Nat
        BY <3>4, <1>2
      <3> QED
        BY ONLY <1>2, <3>2, <3>5, <3>6
    <2> QED
      BY <2>1, <2>2
  <1>4. PassOver => tally <= (at - 1) * Cardinality(Seg) + Cardinality(Seg \ In("again"))
    <2>1. Ended \in SUBSET (Seg \ In("again"))
      BY DEF Ended, In
    <2>2. IsFiniteSet(Seg \ In("again")) /\ Cardinality(Seg \ In("again")) \in Nat
      BY SegNumbers
    <2>3. Cardinality(Ended) <= Cardinality(Seg \ In("again"))
      BY <2>1, <2>2, FS_Subset
    <2>4. (at - 1) * Cardinality(Seg) \in Nat
      BY <1>2, OneFileMore
    <2> QED
      BY ONLY <1>2, <2>2, <2>3, <2>4
  <1>5. ParityGuards
    BY DEF FetchIInv, RepairedInv, ParityGuards
  <1> QED
    BY <1>3, <1>4, <1>5 DEF FetchIInv, TallyBounded

\* For any release, number of segments and retries: what is missing is reported, the progress
\* stays within the release, and what has its par2 set is published whole (download.go,
\* postproc).
THEOREM FetchHolds == FetchSpec => [](HolesReported /\ TallyBounded /\ ParityGuards)
  BY FetchInitially, FetchStepKeeps, FetchStays, PTL DEF FetchSpec

-----------------------------------------------------------------------------
(* A document forwarded to the bot.                                        *)

Holds(g)  == progress[g] \in {"writing", "written", "keyed"}
AtWork(g) == progress[g] = "created" \/ Holds(g)

BotTypes ==
  /\ progress \in [Forward ->
       {"sent", "created", "writing", "written", "keyed", "published", "over"}]
  /\ fileRow \in [Account -> {"none", "downloading", "complete", "failed"}]
  /\ path \in Forward \union {NoFile} /\ data \in [Forward -> SUBSET Complete]
  /\ writesTo \in [Forward -> Forward \union {NoFile}]
  /\ written \in [Forward -> 0 .. Parts] /\ rowKey \in [Account -> {rowKey[a] : a \in Account}]
  /\ \A g \in Forward : Holds(g) => writesTo[g] \in Forward

\* An account works on the document once, under its row.
RowInv ==
  \A g \in Forward : AtWork(g) =>
    /\ fileRow[Sender[g]] = "downloading"
    /\ \A f \in Forward : AtWork(f) /\ Sender[f] = Sender[g] => f = g

\* What a message has written is what is in its file.
FileInv ==
  \A g \in Forward :
    /\ progress[g] \in {"sent", "created"} => written[g] = 0
    /\ progress[g] \in {"written", "keyed"} => written[g] = Parts
    /\ ~together /\ Holds(g) =>
         /\ path \in {writesTo[g], NoFile} /\ data[writesTo[g]] = 1 .. written[g]
         /\ \A f \in Forward : Holds(f) => f = g

KeptInv ==
  /\ ~together => \A k \in DOMAIN kept : kept[k] = Complete
  /\ \A a \in Account : fileRow[a] = "complete" => rowKey[a] \in DOMAIN kept

LeftInv ==
  ~botCrashed /\ path # NoFile =>
    \E g \in Forward : progress[g] \in {"writing", "written", "keyed", "published"}

BotIInv == BotTypes /\ RowInv /\ FileInv /\ KeptInv /\ LeftInv

LEMMA BotNumbers ==
  /\ Parts \in Nat \ {0, 1} /\ NoFile \notin Forward
  /\ \A g \in Forward : Sender[g] \in Account
  /\ 1 .. 0 = {} /\ 1 .. Parts = Complete
  BY BotAssumption DEF Account, Complete

LEMMA BotInitially == BotInit => BotIInv
  BY BotNumbers DEF BotInit, BotIInv, BotTypes, RowInv, FileInv, KeptInv, LeftInv, Holds, AtWork

LEMMA ForwardedKeeps ==
  ASSUME BotIInv, NEW g \in Forward, Forwarded(g)
  PROVE  BotIInv'
  <1>t. BotTypes /\ RowInv /\ FileInv /\ KeptInv /\ LeftInv
    BY DEF BotIInv
  <1>1. /\ progress[g] = "sent" /\ Sender[g] \in Account
        /\ UNCHANGED <<path, data, writesTo, written, fileKey, kept, rowKey, together, botCrashed>>
    BY BotNumbers DEF Forwarded, files
  <1>2. CASE RowFree(Sender[g])
    <2>1. /\ progress' = [progress EXCEPT ![g] = "created"]
          /\ fileRow' = [fileRow EXCEPT ![Sender[g]] = "downloading"]
          /\ fileRow[Sender[g]] \in {"none", "failed"}
      BY <1>2 DEF Forwarded, GoesTo, RowFree
    <2>2. \A f \in Forward : AtWork(f) => Sender[f] # Sender[g]
      BY <2>1, <1>t DEF RowInv
    <2>3. \A f \in Forward : Holds(f)' <=> Holds(f)
      BY <1>1, <2>1, <1>t DEF Holds, BotTypes
    <2>4. \A f \in Forward : AtWork(f)' <=> AtWork(f) \/ f = g
      BY <1>1, <2>1, <2>3, <1>t DEF AtWork, BotTypes
    <2>5. BotTypes'
      BY <1>1, <2>1, <2>3, <1>t DEF BotTypes
    <2>6. RowInv'
      BY <1>1, <2>1, <2>2, <2>4, <1>t, BotNumbers DEF RowInv, BotTypes
    <2>7. FileInv'
      BY <1>1, <2>1, <2>3, <1>t DEF FileInv, BotTypes
    <2> QED
      BY <1>1, <2>1, <2>5, <2>6, <2>7, <1>t DEF BotIInv, KeptInv, LeftInv, BotTypes
  <1>3. CASE ~RowFree(Sender[g])
    <2>1. progress' = [progress EXCEPT ![g] = "over"] /\ fileRow' = fileRow
      BY <1>3 DEF Forwarded, GoesTo
    <2>2. \A f \in Forward : (Holds(f)' <=> Holds(f)) /\ (AtWork(f)' <=> AtWork(f))
      BY <1>1, <2>1, <1>t DEF Holds, AtWork, BotTypes
    <2>3. BotTypes'
      BY <1>1, <2>1, <2>2, <1>t DEF BotTypes
    <2>4. RowInv' /\ FileInv'
      BY <1>1, <2>1, <2>2, <1>t DEF RowInv, FileInv, BotTypes
    <2> QED
      BY <1>1, <2>1, <2>3, <2>4, <1>t DEF BotIInv, KeptInv, LeftInv, BotTypes
  <1> QED
    BY <1>2, <1>3

LEMMA CreateFileKeeps ==
  ASSUME BotIInv, NEW g \in Forward, CreateFile(g)
  PROVE  BotIInv'
  <1>t. BotTypes /\ RowInv /\ FileInv /\ KeptInv /\ LeftInv
    BY DEF BotIInv
  <1>1. /\ progress[g] = "created" /\ progress' = [progress EXCEPT ![g] = "writing"]
        /\ path' = (IF path = NoFile THEN g ELSE path)
        /\ data' = [data EXCEPT ![path'] = {}] /\ writesTo' = [writesTo EXCEPT ![g] = path']
        /\ together' = (together \/ \E f \in Forward : Running(f) /\ Sender[f] # Sender[g])
        /\ UNCHANGED <<fileRow, written, fileKey, kept, rowKey, botCrashed>>
    BY DEF CreateFile, GoesTo
  <1>2. path' \in Forward
    BY <1>1, <1>t DEF BotTypes
  <1>3. \A f \in Forward : Holds(f)' <=> Holds(f) \/ f = g
    BY <1>1, <1>t DEF Holds, BotTypes
  <1>4. \A f \in Forward : AtWork(f)' <=> AtWork(f)
    BY <1>1, <1>3, <1>t DEF AtWork, BotTypes
  <1>5. BotTypes'
    BY <1>1, <1>2, <1>3, <1>t DEF BotTypes
  <1>6. RowInv'
    BY <1>1, <1>4, <1>t DEF RowInv
  <1>7. FileInv'
    <2>1. \A f \in Forward : Holds(f) /\ f # g => Sender[f] # Sender[g] /\ Running(f)
      BY <1>1, <1>t DEF RowInv, AtWork, Holds, Running
    <2>2. ~together' => \A f \in Forward : Holds(f)' => f = g
      BY <1>1, <1>3, <2>1
    <2>3. writesTo'[g] = path' /\ data'[path'] = {} /\ written'[g] = 0
      BY <1>1, <1>2, <1>t DEF BotTypes, FileInv
    <2>4. data'[writesTo'[g]] = 1 .. written'[g]
      BY <2>3, BotNumbers
    <2>5. ~together' => \A f \in Forward : Holds(f)' =>
             /\ path' \in {writesTo'[f], NoFile} /\ data'[writesTo'[f]] = 1 .. written'[f]
             /\ \A e \in Forward : Holds(e)' => e = f
      BY <2>2, <2>3, <2>4
    <2>6. \A f \in Forward :
            /\ progress'[f] \in {"sent", "created"} => written'[f] = 0
            /\ progress'[f] \in {"written", "keyed"} => written'[f] = Parts
      BY <1>1, <1>t DEF FileInv, BotTypes
    <2> QED
      BY <2>5, <2>6 DEF FileInv
  <1>8. KeptInv'
    BY <1>1, <1>t DEF KeptInv
  <1>9. LeftInv'
    BY <1>1, <1>t DEF LeftInv, BotTypes
  <1> QED
    BY <1>5, <1>6, <1>7, <1>8, <1>9 DEF BotIInv

LEMMA WritePartKeeps ==
  ASSUME BotIInv, NEW g \in Forward, WritePart(g)
  PROVE  BotIInv'
  <1>t. BotTypes /\ RowInv /\ FileInv /\ KeptInv /\ LeftInv
    BY DEF BotIInv
  <1> DEFINE n == written[g] + 1
  <1>1. /\ progress[g] = "writing" /\ written[g] < Parts /\ written' = [written EXCEPT ![g] = n]
        /\ UNCHANGED <<fileRow, path, writesTo, fileKey, kept, rowKey, together, botCrashed>>
    BY DEF WritePart
  <1>2. written[g] \in Nat /\ n \in 1 .. Parts /\ written'[g] = n
    BY <1>1, <1>t, BotNumbers DEF BotTypes
  <1>3. /\ data' = [data EXCEPT ![writesTo[g]] = @ \union {n}]
        /\ progress' = [progress EXCEPT ![g] = IF n = Parts THEN "written" ELSE "writing"]
    BY <1>2 DEF WritePart, GoesTo
  <1>4. writesTo[g] \in Forward /\ Holds(g)
    BY <1>1, <1>t DEF BotTypes, Holds
  <1>5. \A f \in Forward : (Holds(f)' <=> Holds(f)) /\ (AtWork(f)' <=> AtWork(f))
    BY <1>1, <1>3, <1>t DEF Holds, AtWork, BotTypes
  <1>6. BotTypes'
    <2>1. data' \in [Forward -> SUBSET Complete]
      BY <1>2, <1>3, <1>t, BotNumbers DEF BotTypes
    <2>2. written' \in [Forward -> 0 .. Parts]
      BY <1>1, <1>2, <1>t DEF BotTypes
    <2>3. \A f \in Forward : Holds(f)' => writesTo'[f] \in Forward
      BY <1>1, <1>5, <1>t DEF BotTypes
    <2>4. progress' \in [Forward ->
            {"sent", "created", "writing", "written", "keyed", "published", "over"}]
      BY <1>3, <1>t DEF BotTypes
    <2> QED
      BY <1>1, <2>1, <2>2, <2>3, <2>4, <1>t DEF BotTypes
  <1>7. RowInv'
    BY <1>1, <1>5, <1>t DEF RowInv
  <1>8. FileInv'
    <2>1. ASSUME ~together PROVE data'[writesTo'[g]] = 1 .. written'[g]
      <3>1. data'[writesTo[g]] = data[writesTo[g]] \union {n}
        BY <1>3, <1>4, <1>t DEF BotTypes
      <3>2. data[writesTo[g]] = 1 .. written[g]
        BY <2>1, <1>4, <1>t DEF FileInv
      <3>3. (1 .. written[g]) \union {n} = 1 .. n
        BY <1>2
      <3> QED
        BY <3>1, <3>2, <3>3, <1>1, <1>2
    <2>2. \A f \in Forward :
            /\ progress'[f] \in {"sent", "created"} => written'[f] = 0
            /\ progress'[f] \in {"written", "keyed"} => written'[f] = Parts
      <3>1. \A f \in Forward : f # g => progress'[f] = progress[f] /\ written'[f] = written[f]
        BY <1>1, <1>3, <1>t DEF BotTypes
      <3>2. progress'[g] = IF n = Parts THEN "written" ELSE "writing"
        BY <1>3, <1>t DEF BotTypes
      <3> QED
        BY <3>1, <3>2, <1>2, <1>t DEF FileInv
    <2>3. ASSUME ~together, NEW f \in Forward, Holds(f)
          PROVE  /\ f = g /\ path' \in {writesTo'[f], NoFile}
                 /\ \A e \in Forward : Holds(e) => e = f
      BY <2>3, <1>1, <1>4, <1>t DEF FileInv
    <2> QED
      BY <2>1, <2>2, <2>3, <1>1, <1>5 DEF FileInv
  <1>9. LeftInv'
    BY <1>1, <1>3, <1>t DEF LeftInv, BotTypes
  <1> QED
    BY <1>1, <1>6, <1>7, <1>8, <1>9, <1>t DEF BotIInv, KeptInv

\* A message leaves its work: it fails, publishes or ends, and its row is settled.
LEMMA LeavesKeeps ==
  ASSUME BotIInv, NEW g \in Forward, NEW s \in {"published", "over"}, NEW r \in {"failed", "complete"},
         progress' = [progress EXCEPT ![g] = s],
         \/ AtWork(g) /\ fileRow' = [fileRow EXCEPT ![Sender[g]] = r]
         \/ progress[g] = "published" /\ fileRow' = fileRow,
         path' \in {path, NoFile}, s = "over" => path' = NoFile,
         UNCHANGED <<data, writesTo, written, together, botCrashed>>,
         rowKey' \in [Account -> {rowKey'[a] : a \in Account}],
         KeptInv'
  PROVE  BotIInv'
  <1>t. BotTypes /\ RowInv /\ FileInv /\ KeptInv /\ LeftInv
    BY DEF BotIInv
  <1>1. \A f \in Forward : Holds(f)' => Holds(f) /\ f # g
    BY <1>t DEF Holds, BotTypes
  <1>2. \A f \in Forward : AtWork(f)' => AtWork(f) /\ f # g
    BY <1>t DEF Holds, AtWork, BotTypes
  <1>3. \A f \in Forward : AtWork(f)' => fileRow'[Sender[f]] = fileRow[Sender[f]]
    BY <1>2, <1>t, BotNumbers DEF RowInv, BotTypes
  <1>4. BotTypes'
    <2>1. fileRow' \in [Account -> {"none", "downloading", "complete", "failed"}]
      BY <1>t, BotNumbers DEF BotTypes
    <2>2. \A f \in Forward : Holds(f)' => writesTo'[f] \in Forward
      BY <1>1, <1>t DEF BotTypes
    <2> QED
      BY <1>t, <2>1, <2>2 DEF BotTypes
  <1>5. RowInv'
    BY <1>2, <1>3, <1>t DEF RowInv
  <1>6. FileInv'
    <2>1. \A f \in Forward : progress'[f] \in {"sent", "created", "written", "keyed"} => progress'[f] = progress[f]
      BY <1>t DEF BotTypes
    <2> QED
      BY <1>1, <2>1, <1>t DEF FileInv
  <1>7. LeftInv'
    BY <1>t DEF LeftInv, BotTypes
  <1> QED
    BY <1>4, <1>5, <1>6, <1>7 DEF BotIInv

LEMMA BotStepKeeps ==
  ASSUME BotIInv, [BotNext]_botVars
  PROVE  BotIInv'
  <1>t. BotTypes /\ RowInv /\ FileInv /\ KeptInv /\ LeftInv
    BY DEF BotIInv
  <1>1. CASE UNCHANGED botVars
    BY <1>1, <1>t DEF botVars, files, BotIInv, BotTypes, RowInv, FileInv, KeptInv, LeftInv, Holds, AtWork
  <1>2. CASE BotCrashes
    <2>1. /\ botCrashed' = TRUE /\ progress' = [g \in Forward |-> IF Running(g) THEN "over" ELSE progress[g]]
          /\ UNCHANGED <<fileRow, path, data, writesTo, written, fileKey, kept, rowKey, together>>
      BY <1>2 DEF BotCrashes, files
    <2>2. \A g \in Forward : progress'[g] \in {"sent", "over"} /\ (progress'[g] = "sent" => progress[g] = "sent")
      BY <2>1 DEF Running
    <2>3. \A g \in Forward : ~Holds(g)' /\ ~AtWork(g)'
      BY <2>2 DEF Holds, AtWork
    <2>4. progress' \in [Forward ->
            {"sent", "created", "writing", "written", "keyed", "published", "over"}]
      BY <2>1, <2>2
    <2> QED
      BY <2>1, <2>2, <2>3, <2>4, <1>t DEF BotIInv, BotTypes, RowInv, FileInv, KeptInv, LeftInv
  <1>3. CASE \E a \in Account : DeleteFileRow(a)
    <2>1. PICK a \in Account : DeleteFileRow(a)
      BY <1>3
    <2>2. /\ fileRow[a] = "complete" /\ fileRow' = [fileRow EXCEPT ![a] = "none"]
          /\ UNCHANGED <<progress, path, data, writesTo, written, fileKey, kept, rowKey, together, botCrashed>>
      BY <2>1 DEF DeleteFileRow, files
    <2>3. \A f \in Forward : (Holds(f)' <=> Holds(f)) /\ (AtWork(f)' <=> AtWork(f))
      BY <2>2 DEF Holds, AtWork
    <2>4. BotTypes'
      BY <2>2, <2>3, <1>t DEF BotTypes
    <2>5. RowInv'
      BY <2>2, <2>3, <1>t, BotNumbers DEF RowInv, BotTypes
    <2>6. KeptInv'
      BY <2>2, <1>t DEF KeptInv, BotTypes
    <2> QED
      BY <2>2, <2>3, <2>4, <2>5, <2>6, <1>t DEF BotIInv, FileInv, LeftInv
  <1>4. CASE \E g \in Forward : BotStep(g)
    <2>1. PICK g \in Forward : BotStep(g)
      BY <1>4
    <2>a. Sender[g] \in Account
      BY BotNumbers
    <2>2. CASE Forwarded(g)
      BY <2>2, ForwardedKeeps
    <2>3. CASE CreateFile(g)
      BY <2>3, CreateFileKeeps
    <2>4. CASE WritePart(g)
      BY <2>4, WritePartKeeps
    <2>5. CASE DownloadFails(g)
      <3>1. /\ AtWork(g) /\ progress' = [progress EXCEPT ![g] = "over"] /\ path' = NoFile
            /\ fileRow' = [fileRow EXCEPT ![Sender[g]] = "failed"]
            /\ UNCHANGED <<data, writesTo, written, kept, rowKey, together, botCrashed>>
        BY <2>5 DEF DownloadFails, GoesTo, AfterFailure, AtWork, Holds
      <3>2. KeptInv'
        BY <3>1, <2>a, <1>t DEF KeptInv, BotTypes
      <3>3. rowKey' \in [Account -> {rowKey'[a] : a \in Account}]
        BY <3>1, <1>t DEF BotTypes
      <3> QED
        BY <3>1, <3>2, <3>3, LeavesKeeps
    <2>6. ASSUME AtWork(g), IngestFails(g) PROVE BotIInv'
      <3>1. /\ progress' = [progress EXCEPT ![g] = "published"] /\ path' = path
            /\ fileRow' = [fileRow EXCEPT ![Sender[g]] = "failed"]
            /\ UNCHANGED <<data, writesTo, written, kept, rowKey, together, botCrashed>>
        BY <2>6 DEF IngestFails, GoesTo, files
      <3>2. KeptInv'
        BY <3>1, <2>a, <1>t DEF KeptInv, BotTypes
      <3>3. rowKey' \in [Account -> {rowKey'[a] : a \in Account}]
        BY <3>1, <1>t DEF BotTypes
      <3> QED
        BY <2>6, <3>1, <3>2, <3>3, LeavesKeeps
    <2>7. CASE KeyFile(g)
      <3>1. AtWork(g) /\ progress[g] = "written"
        BY <2>7 DEF KeyFile, AtWork, Holds
      <3>2. CASE IngestFails(g)
        BY <3>1, <3>2, <2>6
      <3>3. CASE ~IngestFails(g)
        <4>1. /\ progress' = [progress EXCEPT ![g] = "keyed"]
              /\ UNCHANGED <<fileRow, path, data, writesTo, written, kept, rowKey, together, botCrashed>>
          BY <2>7, <3>3 DEF KeyFile, GoesTo, files
        <4>2. \A f \in Forward : (Holds(f)' <=> Holds(f)) /\ (AtWork(f)' <=> AtWork(f))
          BY <3>1, <4>1, <1>t DEF Holds, AtWork, BotTypes
        <4>3. BotTypes'
          BY <4>1, <4>2, <1>t DEF BotTypes
        <4>4. RowInv'
          BY <4>1, <4>2, <1>t DEF RowInv
        <4>5. FileInv'
          BY <3>1, <4>1, <4>2, <1>t DEF FileInv, BotTypes
        <4>6. LeftInv'
          BY <4>1, <1>t DEF LeftInv, BotTypes
        <4> QED
          BY <4>1, <4>3, <4>4, <4>5, <4>6, <1>t DEF BotIInv, KeptInv
      <3> QED
        BY <3>2, <3>3
    <2>8. CASE IngestFile(g)
      <3>1. AtWork(g) /\ Holds(g) /\ progress[g] = "keyed"
        BY <2>8 DEF IngestFile, AtWork, Holds
      <3>2. CASE IngestFails(g)
        BY <3>1, <3>2, <2>6
      <3>3. CASE ~IngestFails(g)
        <4>1. /\ path # NoFile /\ progress' = [progress EXCEPT ![g] = "published"]
              /\ kept' = (IF fileKey[g] \in DOMAIN kept THEN kept
                          ELSE [k \in DOMAIN kept \union {fileKey[g]} |->
                                  IF k = fileKey[g] THEN data[path] ELSE kept[k]])
              /\ rowKey' = [rowKey EXCEPT ![Sender[g]] = fileKey[g]]
              /\ fileRow' = [fileRow EXCEPT ![Sender[g]] = "complete"]
              /\ UNCHANGED <<path, data, writesTo, written, together, botCrashed>>
          BY <2>8, <3>3 DEF IngestFile, GoesTo, files
        <4>2. ~together => data[path] = Complete
          BY <3>1, <4>1, <1>t, BotNumbers DEF FileInv
        <4>3. DOMAIN kept' = DOMAIN kept \union {fileKey[g]}
          BY <4>1
        <4>4. KeptInv'
          <5>1. ~together' => \A k \in DOMAIN kept' : kept'[k] = Complete
            BY <4>1, <4>2, <1>t DEF KeptInv
          <5>2. \A a \in Account : fileRow'[a] = "complete" => rowKey'[a] \in DOMAIN kept'
            BY <4>1, <4>3, <2>a, <1>t DEF KeptInv, BotTypes
          <5> QED
            BY <5>1, <5>2 DEF KeptInv
        <4>5. rowKey' \in [Account -> {rowKey'[a] : a \in Account}]
          BY <4>1, <1>t DEF BotTypes
        <4> QED
          BY <3>1, <4>1, <4>4, <4>5, LeavesKeeps
      <3> QED
        BY <3>2, <3>3
    <2>9. CASE RemoveFile(g)
      <3>1. /\ progress[g] = "published" /\ progress' = [progress EXCEPT ![g] = "over"] /\ path' = NoFile
            /\ UNCHANGED <<fileRow, data, writesTo, written, kept, rowKey, together, botCrashed>>
        BY <2>9 DEF RemoveFile, GoesTo
      <3>2. KeptInv' /\ rowKey' \in [Account -> {rowKey'[a] : a \in Account}]
        BY <3>1, <1>t DEF KeptInv, BotTypes
      <3> QED
        BY <3>1, <3>2, LeavesKeeps
    <2> QED
      BY <2>1, <2>2, <2>3, <2>4, <2>5, <2>7, <2>8, <2>9 DEF BotStep
  <1> QED
    BY <1>1, <1>2, <1>3, <1>4 DEF BotNext

LEMMA BotStays == BotIInv => WholeUnlessTwoAtOnce /\ NoFileLeft
  BY DEF BotIInv, KeptInv, LeftInv, WholeUnlessTwoAtOnce, NoFileLeft, Running

\* For any messages, accounts and parts: what a complete row names is whole while no two accounts
\* have had the document downloaded at once, and no file is left without a crash (bot.go).
THEOREM BotHolds == BotSpec => [](WholeUnlessTwoAtOnce /\ NoFileLeft)
  BY BotInitially, BotStepKeeps, BotStays, PTL DEF BotSpec

-----------------------------------------------------------------------------
(* Codes: the inductive invariant.                                         *)

CodeRow == [owner : Partner \union {Nobody}, by : Redeemer \union {Nobody},
            settler : Partner \union {Operator, Nobody}]
RedemptionPc == {"new", "refused", "looked", "claimed", "done", "lost"}

\* The redemptions that have claimed their code, for good or ill.
Claims == {r \in Redeem : redemption[r] \in {"claimed", "done", "lost"}}

CodeTypes ==
  /\ codes \in [Code -> CodeRow] /\ made \in [Mint -> SUBSET Code]
  /\ minting \in [Mint -> {"open", "handed", "failed"}]
  /\ redemption \in [Redeem -> RedemptionPc] /\ entered \in [Redeem -> Code \union {NoCode}]
  /\ grants \in [Code -> Nat] /\ hitAt \in [Redeem -> Nat] /\ hits \subseteq Redeem
  /\ today \in 0 .. MaxNow

\* A code that has been made is its partner's, of one minting, whether handed out or not.
MadeInv ==
  /\ \A m \in Mint : \A c \in made[m] : codes[c].owner = MinterOf[m]
  /\ \A m, n \in Mint : m # n => made[m] \intersect made[n] = {}

\* Nothing is settled that has not been made: the owner comes before the settler.
SettledInv ==
  \A c \in Code :
    /\ codes[c].settler \in {Nobody, Operator, codes[c].owner}
    /\ codes[c].owner = Nobody => codes[c].settler = Nobody

\* The row names the one redemption that holds the code, which alone may give its period.
ClaimInv ==
  /\ \A r \in Redeem : redemption[r] = "looked" => entered[r] \in Code
  /\ \A r \in Claims : entered[r] \in Code /\ codes[entered[r]].by = RedeemerOf[r]
  /\ \A r, s \in Claims : r # s => entered[r] # entered[s]
  /\ \A c \in Code :
       grants[c] # 0 => grants[c] = 1 /\ \E r \in Claims : redemption[r] = "done" /\ entered[r] = c

\* The attempts of the window that starts at t.
Attempts(t) == {r \in Redeem : hitAt[r] <= today /\ hitAt[r] \in t .. t + Window - 1}

\* The limiter forgets nothing that is still inside the window that ends now.
HitsInv ==
  /\ \A r \in Redeem : hitAt[r] <= today \/ hitAt[r] = MaxNow + 1
  /\ \A r \in Redeem : hitAt[r] <= today /\ hitAt[r] > today - Window => r \in hits
  /\ \A t \in 0 .. today : Cardinality(Attempts(t)) <= MaxHits
  /\ Cardinality(hits) <= MaxHits

CodesIInv == CodeTypes /\ MadeInv /\ SettledInv /\ ClaimInv /\ HitsInv

-----------------------------------------------------------------------------
(* Minting and settling.                                                   *)

\* Who may stand where: Nobody is nobody.
LEMMA CodeNames ==
  /\ \A m \in Mint : MinterOf[m] \in Partner
  /\ \A p \in Partner : p # Nobody /\ p # Operator
  /\ Operator # Nobody
  /\ \A r \in Redeem : RedeemerOf[r] \in Redeemer /\ RedeemerOf[r] # Nobody
  BY ResellerAssumption DEF Redeemer

LEMMA DrawKeeps ==
  ASSUME CodesIInv, NEW m \in Mint, NEW c \in Code, DrawCode(m, c)
  PROVE  CodesIInv'
  <1>0. UNCHANGED <<redemption, entered, seenEnd, hitAt, hits, grants, today>>
    BY DEF DrawCode, redeemers
  <1>1. HitsInv'
    BY <1>0 DEF CodesIInv, HitsInv, Attempts
  <1>2. CASE c \notin Rows
    <2>1. /\ codes' = [codes EXCEPT ![c].owner = MinterOf[m]]
          /\ made' = [made EXCEPT ![m] = @ \union {c}] /\ UNCHANGED minting
      BY <1>2 DEF DrawCode, Inserts
    <2>2. CodeTypes'
      BY <1>0, <2>1, CodeNames DEF CodesIInv, CodeTypes, CodeRow
    <2>3. \A d \in Code : /\ codes'[d].by = codes[d].by /\ codes'[d].settler = codes[d].settler
                          /\ codes'[d].owner = IF d = c THEN MinterOf[m] ELSE codes[d].owner
      BY <2>1 DEF CodesIInv, CodeTypes, CodeRow
    <2>4. \A n \in Mint : c \notin made[n]
      BY <1>2, CodeNames DEF CodesIInv, CodeTypes, MadeInv, Rows
    <2>5. MadeInv'
      BY <2>1, <2>3, <2>4 DEF CodesIInv, CodeTypes, MadeInv
    <2>6. SettledInv'
      BY <1>2, <2>3, CodeNames DEF CodesIInv, SettledInv, Rows
    <2>7. ClaimInv'
      BY <1>0, <2>3 DEF CodesIInv, ClaimInv, Claims
    <2> QED
      BY <1>1, <2>2, <2>5, <2>6, <2>7 DEF CodesIInv
  <1>3. CASE c \in Rows
    <2>1. UNCHANGED <<codes, made>> /\ minting' \in [Mint -> {"open", "handed", "failed"}]
      BY <1>3 DEF DrawCode, Inserts, CodesIInv, CodeTypes
    <2> QED
      BY <1>0, <1>1, <2>1 DEF CodesIInv, CodeTypes, MadeInv, SettledInv, ClaimInv, Claims
  <1> QED
    BY <1>2, <1>3

LEMMA MintEndKeeps ==
  ASSUME CodesIInv, NEW m \in Mint, MintFails(m) \/ HandOut(m)
  PROVE  CodesIInv'
  <1>1. UNCHANGED <<codes, made, redemption, entered, hitAt, hits, grants, today>>
    BY DEF MintFails, HandOut, redeemers
  <1>2. minting' \in [Mint -> {"open", "handed", "failed"}]
    BY DEF MintFails, HandOut, CodesIInv, CodeTypes
  <1> QED
    BY <1>1, <1>2 DEF CodesIInv, CodeTypes, MadeInv, SettledInv, ClaimInv, Claims, HitsInv, Attempts

LEMMA SettleKeeps ==
  ASSUME CodesIInv, NEW k \in Partner \union {Operator}, Settle(k)
  PROVE  CodesIInv'
  <1>0. UNCHANGED <<minting, made, redemption, entered, hitAt, hits, grants, today>>
    BY DEF Settle, minters, redeemers
  <1>1. PICK S \in SUBSET Rows : \E T \in SUBSET Scope(k, S), s \in {k, Nobody} :
          codes' = [c \in Code |-> IF c \in T THEN [codes[c] EXCEPT !.settler = s] ELSE codes[c]]
    BY DEF Settle
  <1>7. PICK T \in SUBSET Scope(k, S), s \in {k, Nobody} :
          codes' = [c \in Code |-> IF c \in T THEN [codes[c] EXCEPT !.settler = s] ELSE codes[c]]
    BY <1>1
  <1>2. T \subseteq Code /\ \A c \in T : c \in Rows /\ (k = Operator \/ codes[c].owner = k)
    BY <1>7 DEF Scope, Rows
  <1>3. \A c \in Code : /\ codes'[c].owner = codes[c].owner /\ codes'[c].by = codes[c].by
                        /\ codes'[c].settler = IF c \in T THEN s ELSE codes[c].settler
    BY <1>7 DEF CodesIInv, CodeTypes, CodeRow
  <1>4. codes' \in [Code -> CodeRow]
    BY <1>7 DEF CodesIInv, CodeTypes, CodeRow
  <1>5. SettledInv'
    BY <1>7, <1>2, <1>3 DEF CodesIInv, SettledInv, Rows
  <1>6. MadeInv' /\ ClaimInv' /\ HitsInv'
    BY <1>0, <1>3 DEF CodesIInv, CodeTypes, MadeInv, ClaimInv, Claims, HitsInv, Attempts
  <1> QED
    BY <1>0, <1>4, <1>5, <1>6 DEF CodesIInv, CodeTypes

-----------------------------------------------------------------------------
(* Redeeming.                                                              *)

LEMMA AttemptSets ==
  \A t : IsFiniteSet(Attempts(t)) /\ Cardinality(Attempts(t)) \in Nat
  BY FS_Subset, FS_CardinalityType, ResellerAssumption DEF Attempts

\* One attempt more: those of any window that contains it are all inside the limiter's.
LEMMA HitCounted ==
  ASSUME CodesIInv, NEW r \in Redeem, ~(Cardinality(Allow(hits)) >= MaxHits),
         hits' = Allow(hits) \union {r}, hitAt' = [hitAt EXCEPT ![r] = today], UNCHANGED today
  PROVE  HitsInv'
  <1>0. /\ hitAt \in [Redeem -> Nat] /\ today \in Nat /\ Window \in Nat \ {0} /\ MaxHits \in Nat
        /\ hits \subseteq Redeem
    BY ResellerAssumption DEF CodesIInv, CodeTypes
  <1>1. Allow(hits) \subseteq Redeem /\ IsFiniteSet(Allow(hits)) /\ Cardinality(Allow(hits)) \in Nat
    BY <1>0, FS_Subset, FS_CardinalityType, ResellerAssumption DEF Allow
  <1>2. \A S \in SUBSET Allow(hits) : IsFiniteSet(S) /\ Cardinality(S \union {r}) <= MaxHits
    <2> SUFFICES ASSUME NEW S \in SUBSET Allow(hits)
                 PROVE  IsFiniteSet(S) /\ Cardinality(S \union {r}) <= MaxHits
      OBVIOUS
    <2>1. IsFiniteSet(S) /\ Cardinality(S) <= Cardinality(Allow(hits)) /\ Cardinality(S) \in Nat
      BY <1>1, FS_Subset, FS_CardinalityType
    <2>2. Cardinality(S \union {r}) \in {Cardinality(S), Cardinality(S) + 1}
      BY <2>1, FS_AddElement
    <2> QED
      BY <1>0, <1>1, <2>1, <2>2
  <1>3. \A q \in Redeem : hitAt[q] <= today /\ hitAt[q] > today - Window => q \in Allow(hits)
    BY DEF CodesIInv, HitsInv, Allow
  <1>4. \A t \in 0 .. today' : Cardinality(Attempts(t)') <= MaxHits
    <2> SUFFICES ASSUME NEW t \in 0 .. today PROVE Cardinality(Attempts(t)') <= MaxHits
      OBVIOUS
    <2>1. CASE today <= t + Window - 1
      <3>1. Attempts(t) \subseteq Allow(hits)
        BY <1>0, <1>3, <2>1 DEF Attempts
      <3>2. Attempts(t)' = Attempts(t) \union {r}
        BY <1>0, <2>1 DEF Attempts
      <3> QED
        BY <1>2, <3>1, <3>2
    <2>2. CASE ~(today <= t + Window - 1)
      <3>1. Attempts(t)' \subseteq Attempts(t)
        BY <1>0, <2>2 DEF Attempts
      <3>2. Cardinality(Attempts(t)') <= Cardinality(Attempts(t)) /\ Cardinality(Attempts(t)') \in Nat
        BY <3>1, AttemptSets, FS_Subset, FS_CardinalityType
      <3> QED
        BY <1>0, <3>2, AttemptSets DEF CodesIInv, HitsInv
    <2> QED
      BY <2>1, <2>2
  <1>5. \A q \in Redeem : /\ hitAt'[q] <= today' \/ hitAt'[q] = MaxNow + 1
                          /\ hitAt'[q] <= today' /\ hitAt'[q] > today' - Window => q \in hits'
    BY <1>0, <1>3 DEF CodesIInv, HitsInv
  <1>6. Cardinality(hits') <= MaxHits
    BY <1>2
  <1> QED
    BY <1>4, <1>5, <1>6 DEF HitsInv


LEMMA EnterKeeps ==
  ASSUME CodesIInv, NEW r \in Redeem, NEW c \in Code, EnterCode(r, c)
  PROVE  CodesIInv'
  <1>0. /\ UNCHANGED <<codes, minting, made, grants, today>> /\ redemption[r] = "new"
        /\ entered' = [entered EXCEPT ![r] = c]
    BY DEF EnterCode, minters
  <1>1. \E pc \in {"looked", "refused"} : redemption' = [redemption EXCEPT ![r] = pc]
    BY DEF EnterCode
  <1>2. HitsInv' /\ hits' \subseteq Redeem /\ hitAt' \in [Redeem -> Nat]
    <2>1. CASE Cardinality(Allow(hits)) >= MaxHits
      <3>1. hits' = Allow(hits) /\ UNCHANGED <<hitAt, today>>
        BY <2>1 DEF EnterCode
      <3>2. Allow(hits) \subseteq hits /\ hits \subseteq Redeem /\ hitAt \in [Redeem -> Nat]
        BY DEF Allow, CodesIInv, CodeTypes
      <3>3. Cardinality(hits') <= MaxHits
        <4>1. IsFiniteSet(hits)
          BY <3>2, FS_Subset, ResellerAssumption
        <4>2. Cardinality(Allow(hits)) <= Cardinality(hits)
              /\ Cardinality(hits) \in Nat /\ Cardinality(Allow(hits)) \in Nat
          BY <3>2, <4>1, FS_Subset, FS_CardinalityType
        <4> QED
          BY <3>1, <4>2, ResellerAssumption DEF CodesIInv, HitsInv
      <3>4. \A q \in Redeem : hitAt[q] <= today /\ hitAt[q] > today - Window => q \in hits'
        BY <3>1 DEF CodesIInv, HitsInv, Allow
      <3> QED
        BY <3>1, <3>2, <3>3, <3>4 DEF CodesIInv, HitsInv, Attempts
    <2>2. CASE ~(Cardinality(Allow(hits)) >= MaxHits)
      <3>1. hits' = Allow(hits) \union {r} /\ hitAt' = [hitAt EXCEPT ![r] = today]
        BY <2>2 DEF EnterCode
      <3>2. HitsInv'
        BY <1>0, <2>2, <3>1, HitCounted
      <3>3. hits' \subseteq Redeem
        BY <3>1 DEF Allow, CodesIInv, CodeTypes
      <3>4. hitAt' \in [Redeem -> Nat]
        BY <3>1 DEF CodesIInv, CodeTypes
      <3> QED
        BY <3>2, <3>3, <3>4
    <2> QED
      BY <2>1, <2>2
  <1>3. CodeTypes'
    BY <1>0, <1>1, <1>2 DEF CodesIInv, CodeTypes, RedemptionPc
  <1>4. ClaimInv'
    <2>1. /\ r \notin Claims /\ Claims' = Claims
          /\ \A q \in Redeem : redemption'[q] = "looked" => entered'[q] \in Code
      BY <1>0, <1>1 DEF CodesIInv, CodeTypes, ClaimInv, Claims
    <2>2. \A q \in Claims : entered'[q] = entered[q] /\ redemption'[q] = redemption[q]
      BY <1>0, <1>1, <2>1 DEF CodesIInv, CodeTypes, Claims
    <2> QED
      BY <1>0, <2>1, <2>2 DEF CodesIInv, ClaimInv
  <1>5. MadeInv' /\ SettledInv'
    BY <1>0 DEF CodesIInv, MadeInv, SettledInv
  <1> QED
    BY <1>2, <1>3, <1>4, <1>5 DEF CodesIInv

LEMMA ClaimsKeeps ==
  ASSUME CodesIInv, NEW r \in Redeem, ClaimsCode(r)
  PROVE  CodesIInv'
  <1>0. /\ UNCHANGED <<minting, made, entered, hitAt, hits, grants, today>>
        /\ redemption[r] = "looked" /\ entered[r] \in Code
    BY DEF ClaimsCode, minters, CodesIInv, ClaimInv
  <1>1. HitsInv'
    BY <1>0 DEF CodesIInv, HitsInv, Attempts
  <1>2. CASE Claimable(entered[r])
    <2>1. /\ redemption' = [redemption EXCEPT ![r] = "claimed"]
          /\ codes' = [codes EXCEPT ![entered[r]].by = RedeemerOf[r]]
          /\ codes[entered[r]].by = Nobody
      BY <1>2 DEF ClaimsCode, Claimable
    <2>2. \A d \in Code : /\ codes'[d].owner = codes[d].owner /\ codes'[d].settler = codes[d].settler
                          /\ codes'[d].by = IF d = entered[r] THEN RedeemerOf[r] ELSE codes[d].by
      BY <1>0, <2>1 DEF CodesIInv, CodeTypes, CodeRow
    <2>3. CodeTypes'
      <3>1. codes' \in [Code -> CodeRow]
        <4>1. PICK c \in Code : c = entered[r]
          BY <1>0
        <4>2. codes' = [codes EXCEPT ![c].by = RedeemerOf[r]]
          BY <2>1, <4>1
        <4> QED
          BY <4>2, CodeNames DEF CodesIInv, CodeTypes, CodeRow
      <3>2. redemption' \in [Redeem -> RedemptionPc]
        BY <2>1 DEF CodesIInv, CodeTypes, RedemptionPc
      <3> QED
        BY <1>0, <3>1, <3>2 DEF CodesIInv, CodeTypes
    <2>4. \A q \in Claims : entered[q] # entered[r]
      BY <2>1, CodeNames DEF CodesIInv, ClaimInv, Claims
    <2>5. /\ Claims' = Claims \union {r} /\ r \notin Claims
          /\ \A q \in Claims : redemption'[q] = redemption[q]
          /\ \A q \in Redeem : redemption'[q] = "looked" => redemption[q] = "looked"
      BY <1>0, <2>1 DEF CodesIInv, CodeTypes, Claims
    <2>6. ClaimInv'
      BY <1>0, <2>2, <2>4, <2>5 DEF CodesIInv, ClaimInv
    <2>7. MadeInv' /\ SettledInv'
      BY <1>0, <2>2 DEF CodesIInv, CodeTypes, MadeInv, SettledInv
    <2> QED
      BY <1>1, <2>3, <2>6, <2>7 DEF CodesIInv
  <1>3. CASE ~Claimable(entered[r])
    <2>1. UNCHANGED codes /\ redemption' = [redemption EXCEPT ![r] = "refused"]
      BY <1>3 DEF ClaimsCode
    <2>2. /\ Claims' = Claims
          /\ \A q \in Claims : redemption'[q] = redemption[q]
          /\ \A q \in Redeem : redemption'[q] = "looked" => redemption[q] = "looked"
      BY <1>0, <2>1 DEF CodesIInv, CodeTypes, Claims
    <2>3. ClaimInv'
      BY <1>0, <2>1, <2>2 DEF CodesIInv, ClaimInv
    <2>4. CodeTypes'
      BY <1>0, <2>1 DEF CodesIInv, CodeTypes, RedemptionPc
    <2> QED
      BY <1>0, <1>1, <2>1, <2>3, <2>4 DEF CodesIInv, MadeInv, SettledInv
  <1> QED
    BY <1>2, <1>3

LEMMA ActivateCodeKeeps ==
  ASSUME CodesIInv, NEW r \in Redeem, ActivateCode(r)
  PROVE  CodesIInv'
  <1>0. /\ UNCHANGED <<codes, minting, made, entered, hitAt, hits, today>>
        /\ redemption[r] = "claimed" /\ r \in Claims /\ entered[r] \in Code
    BY DEF ActivateCode, minters, CodesIInv, ClaimInv, Claims
  <1>1. HitsInv' /\ MadeInv' /\ SettledInv'
    BY <1>0 DEF CodesIInv, HitsInv, Attempts, MadeInv, SettledInv
  <1>2. PICK pc \in {"done", "lost"} : redemption' = [redemption EXCEPT ![r] = pc]
    BY DEF ActivateCode
  <1>3. /\ Claims' = Claims
        /\ \A q \in Redeem \ {r} : redemption'[q] = redemption[q]
        /\ \A q \in Redeem : redemption'[q] = "looked" => redemption[q] = "looked"
    BY <1>0, <1>2 DEF CodesIInv, CodeTypes, Claims
  <1>4. \A c \in Code : grants[c] # 0 =>
          grants[c] = 1 /\ c # entered[r] /\ \E q \in Claims : redemption'[q] = "done" /\ entered[q] = c
    BY <1>0, <1>3 DEF CodesIInv, ClaimInv, Claims
  <1>5. CASE redemption' = [redemption EXCEPT ![r] = "lost"] /\ UNCHANGED grants
    BY <1>0, <1>1, <1>3, <1>4, <1>5 DEF CodesIInv, CodeTypes, ClaimInv, RedemptionPc
  <1>6. CASE redemption' = [redemption EXCEPT ![r] = "done"] /\ grants' = [grants EXCEPT ![entered[r]] = @ + 1]
    <2>1. grants[entered[r]] = 0 /\ redemption'[r] = "done"
      BY <1>0, <1>4, <1>6 DEF CodesIInv, CodeTypes
    <2>2. grants \in [Code -> Nat]
      BY DEF CodesIInv, CodeTypes
    <2>3. \A c \in Code : grants'[c] = IF c = entered[r] THEN 1 ELSE grants[c]
      BY <1>0, <1>6, <2>1, <2>2
    <2>4. grants' \in [Code -> Nat]
      BY <1>0, <1>6, <2>2
    <2>5. ClaimInv'
      BY <1>0, <1>3, <1>4, <2>1, <2>3 DEF CodesIInv, ClaimInv
    <2> QED
      BY <1>0, <1>1, <1>6, <2>4, <2>5 DEF CodesIInv, CodeTypes, RedemptionPc
  <1> QED
    BY <1>5, <1>6 DEF ActivateCode

\* No attempt is made in the future: time only closes windows.
LEMMA CodeTickKeeps ==
  ASSUME CodesIInv, CodeTick
  PROVE  CodesIInv'
  <1>0. /\ UNCHANGED <<codes, minting, made, redemption, entered, hitAt, hits, grants>>
        /\ today' = today + 1 /\ today' \in 0 .. MaxNow
    BY ResellerAssumption DEF CodeTick, minters, redeemers, CodesIInv, CodeTypes
  <1>1. hitAt \in [Redeem -> Nat] /\ today \in Nat /\ Window \in Nat \ {0} /\ MaxNow \in Nat
        /\ MaxHits \in Nat
    BY ResellerAssumption DEF CodesIInv, CodeTypes
  <1>2. \A r \in Redeem : hitAt[r] <= today' <=> hitAt[r] <= today
    BY <1>0, <1>1 DEF CodesIInv, HitsInv
  <1>3. \A t \in 0 .. today : Attempts(t)' = Attempts(t)
    BY <1>0, <1>2 DEF Attempts
  <1>4. ASSUME NEW t, t = today' PROVE Attempts(t)' = {}
    BY <1>0, <1>1, <1>2, <1>4 DEF Attempts
  <1>5. \A t \in 0 .. today' : Cardinality(Attempts(t)') <= MaxHits
    <2> SUFFICES ASSUME NEW t \in 0 .. today' PROVE Cardinality(Attempts(t)') <= MaxHits
      OBVIOUS
    <2>1. t \in 0 .. today \/ t = today'
      BY <1>0, <1>1
    <2>2. CASE t \in 0 .. today
      BY <1>3, <2>2 DEF CodesIInv, HitsInv
    <2>3. CASE t = today'
      BY <1>1, <1>4, <2>3, FS_EmptySet
    <2> QED
      BY <2>1, <2>2, <2>3
  <1>6. HitsInv'
    BY <1>0, <1>1, <1>2, <1>5 DEF CodesIInv, HitsInv
  <1> QED
    BY <1>0, <1>6 DEF CodesIInv, CodeTypes, MadeInv, SettledInv, ClaimInv, Claims

LEMMA CodesInitially == CodesInit => CodesIInv
  <1> SUFFICES ASSUME CodesInit PROVE CodesIInv
    OBVIOUS
  <1>1. CodeTypes
    BY ResellerAssumption DEF CodesInit, CodeTypes, CodeRow, Unminted, RedemptionPc
  <1>2. MadeInv /\ SettledInv
    BY DEF CodesInit, MadeInv, SettledInv, Unminted
  <1>3. ClaimInv
    BY DEF CodesInit, ClaimInv, Claims
  <1>4. \A t : Attempts(t) = {}
    BY ResellerAssumption DEF CodesInit, Attempts
  <1>5. HitsInv
    <2>1. MaxHits >= 0 /\ Cardinality({}) = 0 /\ hits = {} /\ today = 0
      BY FS_EmptySet, ResellerAssumption DEF CodesInit
    <2>2. \A r \in Redeem : hitAt[r] = MaxNow + 1 /\ ~(MaxNow + 1 <= 0)
      BY ResellerAssumption DEF CodesInit
    <2> QED
      BY <1>4, <2>1, <2>2 DEF HitsInv
  <1> QED
    BY <1>1, <1>2, <1>3, <1>5 DEF CodesIInv

LEMMA CodesStepKeeps == CodesIInv /\ [CodesNext]_codeVars => CodesIInv'
  <1>1. CodesIInv /\ UNCHANGED codeVars => CodesIInv'
    BY DEF codeVars, minters, redeemers, CodesIInv, CodeTypes, MadeInv, SettledInv, ClaimInv, Claims,
           HitsInv, Attempts
  <1> QED
    BY <1>1, DrawKeeps, MintEndKeeps, SettleKeeps, EnterKeeps, ClaimsKeeps, ActivateCodeKeeps, CodeTickKeeps
    DEF CodesNext

CodesPromise == SoldOnce /\ CodeGrantsOnce /\ OwnSettlements /\ AttemptsBounded

LEMMA CodesKept == CodesIInv => CodesPromise
  <1> SUFFICES ASSUME CodesIInv PROVE CodesPromise
    OBVIOUS
  <1>1. SoldOnce
    BY DEF SoldOnce, CodesIInv, MadeInv
  <1>2. CodeGrantsOnce
    BY ResellerAssumption DEF CodeGrantsOnce, CodesIInv, CodeTypes, ClaimInv, Claims
  <1>3. OwnSettlements
    BY DEF OwnSettlements, CodesIInv, SettledInv, Rows
  <1>4. AttemptsBounded
    BY DEF AttemptsBounded, CodesIInv, HitsInv, Attempts
  <1> QED
    BY <1>1, <1>2, <1>3, <1>4 DEF CodesPromise

\* For any partners, customers and guesses: a code is sold to one customer, gives its period
\* once to the user its row names, is settled by the operator or its own partner, and no window
\* lets more attempts through than the limiter says (reseller.go).
THEOREM CodesHold == CodesSpec => [](SoldOnce /\ CodeGrantsOnce /\ OwnSettlements /\ AttemptsBounded)
  BY CodesInitially, CodesStepKeeps, CodesKept, PTL DEF CodesSpec, CodesPromise


-----------------------------------------------------------------------------
(* Plans: the inductive invariant.                                         *)

PlanRows == [plan : {"free", "paid"}, sub : SubId \union {NoSub}, ends : Int, paused : BOOLEAN,
             days : Nat, pauses : Nat, pausedAt : Int]

\* The sales that have been sent and not yet processed, each worth a plan that is paid for.
Sales == {n \in mail : n.kind \in {"paid", "sale"}}
Due   == {n.id : n \in Sales} \ processed

\* What has been paid for, beyond what the sales in transit will give.
Spare == credit - Length * Cardinality(Due)

\* What a row is good for, to whomever it belongs by the time it is written: a pause read under
\* a paid plan may be written over a free one, and be resumed under the next paid one.
Worth(r) == IF r.paused THEN r.days * DayLen
            ELSE IF HasPaidPlan(r) THEN Larger(r.ends - clock, 0) ELSE 0

Notices == [kind : {"paid", "sale", "synced", "slots", "ended", "disputed"},
            id : (SaleId \union SubId) \X Nat, sub : SubId \union {NoSub}, to : Nat]

\* A dispute is of a sale that has been sent.
LedgerTypes ==
  /\ planRow \in PlanRows /\ clock \in Nat /\ credit \in Int
  /\ mail \in SUBSET Notices /\ IsFiniteSet(mail)
  /\ \A n \in mail : n.kind = "disputed" => \E m \in mail : m.kind = "sale" /\ m.id = n.id

\* The row, the row a request has read, and every end a provider has stated are covered each by
\* itself: any of them may be written next, over whatever the row has become.
Covered ==
  /\ Worth(planRow) <= Spare
  /\ \A n \in mail : n.kind = "synced" => n.to - clock <= Spare
  /\ acting # Idle => /\ acting.row \in PlanRows /\ Worth(acting.row) <= Spare
                      /\ acting.op = "pause" => clock < acting.row.ends

PlanIInv == LedgerTypes /\ Covered

-----------------------------------------------------------------------------
(* Arithmetic.                                                             *)

LEMMA PlanNumbers ==
  /\ Length \in Nat \ {0} /\ DayLen \in Nat \ {0} /\ FreeDay \in Nat \ {0}
  BY PlanAssumption

LEMMA LargerIs ==
  ASSUME NEW a \in Int, NEW b \in Int
  PROVE  Larger(a, b) \in Int /\ Larger(a, b) >= a /\ Larger(a, b) >= b
         /\ (Larger(a, b) = a \/ Larger(a, b) = b)
  BY DEF Larger

LEMMA Product ==
  ASSUME NEW l \in Nat, NEW n \in Nat
  PROVE  l * n \in Nat /\ l * (n + 1) = l * n + l
  OBVIOUS

\* Days rounded up last at most a day less one tick longer.
LEMMA RoundUp ==
  ASSUME NEW x \in Nat, NEW d \in Nat \ {0}
  PROVE  /\ (x + d - 1) \div d \in Nat
         /\ ((x + d - 1) \div d) * d <= x + d - 1
  OBVIOUS

DueCounted == IsFiniteSet(Due) /\ Cardinality(Due) \in Nat /\ Spare \in Int

LEMMA DueTypes == LedgerTypes => DueCounted
  <1> SUFFICES ASSUME LedgerTypes PROVE DueCounted
    OBVIOUS
  <1>1. IsFiniteSet(Sales)
    BY FS_Subset DEF LedgerTypes, Sales
  <1>2. IsFiniteSet({n.id : n \in Sales})
    <2> DEFINE f == [n \in Sales |-> n.id]
    <2>1. f \in Surjection(Sales, {n.id : n \in Sales})
      BY DEF Surjection
    <2> QED
      BY <1>1, <2>1, FS_Surjection
  <1>3. IsFiniteSet(Due) /\ Cardinality(Due) \in Nat
    BY <1>2, FS_Subset, FS_CardinalityType DEF Due
  <1>4. Length * Cardinality(Due) \in Nat
    BY <1>3, PlanNumbers, Product
  <1> QED
    BY <1>3, <1>4 DEF DueCounted, Spare, LedgerTypes

LEMMA DueTypesNext == LedgerTypes' => DueCounted'
  BY DueTypes, PTL

LEMMA WorthTypes ==
  ASSUME NEW r \in PlanRows, clock \in Nat
  PROVE  Worth(r) \in Int /\ Worth(r) >= 0
  <1>1. r.days \in Nat /\ r.ends \in Int
    BY DEF PlanRows
  <1>2. r.days * DayLen \in Nat
    BY <1>1, PlanNumbers, Product
  <1>3. Larger(r.ends - clock, 0) \in Int /\ Larger(r.ends - clock, 0) >= 0
    <2>1. r.ends - clock \in Int /\ 0 \in Int
      BY <1>1
    <2> QED
      BY <2>1, LargerIs
  <1> QED
    BY <1>2, <1>3 DEF Worth


-----------------------------------------------------------------------------
(* What a step does to the sales due.                                      *)

\* A sale more, and its price: what is spare does not shrink.
LEMMA SaleSent ==
  ASSUME LedgerTypes, LedgerTypes', NEW x, Due' \subseteq Due \union {x}, credit' = credit + Length
  PROVE  Spare' >= Spare
  <1>1. /\ IsFiniteSet(Due) /\ Cardinality(Due) \in Nat /\ Cardinality(Due') \in Nat
    BY DueTypes, DueTypesNext DEF DueCounted
  <1>2. Cardinality(Due') <= Cardinality(Due) + 1
    <2>1. IsFiniteSet(Due \union {x}) /\ Cardinality(Due \union {x}) \in {Cardinality(Due), Cardinality(Due) + 1}
      BY <1>1, FS_AddElement
    <2>2. Cardinality(Due') <= Cardinality(Due \union {x})
      BY <2>1, FS_Subset
    <2> QED
      BY <1>1, <2>1, <2>2
  <1>3. \A l, m, n \in Nat : n <= m + 1 => l * n <= l * m + l
    OBVIOUS
  <1>4. Length * Cardinality(Due') <= Length * Cardinality(Due) + Length
    BY <1>1, <1>2, <1>3, PlanNumbers
  <1>5. Length * Cardinality(Due') \in Nat /\ Length * Cardinality(Due) \in Nat /\ Length \in Nat
    BY <1>1, PlanNumbers, Product
  <1>6. credit \in Int
    BY DEF LedgerTypes
  <1> QED
    BY <1>4, <1>5, <1>6 DEF Spare

\* A sale processed for the first time is worth its length.
LEMMA SaleProcessed ==
  ASSUME LedgerTypes, NEW n \in Sales, n.id \notin processed, UNCHANGED <<mail, credit>>,
         processed' = processed \union {n.id}
  PROVE  Spare' = Spare + Length
  <1>1. n.id \in Due /\ Due' = Due \ {n.id}
    BY DEF Due, Sales
  <1>2. Cardinality(Due') = Cardinality(Due) - 1 /\ Cardinality(Due) \in Nat /\ Cardinality(Due) # 0
    BY <1>1, DueTypes, FS_RemoveElement, FS_EmptySet DEF DueCounted
  <1>3. \A l, m \in Nat : m # 0 => l * (m - 1) = l * m - l
    OBVIOUS
  <1>4. Length * Cardinality(Due') = Length * Cardinality(Due) - Length
    BY <1>2, <1>3, PlanNumbers
  <1>5. Length * Cardinality(Due) \in Nat /\ Length \in Nat /\ credit \in Int
    BY <1>2, PlanNumbers, Product DEF LedgerTypes
  <1> QED
    BY <1>4, <1>5 DEF Spare

\* Fewer sales due leave no less to spare.
LEMMA FewerDue ==
  ASSUME LedgerTypes, LedgerTypes', Due' \subseteq Due, UNCHANGED credit
  PROVE  Spare' >= Spare
  <1>1. Cardinality(Due') <= Cardinality(Due)
    BY DueTypes, FS_Subset DEF DueCounted
  <1>2. Cardinality(Due) \in Nat /\ Cardinality(Due') \in Nat
    BY DueTypes, DueTypesNext DEF DueCounted
  <1>3. \A l, m, n \in Nat : n <= m => l * n <= l * m
    OBVIOUS
  <1>4. Length * Cardinality(Due') <= Length * Cardinality(Due)
    BY <1>1, <1>2, <1>3, PlanNumbers
  <1>5. Length * Cardinality(Due') \in Nat /\ Length * Cardinality(Due) \in Nat /\ credit \in Int
    BY <1>2, PlanNumbers, Product DEF LedgerTypes
  <1> QED
    BY <1>4, <1>5 DEF Spare


-----------------------------------------------------------------------------
(* The providers.                                                          *)

LEMMA CoverKept ==
  ASSUME PlanIInv, LedgerTypes', UNCHANGED <<clock, acting>>, Spare' >= Spare, Worth(planRow)' <= Spare',
         \A n \in mail' : n.kind = "synced" => n \in mail \/ n.to - clock <= Spare'
  PROVE  PlanIInv'
  <1>1. Spare \in Int /\ Spare' \in Int /\ clock \in Nat
    BY DueTypes, DueTypesNext DEF DueCounted, PlanIInv, LedgerTypes
  <1>2. \A n \in mail' : n.kind = "synced" => n.to - clock <= Spare'
    <2> SUFFICES ASSUME NEW n \in mail', n.kind = "synced", n \in mail PROVE n.to - clock <= Spare'
      OBVIOUS
    <2>1. n.to - clock <= Spare /\ n.to \in Nat
      BY DEF PlanIInv, Covered, LedgerTypes, Notices
    <2> QED
      BY <1>1, <2>1
  <1>3. ASSUME acting # Idle
        PROVE  /\ acting.row \in PlanRows /\ Worth(acting.row)' <= Spare'
               /\ acting.op = "pause" => clock < acting.row.ends
    <2>1. acting.row \in PlanRows /\ Worth(acting.row) <= Spare
          /\ (acting.op = "pause" => clock < acting.row.ends)
      BY <1>3 DEF PlanIInv, Covered
    <2>2. Worth(acting.row)' = Worth(acting.row) /\ Worth(acting.row) \in Int
      BY <1>1, <2>1, WorthTypes DEF Worth, Larger
    <2> QED
      BY <1>1, <2>1, <2>2
  <1>4. Covered'
    BY <1>2, <1>3 DEF Covered
  <1> QED
    BY <1>4 DEF PlanIInv

LEMMA SentDue ==
  ASSUME NEW x, mail' = mail \union {x}, UNCHANGED processed
  PROVE  /\ Due' \subseteq Due \union {x.id}
         /\ x.kind \notin {"paid", "sale"} => Due' = Due
  BY DEF Due, Sales

LEMMA SentTypes ==
  ASSUME PlanIInv, NEW x \in Notices, mail' = mail \union {x}, UNCHANGED <<planRow, clock>>, credit' \in Int,
         x.kind = "disputed" => \E m \in mail : m.kind = "sale" /\ m.id = x.id
  PROVE  LedgerTypes'
  <1>1. IsFiniteSet(mail')
    BY FS_AddElement DEF PlanIInv, LedgerTypes
  <1> QED
    BY <1>1 DEF PlanIInv, LedgerTypes

\* A row that rests keeps its worth while the clock does.
LEMMA WorthRests ==
  ASSUME PlanIInv, LedgerTypes', UNCHANGED <<planRow, clock>>, Spare' >= Spare
  PROVE  Worth(planRow)' <= Spare'
  <1>1. Spare \in Int /\ Spare' \in Int /\ Worth(planRow) \in Int /\ Worth(planRow) <= Spare
    BY DueTypes, DueTypesNext, WorthTypes DEF DueCounted, PlanIInv, LedgerTypes, Covered
  <1>2. Worth(planRow)' = Worth(planRow)
    BY DEF Worth, Larger
  <1> QED
    BY <1>1, <1>2

\* A notice that gives nothing by itself: of slots, of an end, of a dispute.
LEMMA NoticeKeeps ==
  ASSUME PlanIInv, NEW x \in Notices, mail' = mail \union {x},
         UNCHANGED <<planRow, processed, clock, credit, acting>>,
         x.kind \in {"slots", "ended", "disputed"},
         x.kind = "disputed" => \E m \in mail : m.kind = "sale" /\ m.id = x.id
  PROVE  PlanIInv'
  <1>1. LedgerTypes'
    BY SentTypes DEF PlanIInv, LedgerTypes
  <1>2. Due' = Due
    BY SentDue
  <1>3. Spare' >= Spare
    BY <1>1, <1>2, FewerDue DEF PlanIInv
  <1> QED
    BY <1>1, <1>3, WorthRests, CoverKept

\* A sale that has been paid for gives nothing yet.
LEMMA SaleKeeps ==
  ASSUME PlanIInv, NEW x \in Notices, mail' = mail \union {x}, x.kind \in {"paid", "sale"},
         UNCHANGED <<planRow, processed, clock, acting>>, credit' = credit + Length
  PROVE  PlanIInv'
  <1>1. LedgerTypes'
    BY SentTypes, PlanNumbers DEF PlanIInv, LedgerTypes
  <1>2. Spare' >= Spare
    BY <1>1, SentDue, SaleSent DEF PlanIInv
  <1> QED
    BY <1>1, <1>2, WorthRests, CoverKept

\* An end that a provider states is covered by the payment it is about.
LEMMA SyncKeeps ==
  ASSUME PlanIInv, NEW x \in Notices, mail' = mail \union {x}, x.kind = "synced", x.to = clock + Length,
         UNCHANGED <<planRow, processed, clock, acting>>, credit' = credit + Length
  PROVE  PlanIInv'
  <1>1. LedgerTypes'
    <2>1. credit \in Int /\ Length \in Nat
      BY PlanNumbers DEF PlanIInv, LedgerTypes
    <2>2. credit' \in Int
      BY <2>1
    <2>3. UNCHANGED <<planRow, clock>> /\ x.kind # "disputed"
      OBVIOUS
    <2> QED
      BY <2>2, <2>3, SentTypes
  <1>2. Due' = Due
    BY SentDue
  <1>3. Spare \in Int /\ Worth(planRow) \in Int /\ Worth(planRow) >= 0 /\ Worth(planRow) <= Spare
        /\ clock \in Nat
    BY DueTypes, WorthTypes DEF DueCounted, PlanIInv, LedgerTypes, Covered
  <1>4. Spare' = Spare + Length
    <2>1. Length * Cardinality(Due) \in Int /\ credit \in Int
      BY DueTypes, PlanNumbers, Product DEF DueCounted, PlanIInv, LedgerTypes
    <2> QED
      BY <1>2, <2>1, PlanNumbers DEF Spare
  <1>5. Spare' >= Spare /\ x.to - clock <= Spare'
    BY <1>3, <1>4, PlanNumbers
  <1> QED
    BY <1>1, <1>5, WorthRests, CoverKept

LEMMA ProvidersKeep ==
  ASSUME PlanIInv,
         PayOnce \/ Dispute
           \/ \E s \in SubId : ChargeSubscription(s) \/ ChargeSlots(s) \/ EndSubscription(s)
  PROVE  PlanIInv'
  <1>0. clock \in Nat /\ Length \in Nat /\ MaxEnd \in Nat
    BY PlanAssumption DEF PlanIInv, LedgerTypes
  <1>1. CASE PayOnce
    <2>1. PICK id \in SaleId : mail' = mail \union {[kind |-> "paid", id |-> <<id, 0>>, sub |-> NoSub, to |-> 0]}
      BY <1>1 DEF PayOnce
    <2>2. [kind |-> "paid", id |-> <<id, 0>>, sub |-> NoSub, to |-> 0] \in Notices
      BY DEF Notices
    <2> QED
      BY <1>1, <2>1, <2>2, SaleKeeps DEF PayOnce
  <1>2. CASE Dispute
    <2>1. PICK n \in mail : n.kind = "sale" /\ mail' = mail \union {[n EXCEPT !.kind = "disputed"]}
      BY <1>2 DEF Dispute
    <2>2. n \in Notices
      BY DEF PlanIInv, LedgerTypes
    <2>3. /\ [n EXCEPT !.kind = "disputed"] \in Notices
          /\ [n EXCEPT !.kind = "disputed"].kind = "disputed" /\ [n EXCEPT !.kind = "disputed"].id = n.id
      BY <2>2 DEF Notices
    <2> QED
      BY <1>2, <2>1, <2>3, NoticeKeeps DEF Dispute
  <1>3. ASSUME NEW s \in SubId, ChargeSubscription(s)
        PROVE  PlanIInv'
    <2> DEFINE end == clock + Length
    <2>1. CASE s \in Announces
      <3>1. [kind |-> "sale", id |-> <<s, end>>, sub |-> s, to |-> 0] \in Notices
        BY <1>0 DEF Notices
      <3> QED
        BY <1>3, <2>1, <3>1, SaleKeeps DEF ChargeSubscription
    <2>2. CASE s \notin Announces
      <3>1. [kind |-> "synced", id |-> <<s, end>>, sub |-> s, to |-> end] \in Notices
        BY <1>0 DEF Notices
      <3> QED
        BY <1>3, <2>2, <3>1, SyncKeeps DEF ChargeSubscription
    <2> QED
      BY <2>1, <2>2
  <1>4. ASSUME NEW s \in SubId, ChargeSlots(s)
        PROVE  PlanIInv'
    <2>1. [kind |-> "slots", id |-> <<s, 1>>, sub |-> s, to |-> 0] \in Notices
      BY DEF Notices
    <2> QED
      BY <1>4, <2>1, NoticeKeeps DEF ChargeSlots
  <1>5. ASSUME NEW s \in SubId, EndSubscription(s)
        PROVE  PlanIInv'
    <2>1. [kind |-> "ended", id |-> <<s, 0>>, sub |-> s, to |-> 0] \in Notices
      BY DEF Notices
    <2> QED
      BY <1>5, <2>1, NoticeKeeps DEF EndSubscription
  <1> QED
    BY <1>1, <1>2, <1>3, <1>4, <1>5


-----------------------------------------------------------------------------
(* The webhooks.                                                           *)

\* What a plan that is given or taken is worth: nothing of a pause is left in it.
LEMMA UpdatedRow ==
  ASSUME planRow \in PlanRows, NEW plan \in {"free", "paid"}, NEW sub \in SubId \union {NoSub},
         NEW end \in Int, UpdatePlanRow(plan, sub, end), UNCHANGED clock
  PROVE  /\ planRow' \in PlanRows
         /\ Worth(planRow)' = IF plan = "paid" THEN Larger(end - clock, 0) ELSE 0
  <1>1. planRow' = [planRow EXCEPT !.plan = plan, !.sub = sub, !.ends = end, !.paused = FALSE, !.days = 0,
                                   !.pauses = 0]
    BY DEF UpdatePlanRow
  <1>2. planRow' \in PlanRows
    BY <1>1 DEF PlanRows
  <1>3. planRow'.plan = plan /\ planRow'.ends = end /\ planRow'.paused = FALSE
    BY <1>1 DEF PlanRows
  <1>4. Worth(planRow)' = IF plan = "paid" THEN Larger(end - clock, 0) ELSE 0
    BY <1>3 DEF Worth, HasPaidPlan, Larger
  <1> QED
    BY <1>2, <1>4

\* A plan that is given for a sale lasts its length and what was left.
LEMMA SaleWorth ==
  ASSUME PlanIInv
  PROVE  SaleExpiry \in Int /\ Larger(SaleExpiry - clock, 0) <= Spare + Length
  <1>1. /\ planRow \in PlanRows /\ clock \in Nat /\ Length \in Nat /\ Spare \in Int
        /\ Worth(planRow) <= Spare /\ Worth(planRow) \in Int /\ Worth(planRow) >= 0
    BY DueTypes, WorthTypes, PlanNumbers DEF DueCounted, PlanIInv, LedgerTypes, Covered
  <1>2. planRow.ends \in Int
    BY <1>1 DEF PlanRows
  <1>3. \E left \in Int : SaleExpiry = clock + Length + left /\ 0 <= left /\ left <= Spare
    <2>1. CASE HasPaidPlan(planRow) /\ ~planRow.paused
      <3>1. Worth(planRow) = Larger(planRow.ends - clock, 0)
        BY <2>1 DEF Worth
      <3>2. SaleExpiry = clock + Length + Larger(planRow.ends - clock, 0)
        BY <2>1 DEF SaleExpiry
      <3> QED
        BY <1>1, <3>1, <3>2
    <2>2. CASE ~(HasPaidPlan(planRow) /\ ~planRow.paused)
      <3>1. SaleExpiry = clock + Length + 0
        BY <2>2 DEF SaleExpiry
      <3>2. 0 <= Spare
        BY <1>1
      <3> QED
        BY <3>1, <3>2
    <2> QED
      BY <2>1, <2>2
  <1>4. PICK left \in Int : SaleExpiry = clock + Length + left /\ 0 <= left /\ left <= Spare
    BY <1>3
  <1>5. SaleExpiry - clock = Length + left /\ Length + left >= 0 /\ SaleExpiry \in Int
    BY <1>1, <1>4
  <1> QED
    BY <1>1, <1>4, <1>5 DEF Larger

BesideRow == UNCHANGED <<mail, acting, clock, credit>>

LEMMA BesideTypes ==
  ASSUME PlanIInv, BesideRow, planRow' \in PlanRows
  PROVE  LedgerTypes'
  BY DEF PlanIInv, LedgerTypes, BesideRow

\* A plan given or taken without the price of a sale stays within what is spare.
LEMMA GivenKeeps ==
  ASSUME PlanIInv, BesideRow, NEW plan \in {"free", "paid"}, NEW sub \in SubId \union {NoSub},
         NEW end \in Int, UpdatePlanRow(plan, sub, end), UNCHANGED processed,
         plan = "paid" => Larger(end - clock, 0) <= Spare
  PROVE  PlanIInv'
  <1>1. /\ planRow' \in PlanRows
        /\ Worth(planRow)' = IF plan = "paid" THEN Larger(end - clock, 0) ELSE 0
    BY UpdatedRow DEF PlanIInv, LedgerTypes, BesideRow
  <1>2. LedgerTypes' /\ Due' = Due
    BY <1>1, BesideTypes DEF Due, Sales, BesideRow
  <1>3. Spare' = Spare /\ Spare \in Int
    BY <1>2, DueTypes DEF Spare, DueCounted, BesideRow, PlanIInv
  <1>4. 0 <= Spare
    <2>1. Worth(planRow) \in Int /\ Worth(planRow) >= 0 /\ Worth(planRow) <= Spare
      BY WorthTypes DEF PlanIInv, LedgerTypes, Covered
    <2> QED
      BY <1>3, <2>1
  <1>5. Worth(planRow)' <= Spare' /\ Spare' >= Spare
    BY <1>1, <1>3, <1>4
  <1> QED
    BY <1>2, <1>5, CoverKept DEF BesideRow

\* A plan given for a sale, the first time it is processed.
LEMMA SoldKeeps ==
  ASSUME PlanIInv, BesideRow, NEW n \in Sales, n.id \notin processed,
         processed' = processed \union {n.id}, NEW sub \in SubId \union {NoSub}, NEW end \in Int,
         UpdatePlanRow("paid", sub, end), Larger(end - clock, 0) <= Spare + Length
  PROVE  PlanIInv'
  <1>1. planRow' \in PlanRows /\ Worth(planRow)' = Larger(end - clock, 0)
    BY UpdatedRow DEF PlanIInv, LedgerTypes, BesideRow
  <1>2. LedgerTypes'
    BY <1>1, BesideTypes
  <1>3. Spare' = Spare + Length
    BY SaleProcessed DEF PlanIInv, BesideRow
  <1>4. Spare \in Int /\ Length \in Nat
    BY DueTypes, PlanNumbers DEF DueCounted, PlanIInv
  <1>5. Worth(planRow)' <= Spare' /\ Spare' >= Spare
    BY <1>1, <1>3, <1>4
  <1> QED
    BY <1>2, <1>5, CoverKept DEF BesideRow

\* A notice that has been handled before.
LEMMA AgainKeeps ==
  ASSUME PlanIInv, BesideRow, UNCHANGED planRow, processed \subseteq processed'
  PROVE  PlanIInv'
  <1>1. LedgerTypes' /\ Due' \subseteq Due
    BY BesideTypes DEF PlanIInv, LedgerTypes, Due, Sales, BesideRow
  <1>2. Spare' >= Spare
    BY <1>1, FewerDue DEF PlanIInv, BesideRow
  <1> QED
    BY <1>1, <1>2, WorthRests, CoverKept DEF BesideRow

\* A row that is made free is worth nothing.
LEMMA FreedKeeps ==
  ASSUME PlanIInv, BesideRow, UNCHANGED processed,
         planRow' = [planRow EXCEPT !.plan = "free", !.sub = NoSub, !.ends = clock + FreeDay,
                                    !.paused = FALSE, !.days = 0]
  PROVE  PlanIInv'
  <1>1. planRow' \in PlanRows /\ planRow'.plan = "free" /\ planRow'.paused = FALSE
    <2>1. clock + FreeDay \in Int /\ planRow \in PlanRows
      BY PlanNumbers DEF PlanIInv, LedgerTypes
    <2> QED
      BY <2>1 DEF PlanRows
  <1>2. Worth(planRow)' = 0
    BY <1>1 DEF Worth, HasPaidPlan
  <1>3. LedgerTypes' /\ Due' = Due
    BY <1>1, BesideTypes DEF Due, Sales, BesideRow
  <1>4. Spare' = Spare /\ Spare \in Int
    BY <1>3, DueTypes DEF Spare, DueCounted, BesideRow, PlanIInv
  <1>5. Worth(planRow) \in Int /\ Worth(planRow) >= 0 /\ Worth(planRow) <= Spare
    BY WorthTypes DEF PlanIInv, LedgerTypes, Covered
  <1>6. Worth(planRow)' <= Spare' /\ Spare' >= Spare
    BY <1>2, <1>4, <1>5
  <1> QED
    BY <1>3, <1>6, CoverKept DEF BesideRow

LEMMA ActivatesKeep ==
  ASSUME PlanIInv, BesideRow, NEW n \in mail, n.kind \in {"paid", "sale"}, Activate(n)
  PROVE  PlanIInv'
  <1>1. CASE n.id \in processed
    BY <1>1, AgainKeeps DEF Activate
  <1>2. CASE n.id \notin processed
    <2>1. n \in Sales /\ n.sub \in SubId \union {NoSub}
      BY DEF Sales, PlanIInv, LedgerTypes, Notices
    <2>2. UpdatePlanRow("paid", n.sub, SaleExpiry) /\ processed' = processed \union {n.id}
      BY <1>2 DEF Activate, GivePlan
    <2> QED
      BY <1>2, <2>1, <2>2, SaleWorth, SoldKeeps
  <1> QED
    BY <1>1, <1>2

LEMMA WebhooksKeep ==
  ASSUME PlanIInv,
         \/ InvoicePaid \/ SaleNotified \/ SubscriptionSynced \/ SlotsNotified \/ SubscriptionEnded
         \/ DisputeNotified
  PROVE  PlanIInv'
  <1>0. BesideRow /\ clock \in Nat /\ Length \in Nat /\ FreeDay \in Nat
    BY PlanNumbers DEF InvoicePaid, SaleNotified, SubscriptionSynced, SlotsNotified, SubscriptionEnded,
                       DisputeNotified, BesidesRow, BesideRow, PlanIInv, LedgerTypes
  <1>1. CASE InvoicePaid \/ SaleNotified
    BY <1>0, <1>1, ActivatesKeep DEF InvoicePaid, SaleNotified
  <1>2. CASE SubscriptionSynced
    <2>1. PICK n \in mail : n.kind = "synced" /\ GivePlan(n.sub, n.to)
      BY <1>2 DEF SubscriptionSynced
    <2>2. n.to \in Int /\ n.sub \in SubId \union {NoSub} /\ n.to - clock <= Spare
      BY <2>1 DEF PlanIInv, LedgerTypes, Notices, Covered
    <2>3. Spare \in Int /\ 0 <= Spare
      <3>1. Worth(planRow) \in Int /\ Worth(planRow) >= 0 /\ Worth(planRow) <= Spare /\ Spare \in Int
        BY WorthTypes, DueTypes DEF DueCounted, PlanIInv, LedgerTypes, Covered
      <3> QED
        BY <3>1
    <2>4. Larger(n.to - clock, 0) <= Spare
      BY <1>0, <2>2, <2>3 DEF Larger
    <2> QED
      BY <1>0, <1>2, <2>1, <2>2, <2>4, GivenKeeps DEF SubscriptionSynced, GivePlan
  <1>3. CASE SlotsNotified
    BY <1>0, <1>3, AgainKeeps DEF SlotsNotified
  <1>4. CASE SubscriptionEnded
    <2>1. CASE UNCHANGED planRow
      BY <1>0, <1>4, <2>1, AgainKeeps DEF SubscriptionEnded
    <2>2. CASE ~UNCHANGED planRow
      <3>1. planRow' = [planRow EXCEPT !.plan = "free", !.sub = NoSub, !.ends = clock + FreeDay,
                                       !.paused = FALSE, !.days = 0]
        BY <1>4, <2>2 DEF SubscriptionEnded
      <3> QED
        BY <1>0, <1>4, <3>1, FreedKeeps DEF SubscriptionEnded
    <2> QED
      BY <2>1, <2>2
  <1>5. CASE DisputeNotified
    <2>1. PICK n \in mail :
            /\ n.kind = "disputed"
            /\ IF n.id \in processed
                 THEN UpdatePlanRow("free", NoSub, -1) /\ UNCHANGED <<processed, giver>>
                 ELSE GivePlan(n.sub, clock + Length) /\ processed' = processed \union {n.id}
      BY <1>5 DEF DisputeNotified
    <2>2. CASE n.id \in processed
      BY <1>0, <2>1, <2>2, GivenKeeps
    <2>3. CASE n.id \notin processed
      <3>1. PICK m \in mail : m.kind = "sale" /\ m.id = n.id
        BY <2>1 DEF PlanIInv, LedgerTypes
      <3>2. m \in Sales /\ n.sub \in SubId \union {NoSub}
        BY <3>1 DEF Sales, PlanIInv, LedgerTypes, Notices
      <3>3. Spare \in Int /\ 0 <= Spare
        <4>1. Worth(planRow) \in Int /\ Worth(planRow) >= 0 /\ Worth(planRow) <= Spare /\ Spare \in Int
          BY WorthTypes, DueTypes DEF DueCounted, PlanIInv, LedgerTypes, Covered
        <4> QED
          BY <4>1
      <3>4. clock + Length \in Int /\ Larger(clock + Length - clock, 0) <= Spare + Length
        BY <1>0, <3>3 DEF Larger
      <3> QED
        BY <1>0, <2>1, <2>3, <3>1, <3>2, <3>4, SoldKeeps DEF GivePlan
    <2> QED
      BY <2>2, <2>3
  <1> QED
    BY <1>1, <1>2, <1>3, <1>4, <1>5


-----------------------------------------------------------------------------
(* The account's own requests, and time.                                   *)

LEMMA ReadKeeps ==
  ASSUME PlanIInv, ReadRow
  PROVE  PlanIInv'
  <1>1. UNCHANGED <<planRow, processed, mail, clock, credit>>
    BY DEF ReadRow
  <1>2. LedgerTypes' /\ Spare' = Spare /\ Worth(planRow)' = Worth(planRow)
    BY <1>1 DEF PlanIInv, LedgerTypes, Spare, Due, Sales, Worth, Larger
  <1>3. PICK op \in {"pause", "resume", "lapse"} :
          acting' = [op |-> op, row |-> planRow] /\ (op # "lapse" => clock < planRow.ends)
    BY DEF ReadRow
  <1>4. acting'.row = planRow /\ acting'.op = op
    BY <1>3
  <1>5. Worth(acting.row)' = Worth(planRow)
    BY <1>1, <1>4 DEF Worth, Larger
  <1>6. \A n \in mail' : n.kind = "synced" => n.to - clock' <= Spare'
    BY <1>1, <1>2 DEF PlanIInv, Covered
  <1>7. Covered'
    BY <1>1, <1>2, <1>3, <1>4, <1>5, <1>6 DEF PlanIInv, LedgerTypes, Covered
  <1> QED
    BY <1>2, <1>7 DEF PlanIInv

\* What a request writes ends it.
LEMMA WrittenKeeps ==
  ASSUME PlanIInv, acting' = Idle, UNCHANGED <<processed, mail, clock>>, planRow' \in PlanRows,
         credit' \in Int, credit' >= credit, Worth(planRow)' <= Spare'
  PROVE  PlanIInv'
  <1>1. LedgerTypes' /\ Due' = Due
    BY DEF PlanIInv, LedgerTypes, Due, Sales
  <1>2. Length * Cardinality(Due) \in Int /\ credit \in Int
    BY DueTypes, PlanNumbers, Product DEF DueCounted, PlanIInv, LedgerTypes
  <1>3. Spare' >= Spare /\ Spare \in Int /\ Spare' \in Int
    BY <1>1, <1>2 DEF Spare
  <1>4. \A n \in mail' : n.kind = "synced" => n.to - clock' <= Spare'
    <2> SUFFICES ASSUME NEW n \in mail, n.kind = "synced" PROVE n.to - clock <= Spare'
      OBVIOUS
    <2>1. n.to - clock <= Spare /\ n.to \in Nat /\ clock \in Nat
      BY DEF PlanIInv, Covered, LedgerTypes, Notices
    <2> QED
      BY <1>3, <2>1
  <1> QED
    BY <1>1, <1>4 DEF PlanIInv, Covered

\* The row as it was read, and what it is worth.
LEMMA ActingRow ==
  ASSUME PlanIInv, acting.op # "none"
  PROVE  /\ acting.row \in PlanRows /\ Worth(acting.row) <= Spare /\ Worth(acting.row) \in Int
         /\ acting.op = "pause" => clock < acting.row.ends
  <1>1. acting # Idle
    BY DEF Idle
  <1> QED
    BY <1>1, WorthTypes DEF PlanIInv, LedgerTypes, Covered

LEMMA NothingWritten ==
  ASSUME PlanIInv, Writes(planRow), UNCHANGED credit
  PROVE  PlanIInv'
  <1>1. acting' = Idle /\ UNCHANGED <<planRow, processed, mail, clock, credit>>
    BY DEF Writes
  <1>2. Worth(planRow)' = Worth(planRow) /\ Spare' = Spare
    BY <1>1 DEF Worth, Larger, Spare, Due, Sales
  <1>3. planRow \in PlanRows /\ credit \in Int /\ Worth(planRow) <= Spare
    BY DEF PlanIInv, LedgerTypes, Covered
  <1>4. credit' \in Int /\ credit' >= credit
    BY <1>1, <1>3
  <1> QED
    BY <1>1, <1>2, <1>3, <1>4, WrittenKeeps

\* A pause rounds what is left up to days, and no more.
LEMMA PauseKeeps ==
  ASSUME PlanIInv, PauseSub
  PROVE  PlanIInv'
  <1> DEFINE r == acting.row
             x == r.ends - clock
  <1>1. r \in PlanRows /\ Worth(r) <= Spare /\ clock < r.ends /\ clock \in Nat /\ planRow \in PlanRows
    BY ActingRow DEF PauseSub, PlanIInv, LedgerTypes
  <1>2. r.ends \in Int /\ x \in Nat /\ DayLen \in Nat \ {0}
    <2>1. r.ends \in Int
      BY <1>1 DEF PlanRows
    <2> QED
      BY <1>1, <2>1, PlanNumbers
  <1>3. CASE HasPaidPlan(r) /\ ~r.paused /\ r.pauses < MaxPauses /\ clock - r.pausedAt >= DayLen
    <2> DEFINE d == (x + DayLen - 1) \div DayLen
    <2>1. /\ Writes([planRow EXCEPT !.paused = TRUE, !.pausedAt = clock, !.pauses = @ + 1, !.days = d])
          /\ credit' = credit + DayLen - 1
      BY <1>3 DEF PauseSub
    <2>2. d \in Nat /\ d * DayLen <= x + DayLen - 1
      BY <1>2, RoundUp
    <2> HIDE DEF d
    <2>3. planRow' = [planRow EXCEPT !.paused = TRUE, !.pausedAt = clock, !.pauses = @ + 1, !.days = d]
          /\ acting' = Idle /\ UNCHANGED <<processed, mail, clock>>
      BY <2>1 DEF Writes
    <2>4. planRow.pauses + 1 \in Nat /\ clock \in Int
      BY <1>1 DEF PlanRows
    <2>5. planRow' \in PlanRows /\ planRow'.paused = TRUE /\ planRow'.days = d
      BY <1>1, <2>2, <2>3, <2>4 DEF PlanRows
    <2>6. Worth(planRow)' = d * DayLen
      BY <2>5 DEF Worth
    <2>7. Worth(r) = Larger(x, 0)
      BY <1>3 DEF Worth
    <2>8. x <= Spare /\ Spare \in Int
      <3>1. Spare \in Int
        BY DueTypes DEF DueCounted, PlanIInv
      <3>2. x \in Int /\ 0 \in Int
        BY <1>2
      <3> HIDE DEF x
      <3>3. Larger(x, 0) >= x /\ Larger(x, 0) \in Int
        BY <3>2, LargerIs
      <3> QED
        BY <1>1, <2>7, <3>1, <3>2, <3>3
    <2>9. credit \in Int /\ Length * Cardinality(Due) \in Int /\ Due' = Due
      BY <2>3, DueTypes, PlanNumbers, Product DEF DueCounted, PlanIInv, LedgerTypes, Due, Sales
    <2>10. Spare' = Spare + DayLen - 1 /\ credit' \in Int /\ credit' >= credit
      BY <1>2, <2>1, <2>9 DEF Spare
    <2>11. Worth(planRow)' <= Spare'
      <3>1. d * DayLen \in Int
        BY <1>2, <2>2, Product
      <3> HIDE DEF x
      <3> QED
        BY <1>2, <2>2, <2>6, <2>8, <2>10, <3>1
    <2> QED
      BY <2>3, <2>5, <2>10, <2>11, WrittenKeeps
  <1>4. CASE ~(HasPaidPlan(r) /\ ~r.paused /\ r.pauses < MaxPauses /\ clock - r.pausedAt >= DayLen)
    BY <1>4, NothingWritten DEF PauseSub
  <1> QED
    BY <1>3, <1>4

LEMMA ResumeKeeps ==
  ASSUME PlanIInv, ResumeSub
  PROVE  PlanIInv'
  <1> DEFINE r == acting.row
             saved == r.days * DayLen
  <1>1. /\ r \in PlanRows /\ Worth(r) <= Spare /\ Worth(r) \in Int
        /\ clock \in Nat /\ planRow \in PlanRows /\ credit \in Int /\ Spare \in Int
    BY ActingRow, DueTypes DEF ResumeSub, PlanIInv, LedgerTypes, DueCounted
  <1>2. saved \in Nat
    <2>1. r.days \in Nat
      BY <1>1 DEF PlanRows
    <2> QED
      BY <2>1, PlanNumbers, Product
  <1>3. CASE r.paused
    <2>1. /\ planRow' = [planRow EXCEPT !.ends = clock + saved, !.paused = FALSE, !.days = 0]
          /\ acting' = Idle /\ UNCHANGED <<processed, mail, clock, credit>>
      BY <1>3 DEF ResumeSub, Writes
    <2>2. Worth(r) = saved
      BY <1>3 DEF Worth
    <2> HIDE DEF saved
    <2>3. clock + saved \in Int
      BY <1>1, <1>2
    <2>4. planRow' \in PlanRows /\ planRow'.paused = FALSE /\ planRow'.ends = clock + saved
      BY <1>1, <2>1, <2>3 DEF PlanRows
    <2>5. Worth(planRow)' = (IF HasPaidPlan(planRow)' THEN Larger(clock + saved - clock, 0) ELSE 0)
      <3>1. Worth(planRow)' = (IF HasPaidPlan(planRow)' THEN Larger(planRow'.ends - clock', 0) ELSE 0)
        BY <2>4 DEF Worth, Larger
      <3>2. planRow'.ends = clock + saved /\ clock' = clock
        BY <2>1, <2>4
      <3>3. planRow'.ends - clock' = clock + saved - clock
        BY <3>2, <1>1, <1>2
      <3>4. CASE HasPaidPlan(planRow)'
        <4>1. Worth(planRow)' = Larger(planRow'.ends - clock', 0)
          BY ONLY <3>1, <3>4
        <4> QED
          BY ONLY <3>3, <3>4, <4>1
      <3>5. CASE ~HasPaidPlan(planRow)'
        BY ONLY <3>1, <3>5
      <3> QED
        BY <3>4, <3>5
    <2>6. Larger(clock + saved - clock, 0) = saved
      BY <1>1, <1>2 DEF Larger
    <2>7. Worth(planRow)' <= saved
      <3>1. saved <= saved /\ 0 <= saved
        BY <1>2
      <3> QED
        BY <2>5, <2>6, <3>1
    <2>8. Spare' = Spare
      BY <2>1 DEF Spare, Due, Sales
    <2>9. Worth(planRow)' \in {0, saved}
      BY <2>5, <2>6
    <2>10. Worth(planRow)' <= Spare' /\ credit' \in Int /\ credit' >= credit
      BY <1>1, <1>2, <2>1, <2>2, <2>8, <2>9
    <2> QED
      BY <2>1, <2>4, <2>10, WrittenKeeps
  <1>4. CASE ~r.paused
    BY <1>4, NothingWritten DEF ResumeSub
  <1> QED
    BY <1>3, <1>4

LEMMA LapseKeeps ==
  ASSUME PlanIInv, LapsePlan
  PROVE  PlanIInv'
  <1>1. /\ planRow' = [planRow EXCEPT !.plan = "free", !.sub = NoSub, !.ends = clock + FreeDay,
                                      !.paused = FALSE, !.days = 0, !.pauses = 0]
        /\ acting' = Idle /\ UNCHANGED <<processed, mail, clock, credit>>
    BY DEF LapsePlan, Writes
  <1>2. planRow' \in PlanRows /\ planRow'.plan = "free" /\ planRow'.paused = FALSE
    <2>1. clock + FreeDay \in Int /\ planRow \in PlanRows
      BY PlanNumbers DEF PlanIInv, LedgerTypes
    <2> QED
      BY <1>1, <2>1 DEF PlanRows
  <1>3. Worth(planRow)' = 0
    BY <1>2 DEF Worth, HasPaidPlan
  <1>4. Spare' = Spare /\ Spare \in Int /\ credit \in Int
    BY <1>1, DueTypes DEF Spare, Due, Sales, DueCounted, PlanIInv, LedgerTypes
  <1>5. Worth(planRow) \in Int /\ Worth(planRow) >= 0 /\ Worth(planRow) <= Spare
    BY WorthTypes DEF PlanIInv, LedgerTypes, Covered
  <1>6. Worth(planRow)' <= Spare' /\ credit' \in Int /\ credit' >= credit
    BY <1>1, <1>3, <1>4, <1>5
  <1> QED
    BY <1>1, <1>2, <1>6, WrittenKeeps

\* A tick is served from the credit when the plan runs, and takes one from every end.
LEMMA TickKeeps ==
  ASSUME PlanIInv, TickPlan
  PROVE  PlanIInv'
  <1>1. acting = Idle /\ clock' = clock + 1 /\ UNCHANGED <<planRow, processed, mail, acting>>
    BY DEF TickPlan
  <1>2. /\ planRow \in PlanRows /\ clock \in Nat /\ credit \in Int /\ Spare \in Int
        /\ Worth(planRow) <= Spare /\ Worth(planRow) \in Int /\ Worth(planRow) >= 0
    BY DueTypes, WorthTypes DEF DueCounted, PlanIInv, LedgerTypes, Covered
  <1>3. planRow.ends \in Int /\ planRow.days * DayLen \in Nat
    <2>1. planRow.ends \in Int /\ planRow.days \in Nat
      BY <1>2 DEF PlanRows
    <2> QED
      BY <2>1, PlanNumbers, Product
  <1>4. Length * Cardinality(Due) \in Int /\ Due' = Due
    BY <1>1, DueTypes, PlanNumbers, Product DEF DueCounted, PlanIInv, Due, Sales
  <1>5. ASSUME Spare' \in {Spare - 1, Spare}, Worth(planRow)' <= Spare', credit' \in Int
        PROVE  PlanIInv'
    <2>1. \A n \in mail' : n.kind = "synced" => n.to - clock' <= Spare'
      <3> SUFFICES ASSUME NEW n \in mail, n.kind = "synced" PROVE n.to - clock' <= Spare'
        BY <1>1
      <3>1. n.to - clock <= Spare /\ n.to \in Nat
        BY DEF PlanIInv, Covered, LedgerTypes, Notices
      <3> QED
        BY <1>1, <1>2, <1>5, <3>1
    <2>2. clock' \in Nat
      BY <1>1, <1>2
    <2> QED
      BY <1>1, <1>5, <2>1, <2>2 DEF PlanIInv, LedgerTypes, Covered
  <1>6. CASE HasPaidPlan(planRow) /\ ~planRow.paused /\ clock < planRow.ends
    <2>1. credit' = credit - 1
      BY <1>6 DEF TickPlan
    <2>2. Worth(planRow) = Larger(planRow.ends - clock, 0)
          /\ Worth(planRow)' = Larger(planRow.ends - (clock + 1), 0)
      BY <1>1, <1>6 DEF Worth, HasPaidPlan, Larger
    <2>3. Spare' = Spare - 1 /\ credit' \in Int
      BY <1>2, <1>4, <2>1 DEF Spare
    <2>4. clock < planRow.ends
      BY <1>6
    <2>5. Worth(planRow)' <= Spare'
      BY ONLY <1>2, <1>3, <2>2, <2>3, <2>4 DEF Larger
    <2> QED
      BY <1>5, <2>3, <2>5
  <1>7. CASE ~(HasPaidPlan(planRow) /\ ~planRow.paused /\ clock < planRow.ends)
    <2>1. credit' = credit
      BY <1>7 DEF TickPlan
    <2>2. Spare' = Spare /\ credit' \in Int
      BY <1>2, <1>4, <2>1 DEF Spare
    <2>3. Worth(planRow)' <= Spare'
      <3>1. CASE planRow.paused
        <4>1. Worth(planRow)' = Worth(planRow)
          BY <1>1, <3>1 DEF Worth
        <4> QED
          BY <1>2, <2>2, <4>1
      <3>2. CASE ~planRow.paused /\ ~HasPaidPlan(planRow)
        <4>1. Worth(planRow)' = 0
          BY <1>1, <3>2 DEF Worth, HasPaidPlan
        <4> QED
          BY <1>2, <2>2, <4>1
      <3>3. CASE ~planRow.paused /\ HasPaidPlan(planRow)
        <4>1. Worth(planRow)' = Larger(planRow.ends - (clock + 1), 0) /\ ~(clock < planRow.ends)
          BY <1>1, <1>7, <3>3 DEF Worth, HasPaidPlan, Larger
        <4>2. Worth(planRow)' = 0
          BY ONLY <1>2, <1>3, <4>1 DEF Larger
        <4> QED
          BY <1>2, <2>2, <4>2
      <3> QED
        BY <3>1, <3>2, <3>3
    <2> QED
      BY <1>5, <2>2, <2>3
  <1> QED
    BY <1>6, <1>7

LEMMA PlanStepKeeps == PlanIInv /\ [PlanNext]_planVars => PlanIInv'
  <1>1. ASSUME PlanIInv, UNCHANGED planVars
        PROVE  PlanIInv'
    <2>1. BesideRow /\ UNCHANGED <<planRow, processed>>
      BY <1>1 DEF planVars, BesideRow
    <2> QED
      BY <1>1, <2>1, AgainKeeps
  <1> QED
    BY <1>1, ProvidersKeep, WebhooksKeep, ReadKeeps, PauseKeeps, ResumeKeeps, LapseKeeps, TickKeeps
    DEF PlanNext

LEMMA PlanInitially == PlanInit => PlanIInv
  <1> SUFFICES ASSUME PlanInit PROVE PlanIInv
    OBVIOUS
  <1>1. FreeDay \in Int /\ -DayLen \in Int
    BY PlanNumbers
  <1>2. planRow \in PlanRows /\ planRow.plan = "free" /\ planRow.paused = FALSE
    BY <1>1 DEF PlanInit, PlanRows
  <1>3. mail = {} /\ clock = 0 /\ credit = 0 /\ acting = Idle /\ Due = {}
    BY DEF PlanInit, Due, Sales
  <1>4. Spare = 0
    <2>1. Cardinality(Due) = 0 /\ credit = 0
      BY <1>3, FS_EmptySet
    <2> QED
      BY <2>1, PlanNumbers DEF Spare
  <1>5. Worth(planRow) = 0
    BY <1>2 DEF Worth, HasPaidPlan
  <1>6. LedgerTypes
    BY <1>2, <1>3, FS_EmptySet DEF LedgerTypes
  <1>7. Covered
    BY <1>3, <1>4, <1>5 DEF Covered
  <1> QED
    BY <1>6, <1>7 DEF PlanIInv

LEMMA NothingFree == PlanIInv => NoFreeTime
  <1> SUFFICES ASSUME PlanIInv PROVE NoFreeTime
    OBVIOUS
  <1>1. /\ planRow \in PlanRows /\ clock \in Nat /\ credit \in Int
        /\ Worth(planRow) <= Spare /\ Worth(planRow) \in Int /\ Worth(planRow) >= 0
    BY WorthTypes DEF PlanIInv, LedgerTypes, Covered
  <1>2. Length * Cardinality(Due) \in Nat
    BY DueTypes, PlanNumbers, Product DEF DueCounted, PlanIInv
  <1>3. Worth(planRow) <= credit
    BY <1>1, <1>2 DEF Spare
  <1>4. Left(planRow) = Worth(planRow) \/ Left(planRow) = 0
    BY DEF Left, Worth
  <1>5. Left(planRow) <= credit
    BY <1>1, <1>3, <1>4
  <1> QED
    BY <1>5 DEF NoFreeTime

\* For any payments and subscriptions, in any order, late or again, and for requests that write
\* what they read before: nobody is served a plan for longer than has been paid for, but for
\* what a pause rounds up (bitcart.go, bachs.go, gumroad.go, account.go).
THEOREM NoFreeTimeHolds == PlanSpec => []NoFreeTime
  BY PlanInitially, PlanStepKeeps, NothingFree, PTL DEF PlanSpec

-----------------------------------------------------------------------------
(* What was paid for since stays.                                          *)

\* A paid plan names what has paid for it, and only subscriptions that are over are said to be.
GiverInv ==
  /\ HasPaidPlan(planRow) => planRow.sub = giver
  /\ \A n \in mail : n.kind = "ended" => n.sub \in subOver

LEMMA GiverInitially == PlanInit => GiverInv
  BY DEF PlanInit, GiverInv, HasPaidPlan

LEMMA GiverStepKeeps ==
  ASSUME PlanIInv, GiverInv, [PlanNext]_planVars
  PROVE  GiverInv'
  <1>1. planRow \in PlanRows /\ mail \in SUBSET Notices
    BY DEF PlanIInv, LedgerTypes
  <1>2. CASE UNCHANGED planVars
    BY <1>2 DEF planVars, GiverInv, HasPaidPlan
  <1>3. CASE Dispute
    <2>1. PICK n \in mail : mail' = mail \union {[n EXCEPT !.kind = "disputed"]}
      BY <1>3 DEF Dispute
    <2>2. [n EXCEPT !.kind = "disputed"].kind = "disputed"
      BY <1>1 DEF Notices
    <2> QED
      BY <1>3, <2>1, <2>2 DEF Dispute, GiverInv, HasPaidPlan
  <1>4. CASE PayOnce \/ ReadRow \/ TickPlan
    BY <1>4 DEF PayOnce, ReadRow, TickPlan, GiverInv, HasPaidPlan
  <1>5. ASSUME NEW s \in SubId, ChargeSubscription(s) \/ ChargeSlots(s) \/ EndSubscription(s) PROVE GiverInv'
    BY <1>5 DEF ChargeSubscription, ChargeSlots, EndSubscription, GiverInv, HasPaidPlan
  <1>6. ASSUME NEW n, Activate(n) \/ GivePlan(n.sub, n.to) \/ GivePlan(n.sub, clock + Length), UNCHANGED <<mail, subOver>>
        PROVE  GiverInv'
    BY <1>1, <1>6 DEF Activate, GivePlan, UpdatePlanRow, GiverInv, HasPaidPlan, PlanRows
  <1>7. CASE InvoicePaid
    <2>1. PICK n \in mail : Activate(n)
      BY <1>7 DEF InvoicePaid
    <2> QED
      BY <1>6, <1>7, <2>1 DEF InvoicePaid, BesidesRow
  <1>8. CASE SaleNotified
    <2>1. PICK n \in mail : Activate(n)
      BY <1>8 DEF SaleNotified
    <2> QED
      BY <1>6, <1>8, <2>1 DEF SaleNotified, BesidesRow
  <1>9. CASE SubscriptionSynced
    <2>1. PICK n \in mail : GivePlan(n.sub, n.to)
      BY <1>9 DEF SubscriptionSynced
    <2> QED
      BY <1>6, <1>9, <2>1 DEF SubscriptionSynced, BesidesRow
  <1>10. CASE SlotsNotified
    BY <1>10 DEF SlotsNotified, BesidesRow, GiverInv, HasPaidPlan
  <1>11. CASE SubscriptionEnded
    BY <1>1, <1>11 DEF SubscriptionEnded, BesidesRow, GiverInv, HasPaidPlan, PlanRows
  <1>12. CASE DisputeNotified
    <2>1. UNCHANGED <<mail, subOver>>
      BY <1>12 DEF DisputeNotified, BesidesRow
    <2>2. CASE UpdatePlanRow("free", NoSub, -1)
      BY <1>1, <2>1, <2>2 DEF UpdatePlanRow, GiverInv, HasPaidPlan, PlanRows
    <2>3. CASE \E n \in mail : GivePlan(n.sub, clock + Length)
      BY <1>6, <2>1, <2>3
    <2> QED
      BY <1>12, <2>2, <2>3 DEF DisputeNotified
  <1>13. CASE PauseSub \/ ResumeSub \/ LapsePlan
    BY <1>1, <1>13 DEF PauseSub, ResumeSub, LapsePlan, Writes, GiverInv, HasPaidPlan, PlanRows
  <1> QED
    BY <1>2, <1>3, <1>4, <1>5, <1>7, <1>8, <1>9, <1>10, <1>11, <1>12, <1>13 DEF PlanNext

\* The end of a subscription takes the plan the row says it has given.
LEMMA GiverTakes ==
  ASSUME GiverInv, SubscriptionEnded, HasPaidPlan(planRow), ~HasPaidPlan(planRow')
  PROVE  giver \in subOver
  <1>1. PICK n \in mail : n.kind = "ended" /\ (planRow.sub # n.sub => UNCHANGED planRow)
    BY DEF SubscriptionEnded
  <1>2. planRow.sub = n.sub
    BY <1>1 DEF HasPaidPlan
  <1> QED
    BY <1>1, <1>2 DEF GiverInv

\* Whichever payments and ends come late, again or out of order: the end of a subscription takes
\* a plan only when what gave that plan is over (gumroad.go, bachs.go).
THEOREM PlanOutlivesOldSubHolds == PlanSpec => PlanOutlivesOldSub
  <1>1. PlanIInv /\ GiverInv /\ [PlanNext]_planVars =>
          [SubscriptionEnded /\ HasPaidPlan(planRow) /\ ~HasPaidPlan(planRow') => giver \in subOver]_planVars
    BY GiverTakes
  <1> QED
    BY <1>1, PlanInitially, PlanStepKeeps, GiverInitially, GiverStepKeeps, PTL DEF PlanSpec, PlanOutlivesOldSub

=============================================================================
