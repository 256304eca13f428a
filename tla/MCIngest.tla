------------------------------ MODULE MCIngest ------------------------------
(*****************************************************************************)
(* What brings content in and shares no state with the rest: each component on *)
(* a small instance, side by side. A behaviour is a behaviour of the component *)
(* its focus names; the others rest.                                         *)
(*****************************************************************************)
EXTENDS
  TorrentRunner, TorrentStall, UsenetFetch, PartFile, DebridFetch, Submission, PlanLife,
  ReleaseRun, LinkRun, CacheCheck, ResellerCodes, TelegramBot, TLC

CONSTANTS
  Foci,        \* the components a run explores
  h1, f1, d1, d2, ga, gb, gc, gd, ge, gf, gh

\* The instances.
Files == <<"one", "two", "par">>
From == <<1, 2>>
To == <<1, 3>>
Chains == [r \in Run |-> IF r = d1 THEN <<"rd">> ELSE <<"tb", "oc", "ad", "rd", "pm">>]
AnyChain == [r \in Run |-> <<"oc", "ad", "rd", "pm">>]
Facades7 == [g \in Grab |->
  CASE g = gc -> "newz" [] g = ge -> "arrNzb" [] g = gf -> "magnet" [] g = gh -> "debridApi"
    [] OTHER -> "native"]
Grabbers == [g \in Grab |-> IF g \in {gc, gh} THEN "w" ELSE "u"]
Linked   == [g \in Grab |-> IF g \in {ga, gb, gc} THEN "l" ELSE NoLink]
Rolled   == [g \in Grab |->
  IF g \in {ga, gb, gc} THEN {"c", "d"} ELSE IF g \in {gf, gh} THEN {"m"} ELSE {"c"}]
\* A link asked for twice and by another account; a file by hand and from an arr; a magnet.
LinkPairs == {{}, {ga, gb}, {gb, gc}}
Together  == LinkPairs \union {{ga, gb, gc}, {gd, ge}, {gf, gh}}
\* A post that shows nothing, the two pages it points to: a video beside an archive, an
\* archive over the limit.
Posted(n, k, i, f) == [name |-> n, kind |-> k, num |-> i, fits |-> f]
Posts == <<
  <<>>,
  <<Posted("video", "video", 0, 2), Posted("r2", "rar", 2, 1), Posted("other", "video", 0, 1),
    Posted("video", "video", 0, 2), Posted("r1", "rar", 1, 1)>>,
  <<Posted("r1", "rar", 1, 1), Posted("r2", "rar", 2, 1), Posted("r3", "rar", 3, 1),
    Posted("r1", "rar", 1, 1)>>>>
Served == [a \in Ask |-> IF a = "a1" THEN "p" ELSE "q"]
\* Two users who redeem at once, two partners who mint at once.
Periods   == [c \in Code |-> 2]
Minters   == [p \in Mint |-> p]
Redeemers == [r \in Redeem |-> r]
\* An account that sends the document twice, and another that has it too.
Senders == [g \in Forward |-> IF g = "f3" THEN "b" ELSE "a"]

-----------------------------------------------------------------------------
VARIABLE focus

partsVars ==
  <<focus,
    torrentVars, stallVars, fetchVars, partVars, debridVars, submissionVars, planVars,
    releaseVars, linkVars, checkVars, codeVars, botVars>>

\* The components of which a behaviour is not one stay as they are.
Resting(f) ==
  /\ IF f = "torrents" THEN TRUE ELSE UNCHANGED torrentVars
  /\ IF f = "stall" THEN TRUE ELSE UNCHANGED stallVars
  /\ IF f = "usenet" THEN TRUE ELSE UNCHANGED fetchVars
  /\ IF f = "partfile" THEN TRUE ELSE UNCHANGED partVars
  /\ IF f = "debrid" THEN TRUE ELSE UNCHANGED debridVars
  /\ IF f = "submission" THEN TRUE ELSE UNCHANGED submissionVars
  /\ IF f = "plans" THEN TRUE ELSE UNCHANGED planVars
  /\ IF f = "releases" THEN TRUE ELSE UNCHANGED releaseVars
  /\ IF f = "links" THEN TRUE ELSE UNCHANGED linkVars
  /\ IF f = "checks" THEN TRUE ELSE UNCHANGED checkVars
  /\ IF f = "codes" THEN TRUE ELSE UNCHANGED codeVars
  /\ IF f = "bot" THEN TRUE ELSE UNCHANGED botVars
  /\ UNCHANGED focus

PartsInit ==
  /\ focus \in Foci
  /\ TorrentInit
  /\ StallFresh /\ waiting = IF focus = "stall" THEN "yes" ELSE "over"
  /\ FetchInit
  /\ PartInit
  /\ DebridFresh /\ asks = [r \in Run |-> IF focus = "debrid" THEN "run" ELSE "idle"]
  /\ SubmissionInit /\ (focus = "submission" <=> turns # 0)
  /\ PlanInit /\ (focus # "plans" => subOver = SubId)
  /\ ReleaseInit
  /\ LinkInit /\ (focus # "links" => ~ofList)
  /\ CheckInit /\ (focus # "checks" => \A t \in Torrent : ~blob[t] /\ ~offers[t] /\ t \notin quick)
  /\ CodesInit
  /\ BotInit

PartsNext ==
  /\ \/ focus = "torrents" /\ TorrentNext
     \/ focus = "stall" /\ StallNext
     \/ focus = "usenet" /\ FetchNext
     \/ focus = "partfile" /\ PartNext
     \/ focus = "debrid" /\ DebridNext
     \/ focus = "submission" /\ SubmissionNext
     \/ focus = "plans" /\ PlanNext
     \/ focus = "releases" /\ ReleaseNext
     \/ focus = "links" /\ LinkNext
     \/ focus = "checks" /\ CheckNext
     \/ focus = "codes" /\ CodesNext
     \/ focus = "bot" /\ BotNext
  /\ Resting(focus)

PartsSpec == PartsInit /\ [][PartsNext]_partsVars

\* The fairness each module states, for its own behaviours.
PartsFairness ==
  /\ \A h \in Hash : WF_torrentVars(focus = "torrents" /\ RunStep(h))
  /\ \A h \in Hash : WF_torrentVars(focus = "torrents" /\ RunHold(h))
  /\ \A h \in Hash : WF_torrentVars(focus = "torrents" /\ ReconcileTorrent(h))
  /\ \A r \in Runner : WF_torrentVars(focus = "torrents" /\ PollList(r))
  /\ \A r \in Runner, h \in Hash : SF_torrentVars(focus = "torrents" /\ Reassign(r, h))
  /\ \A r \in Runner : SF_torrentVars(focus = "torrents" /\ ReapStep(r))
  /\ \A f \in Fin : WF_torrentVars(focus = "torrents" /\ FinStepOf(f))
  /\ WF_stallVars(focus = "stall" /\ TimePasses)
  /\ WF_stallVars(focus = "stall" /\ Poll)
  /\ WF_fetchVars(focus = "usenet" /\ FetchStep)
  /\ WF_partVars(focus = "partfile" /\ PartStep)
  /\ \A r \in Run : WF_debridVars(focus = "debrid" /\ DebridStep(r) /\ Cardinality(stuck') <= MaxStuck)
  /\ \A g \in Grab : WF_submissionVars(focus = "submission" /\ GrabStep(g))
LivePartsSpec == PartsSpec /\ PartsFairness

\* The variables of each component have the types the code gives them.
IngestTypeOK ==
  /\ focus = "torrents" => TorrentTypeOK
  /\ focus = "stall" => StallTypeOK
  /\ focus = "usenet" => FetchTypeOK
  /\ focus = "partfile" => PartTypeOK
  /\ focus = "debrid" => DebridTypeOK
  /\ focus = "submission" => SubmissionTypeOK
  /\ focus = "plans" => PlanTypeOK
  /\ focus = "releases" => ReleaseTypeOK
  /\ focus = "links" => LinkTypeOK
  /\ focus = "checks" => CheckTypeOK
  /\ focus = "codes" => CodesTypeOK
  /\ focus = "bot" => BotTypeOK

-----------------------------------------------------------------------------
\* What the runner knows of the torrent engine is true: a mark is held by one run and by
\* no dead one (torrent.go), the reaper spares what an active row names (orphans.go), and
\* a stuck torrent is restarted once (finalize.go).
TorrentsKept ==
  /\ NoStrayMark
  /\ OneHolder
  /\ ReapSparesActive
  /\ RestartedOnce

\* What counts as downloaded is whole: holes are reported and counted once, repair is
\* asked only when it can help (download.go, usenet.go), a part file renamed is full
\* (parallel.go, download.go), and a forwarded file has all its parts unless two accounts
\* forward it at once (bot.go).
FetchedIsWhole ==
  /\ HolesReported
  /\ TallyBounded
  /\ ParityGuards
  /\ DoneIsWhole
  /\ ReadsInPlace
  /\ WholeUnlessTwoAtOnce
  /\ NoFileLeft

\* A run takes its files from one attempt: what a debrid service was given is taken back
\* (debrid.go), a release unpacks one packaging, falls back to Usenet when its mirrors
\* are dead and has every episode (release.go), and a link stays within its limit and
\* publishes what was merged (ytdlp.go).
OneSourceOfFiles ==
  /\ NothingLeft
  /\ OneSource
  /\ UnpacksOnePackaging
  /\ FallbackWhenDead
  /\ PackHasEveryEpisode
  /\ OverrunIsOneTick
  /\ UnmergedOnlyInLists

\* However a content is asked for, one row of an account answers for a link and its NZB
\* is the row's (usenet.go, newz_add.go); what a check finds here is said to be cached,
\* and what it is told lasts two lives at most (check.go, availcache.go).
AskedOnce ==
  /\ OneRowPerLink
  /\ NzbBehindRow
  /\ HereIsCached
  /\ TwoLivesAtMost

\* Time is given for money, once: a payment delivered twice or late gives no free time
\* (bitcart.go, bachs.go, gumroad.go), a code is sold once, gives one plan and is settled
\* by its own partner, within the attempts allowed (reseller.go).
PaidIsGiven ==
  /\ NoFreeTime
  /\ SoldOnce
  /\ CodeGrantsOnce
  /\ OwnSettlements
  /\ AttemptsBounded

\* Nothing of its owner's is touched behind his back: no step of a run removes what was
\* in his library (realdebrid.go, torbox.go), nor brings back a content he has removed
\* (usenet.go), nor takes, with an old subscription, a plan paid for since (gumroad.go,
\* bachs.go).
OwnersKeepTheirs ==
  /\ LibraryKept
  /\ RemovedStaysAway
  /\ PlanOutlivesOldSub

\* A torrent that has gone missing runs again or its row ends, an orphan is reaped, and
\* one that is stuck ends (torrent.go, orphans.go, finalize.go).
TorrentsSettle ==
  /\ MissingReturns
  /\ OrphanGoes
  /\ StuckEnds

\* Every fetch, part file, debrid run and grab ends, whatever fails in it (download.go,
\* debrid.go, usenet.go).
FetchesEnd ==
  /\ FetchEnds
  /\ FetchFileEnds
  /\ RunEnds
  /\ GrabsEnd
=============================================================================
