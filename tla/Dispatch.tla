------------------------------ MODULE Dispatch ------------------------------
(***************************************************************************)
(* How an admitted job reaches a worker and ends: Assign (shared/cluster), *)
(* the messages JobAssigned and JobDeleted, the goroutines of an ingest    *)
(* worker (process, a runner's Run, Publish, Fail), its cancel registry,   *)
(* its held hashes and its download gate, and the reconciliation that      *)
(* re-assigns what a lost message or a crash has stranded.                 *)
(*                                                                         *)
(* A row is always written back whole, as the writer last saw it, under    *)
(* WHERE id = ...: whatever happened to it in between is overwritten,      *)
(* unless it was deleted.  Every read and every write is a step.           *)
(*                                                                         *)
(* Abstractions: a row is its status and its node; jobs are those a worker *)
(* fetches inside the run (usenet, hoster, yt-dlp, release, debrid), not   *)
(* those qBittorrent fetches; the admission is one step (JobQueue has its statements); a    *)
(* published content stays (BlobStore has its eviction); processing, which *)
(* jobrun.Complete writes just before publishing, is not told apart from   *)
(* it; metering and rate limits are left out.                              *)
(***************************************************************************)
EXTENDS Integers, FiniteSets

CONSTANTS
  Job,            \* rows of the jobs table
  Hash, HashOf,   \* jobs.info_hash
  Prewarm,        \* the prewarmer's jobs: torrents from a debrid service
  Node,
  Blank,          \* the node of a row that was never assigned
  Worker,         \* ingest processes
  Serves,         \* the nodes whose jobs a worker handles
  Targets,        \* the nodes a worker's Publisher may choose
  Run, WorkerOf,  \* the goroutines of process, each in its worker
  NoRun, NoJob, NoNode,
  MaxActive,      \* INGEST_MAX_ACTIVE_DOWNLOADS
  MaxAdmit,       \* bound on admissions
  MaxLoss,        \* bound on the messages lost in transit
  MaxCrash        \* bound on the crashes of workers and of an Assign

ASSUME DispatchAssumption ==
  /\ HashOf \in [Job -> Hash]
  /\ Prewarm \subseteq Job
  /\ Blank \in Node
  /\ Serves \in [Worker -> SUBSET Node]
  /\ \A w, v \in Worker : w # v => Serves[w] \cap Serves[v] = {}
  /\ Targets \in [Worker -> SUBSET Node]
  /\ WorkerOf \in [Run -> Worker]
  /\ NoRun \notin Run /\ NoJob \notin Job /\ NoNode \notin Node
  /\ MaxActive \in Nat \ {0}
  /\ MaxAdmit \in Nat /\ MaxLoss \in Nat /\ MaxCrash \in Nat

\* jobs.concurrencyStatuses; "none" and "deleted" are the absence of the row.
Concurrency == {"pending", "downloading", "publishing"}
Status      == {"none", "queued", "complete", "failed", "deleted"} \cup Concurrency

\* A run's next step.  The gate is held in Gated, the hash from Gated to "release",
\* the entry in the registry until "untrack".
Gated   == {"start", "fetch", "upload", "list", "complete", "failing", "failsibs", "failrows"}
Holding == Gated \cup {"gate", "release"}
RunPc   == {"idle", "track", "hold", "untrack"} \cup Holding

VARIABLES
  status, node,        \* the rows
  call, cnode,         \* an Assign in progress: its next step, its choice
  assigned, deleted,   \* messages in transit: <<job, node>>, <<worker, job>>
  manifests,           \* <<node, hash>> of the published contents
  pc, rjob, rnode,     \* a run: next step, its job, the node in its copy of the row
  sibs,                \* the rows it has listed
  live,                \* its context is not cancelled
  tracked,             \* cancelRegistry: the run registered for a job
  held,                \* activeHashes: <<worker, hash>>
  todo, qcur, qsibs,   \* a reconciliation: the jobs it has listed, the one it completes,
                       \* the rows it has listed for that
  admits, losses, crashes

rows    == <<status, node>>
msgs    == <<assigned, deleted>>
calls   == <<call, cnode>>
runs    == <<pc, rjob, rnode, sibs, live>>
memory  == <<tracked, held>>
recons  == <<todo, qcur, qsibs>>
bounds  == <<admits, losses, crashes>>
vars    == <<rows, calls, msgs, manifests, runs, memory, recons, bounds>>

-----------------------------------------------------------------------------
Present(j)   == status[j] \notin {"none", "deleted"}
RowsOf(h)    == {j \in Job : HashOf[j] = h /\ Present(j)}
ActiveHash(h) == \E j \in RowsOf(h) : status[j] \in Concurrency

\* UPDATE jobs SET ... WHERE id: the whole row, if it is still there.
Update(j, s, n) ==
  /\ status' = IF Present(j) THEN [status EXCEPT ![j] = s] ELSE status
  /\ node' = IF Present(j) THEN [node EXCEPT ![j] = n] ELSE node

\* Publisher.complete: the rows a published content completes ...
Completable(h, n) ==
  {j \in RowsOf(h) : status[j] # "failed" /\ (node[j] = n \/ status[j] = "queued")}

\* ... and FailActiveSiblings: those a failed download fails with it.
FailableWith(j, n) ==
  {k \in RowsOf(HashOf[j]) \ {j} : status[k] \in Concurrency /\ node[k] = n}

NoMsg == <<NoJob, NoNode>>

Init ==
  /\ status = [j \in Job |-> "none"]
  /\ node = [j \in Job |-> Blank]
  /\ call = [j \in Job |-> "none"]
  /\ cnode = [j \in Job |-> NoNode]
  /\ assigned = {}
  /\ deleted = {}
  /\ manifests = {}
  /\ pc = [r \in Run |-> "idle"]
  /\ rjob = [r \in Run |-> NoJob]
  /\ rnode = [r \in Run |-> NoNode]
  /\ sibs = [r \in Run |-> {}]
  /\ live = [r \in Run |-> TRUE]
  /\ tracked = [w \in Worker |-> [j \in Job |-> NoRun]]
  /\ held = {}
  /\ todo = [w \in Worker |-> {}]
  /\ qcur = [w \in Worker |-> NoMsg]
  /\ qsibs = [w \in Worker |-> {}]
  /\ admits = 0
  /\ losses = 0
  /\ crashes = 0

-----------------------------------------------------------------------------
(* The API: admission, Assign, deletion.                                   *)

\* A new row, a retried or rechecked one, or one promoted from the queue starts when
\* nobody runs its content; a prewarmed row is inserted pending without asking.
Admit(j) ==
  /\ call[j] = "none"
  /\ admits < MaxAdmit
  /\ \/ status[j] = "none"
     \/ status[j] \in {"failed", "complete", "queued"} /\ j \notin Prewarm
  /\ j \notin Prewarm => ~ActiveHash(HashOf[j])
  /\ admits' = admits + 1
  /\ status' = [status EXCEPT ![j] = "pending"]
  /\ call' = [call EXCEPT ![j] = "update"]
  /\ UNCHANGED <<node, cnode, msgs, manifests, runs, memory, recons, losses, crashes>>

Enqueue(j) ==
  /\ call[j] = "none"
  /\ status[j] \in {"none", "failed", "complete"} /\ j \notin Prewarm
  /\ admits < MaxAdmit
  /\ admits' = admits + 1
  /\ status' = [status EXCEPT ![j] = "queued"]
  /\ UNCHANGED <<node, calls, msgs, manifests, runs, memory, recons, losses, crashes>>

\* Assign writes the row back as the admission returned it, with the node TargetNode
\* chose, and then tells the workers.
AssignUpdate(j, n) ==
  /\ call[j] = "update"
  /\ Update(j, "pending", n)
  /\ cnode' = [cnode EXCEPT ![j] = n]
  /\ call' = [call EXCEPT ![j] = "publish"]
  /\ UNCHANGED <<msgs, manifests, runs, memory, recons, bounds>>

AssignPublish(j) ==
  /\ call[j] = "publish"
  /\ assigned' = assigned \cup {<<j, cnode[j]>>}
  /\ call' = [call EXCEPT ![j] = "none"]
  /\ cnode' = [cnode EXCEPT ![j] = NoNode]
  /\ UNCHANGED <<rows, deleted, manifests, runs, memory, recons, bounds>>

\* The API process dies in the middle of an Assign.
AssignCrash(j) ==
  /\ call[j] # "none"
  /\ crashes < MaxCrash
  /\ crashes' = crashes + 1
  /\ call' = [call EXCEPT ![j] = "none"]
  /\ cnode' = [cnode EXCEPT ![j] = NoNode]
  /\ UNCHANGED <<rows, msgs, manifests, runs, memory, recons, admits, losses>>

\* JobDeleted goes to every worker, if the row was seen running; the last complete row
\* of a content is kept for the system, and the prewarmer drops what has failed.
Delete(j) ==
  /\ Present(j)
  /\ IF j \in Prewarm THEN status[j] = "failed"
                      ELSE status[j] = "complete" => RowsOf(HashOf[j]) # {j}
  /\ status' = [status EXCEPT ![j] = "deleted"]
  /\ deleted' = IF status[j] \in Concurrency
                THEN deleted \cup (Worker \X {j}) ELSE deleted
  /\ UNCHANGED <<node, calls, assigned, manifests, runs, memory, recons, bounds>>

\* Core NATS: who is not connected at the moment does not get it.
Lose ==
  /\ losses < MaxLoss
  /\ losses' = losses + 1
  /\ \/ \E m \in assigned : assigned' = assigned \ {m} /\ UNCHANGED deleted
     \/ \E m \in deleted : deleted' = deleted \ {m} /\ UNCHANGED assigned
  /\ UNCHANGED <<rows, calls, manifests, runs, memory, recons, admits, crashes>>

-----------------------------------------------------------------------------
(* A worker's goroutine for one JobAssigned.                               *)

Goto(r, label) == pc' = [pc EXCEPT ![r] = label]
HashOfRun(r)   == HashOf[rjob[r]]
Registered(r)  == tracked[WorkerOf[r]][rjob[r]]
ActiveAt(w)    == {r \in Run : WorkerOf[r] = w /\ pc[r] \in Gated}

RunEnds(r) ==
  /\ Goto(r, "idle")
  /\ rjob' = [rjob EXCEPT ![r] = NoJob]
  /\ rnode' = [rnode EXCEPT ![r] = NoNode]
  /\ sibs' = [sibs EXCEPT ![r] = {}]
  /\ live' = [live EXCEPT ![r] = TRUE]

\* The handler's goroutine loads the row first; a deleted row ends it.
Process(r, j, n) ==
  /\ pc[r] = "idle"
  /\ <<j, n>> \in assigned
  /\ n \in Serves[WorkerOf[r]]
  /\ assigned' = assigned \ {<<j, n>>}
  /\ IF Present(j)
     THEN /\ rjob' = [rjob EXCEPT ![r] = j]
          /\ rnode' = [rnode EXCEPT ![r] = node[j]]
          /\ Goto(r, "track")
     ELSE UNCHANGED <<pc, rjob, rnode>>
  /\ UNCHANGED <<rows, calls, deleted, manifests, sibs, live, memory, recons, bounds>>

\* Bug: the newest run takes the entry over.
TrackAlways(r) ==
  /\ pc[r] = "track"
  /\ tracked' = [tracked EXCEPT ![WorkerOf[r]][rjob[r]] = r]
  /\ Goto(r, "hold")
  /\ UNCHANGED <<rows, calls, msgs, manifests, rjob, rnode, sibs, live, held, recons, bounds>>

TrackIfAbsent(r) ==
  /\ pc[r] = "track"
  /\ IF Registered(r) = NoRun
     THEN /\ tracked' = [tracked EXCEPT ![WorkerOf[r]][rjob[r]] = r]
          /\ Goto(r, "hold")
          /\ UNCHANGED <<rjob, rnode, sibs, live>>
     ELSE RunEnds(r) /\ UNCHANGED tracked
  /\ UNCHANGED <<rows, calls, msgs, manifests, held, recons, bounds>>

\* Bug: the early return calls done, which releases the hash of the other run.
HoldHashOrDone(r) ==
  /\ pc[r] = "hold"
  /\ LET slot == <<WorkerOf[r], HashOfRun(r)>> IN
       IF slot \in held
       THEN Goto(r, "release") /\ UNCHANGED held
       ELSE Goto(r, "gate") /\ held' = held \cup {slot}
  /\ UNCHANGED <<rows, calls, msgs, manifests, rjob, rnode, sibs, live, tracked, recons, bounds>>

\* A hash another job of this worker holds: the run only leaves the registry.
HoldHash(r) ==
  /\ pc[r] = "hold"
  /\ LET slot == <<WorkerOf[r], HashOfRun(r)>> IN
       IF slot \in held
       THEN Goto(r, "untrack") /\ UNCHANGED held
       ELSE Goto(r, "gate") /\ held' = held \cup {slot}
  /\ UNCHANGED <<rows, calls, msgs, manifests, rjob, rnode, sibs, live, tracked, recons, bounds>>

AcquireGate(r) ==
  /\ pc[r] = "gate"
  /\ \/ Cardinality(ActiveAt(WorkerOf[r])) < MaxActive /\ Goto(r, "start")
     \/ ~live[r] /\ Goto(r, "release")
  /\ UNCHANGED <<rows, calls, msgs, manifests, rjob, rnode, sibs, live, memory, recons, bounds>>

\* The row becomes downloading, whatever it has become since it was loaded; this
\* write does not run under the run's context.
StartDownload(r) ==
  /\ pc[r] = "start"
  /\ Update(rjob[r], "downloading", rnode[r])
  /\ Goto(r, "fetch")
  /\ UNCHANGED <<calls, msgs, manifests, rjob, rnode, sibs, live, memory, recons, bounds>>

\* Everything from here on runs under the run's context: once it is cancelled each
\* call fails, the writes of Fail too, and the run ends without touching a row.
UnderCtx == Gated \ {"start"}

CtxCancelled(r) ==
  /\ pc[r] \in UnderCtx
  /\ ~live[r]
  /\ Goto(r, "release")
  /\ sibs' = [sibs EXCEPT ![r] = {}]
  /\ UNCHANGED <<rows, calls, msgs, manifests, rjob, rnode, live, memory, recons, bounds>>

\* A runner notes the name and the size as it learns them, in the whole row again.
NoteFile(r) ==
  /\ pc[r] = "fetch" /\ live[r]
  /\ Update(rjob[r], "downloading", rnode[r])
  /\ UNCHANGED <<calls, msgs, manifests, runs, memory, recons, bounds>>

\* What was fetched is published on the node the Publisher chooses.
StartPublish(r, n) ==
  /\ pc[r] = "fetch" /\ live[r]
  /\ n \in Targets[WorkerOf[r]]
  /\ Update(rjob[r], "publishing", n)
  /\ rnode' = [rnode EXCEPT ![r] = n]
  /\ Goto(r, "upload")
  /\ UNCHANGED <<calls, msgs, manifests, rjob, sibs, live, memory, recons, bounds>>

\* Bug: an upload that fails is logged, and publishing goes on.
UploadUnchecked(r) ==
  /\ pc[r] = "upload"
  /\ Goto(r, "list")
  /\ \/ manifests' = manifests \cup {<<rnode[r], HashOfRun(r)>>}
     \/ UNCHANGED manifests
  /\ UNCHANGED <<rows, calls, msgs, rjob, rnode, sibs, live, memory, recons, bounds>>

\* The store on disk does not look at the context.
Upload(r) ==
  /\ pc[r] = "upload"
  /\ manifests' = manifests \cup {<<rnode[r], HashOfRun(r)>>}
  /\ Goto(r, "list")
  /\ UNCHANGED <<rows, calls, msgs, rjob, rnode, sibs, live, memory, recons, bounds>>

\* What is listed is written one row at a time; after the last one the run is done.
ListRows(r, S, next) ==
  /\ sibs' = [sibs EXCEPT ![r] = S]
  /\ Goto(r, IF S = {} THEN "release" ELSE next)
  /\ UNCHANGED <<rows, calls, msgs, manifests, rjob, rnode, live, memory, recons, bounds>>

WriteRow(r, k, s) ==
  /\ k \in sibs[r]
  /\ Update(k, s, rnode[r])
  /\ sibs' = [sibs EXCEPT ![r] = @ \ {k}]
  /\ Goto(r, IF sibs[r] = {k} THEN "release" ELSE pc[r])
  /\ UNCHANGED <<calls, msgs, manifests, rjob, rnode, live, memory, recons, bounds>>

ListByInfoHash(r) ==
  /\ pc[r] = "list" /\ live[r]
  /\ ListRows(r, Completable(HashOfRun(r), rnode[r]), "complete")

CompleteRow(r, k) ==
  /\ pc[r] = "complete" /\ live[r]
  /\ WriteRow(r, k, "complete")

\* The source fails, the content is refused, an upload stalls.
FetchFails(r) ==
  /\ pc[r] \in {"fetch", "upload"} /\ live[r]
  /\ Goto(r, "failing")
  /\ UNCHANGED <<rows, calls, msgs, manifests, rjob, rnode, sibs, live, memory, recons, bounds>>

Fail(r) ==
  /\ pc[r] = "failing" /\ live[r]
  /\ Update(rjob[r], "failed", rnode[r])
  /\ Goto(r, "failsibs")
  /\ UNCHANGED <<calls, msgs, manifests, rjob, rnode, sibs, live, memory, recons, bounds>>

FailActiveSiblings(r) ==
  /\ pc[r] = "failsibs" /\ live[r]
  /\ ListRows(r, FailableWith(rjob[r], rnode[r]), "failrows")

FailRow(r, k) ==
  /\ pc[r] = "failrows" /\ live[r]
  /\ WriteRow(r, k, "failed")

\* done: the gate is free, then the hash, then the registry's entry.
ReleaseHash(r) ==
  /\ pc[r] = "release"
  /\ held' = held \ {<<WorkerOf[r], HashOfRun(r)>>}
  /\ Goto(r, "untrack")
  /\ UNCHANGED <<rows, calls, msgs, manifests, rjob, rnode, sibs, live, tracked, recons, bounds>>

Untrack(r) ==
  /\ pc[r] = "untrack"
  /\ tracked' = [tracked EXCEPT ![WorkerOf[r]][rjob[r]] = NoRun]
  /\ RunEnds(r)
  /\ UNCHANGED <<rows, calls, msgs, manifests, held, recons, bounds>>

\* JobDeleted: the job's run, if one is registered, is cancelled and forgotten.
Cancel(w, j) ==
  /\ <<w, j>> \in deleted
  /\ deleted' = deleted \ {<<w, j>>}
  /\ tracked' = [tracked EXCEPT ![w][j] = NoRun]
  /\ live' = [r \in Run |-> live[r] /\ tracked[w][j] # r]
  /\ UNCHANGED <<rows, calls, assigned, manifests, pc, rjob, rnode, sibs, held, recons, bounds>>

-----------------------------------------------------------------------------
(* Reconciliation: 20 seconds after the start, then every 5 minutes.       *)

\* Bug: only jobs no worker has begun are looked for.
ReconcilePending(w, s) ==
  /\ todo[w] = {} /\ qcur[w] = NoMsg /\ s = "pending"
  /\ todo' = [todo EXCEPT ![w] =
       {<<j, node[j], s>> : j \in {k \in Job : status[k] = s /\ node[k] \in Serves[w]}}]
  /\ UNCHANGED <<rows, calls, msgs, manifests, runs, memory, qcur, qsibs, bounds>>

\* One query for each status; they see the table at different moments, and their order
\* is left open.
ReconcileList(w, s) ==
  /\ todo[w] = {} /\ qcur[w] = NoMsg
  /\ todo' = [todo EXCEPT ![w] =
       {<<j, node[j], s>> : j \in {k \in Job : status[k] = s /\ node[k] \in Serves[w]}}]
  /\ UNCHANGED <<rows, calls, msgs, manifests, runs, memory, qcur, qsibs, bounds>>

\* A listed job is left alone when a run of this worker is registered for it, and
\* completed when its content is there (CompleteFromCache); else it is assigned anew,
\* unless it is a torrent that was seen downloading.
ReconcileJob(w, m) ==
  LET n == m[2]
      h == HashOf[m[1]]
      S == Completable(h, n)
  IN  /\ m \in todo[w] /\ qcur[w] = NoMsg
      /\ todo' = [todo EXCEPT ![w] = @ \ {m}]
      /\ \/ /\ tracked[w][m[1]] # NoRun
            /\ UNCHANGED <<assigned, qcur, qsibs>>
         \/ /\ tracked[w][m[1]] = NoRun /\ <<n, h>> \in manifests
            /\ qsibs' = [qsibs EXCEPT ![w] = S]
            /\ qcur' = [qcur EXCEPT ![w] = IF S = {} THEN NoMsg ELSE <<m[1], n>>]
            /\ UNCHANGED assigned
         \/ /\ tracked[w][m[1]] = NoRun /\ <<n, h>> \notin manifests
            /\ assigned' = IF m[1] \in Prewarm /\ m[3] = "downloading"
                           THEN assigned ELSE assigned \cup {<<m[1], n>>}
            /\ UNCHANGED <<qcur, qsibs>>
      /\ UNCHANGED <<rows, calls, deleted, manifests, runs, memory, bounds>>

ReconcileRow(w, k) ==
  /\ k \in qsibs[w]
  /\ Update(k, "complete", qcur[w][2])
  /\ qsibs' = [qsibs EXCEPT ![w] = @ \ {k}]
  /\ qcur' = [qcur EXCEPT ![w] = IF qsibs[w] = {k} THEN NoMsg ELSE @]
  /\ UNCHANGED <<calls, msgs, manifests, runs, memory, todo, bounds>>

\* Bug: the hashes a worker holds outlive it, as they would in the database.
CrashKeepingHashes(w) ==
  LET mine == {r \in Run : WorkerOf[r] = w}
      Reset(f, S, x) == [s \in DOMAIN f |-> IF s \in S THEN x ELSE f[s]]
  IN  /\ crashes < MaxCrash
      /\ crashes' = crashes + 1
      /\ pc' = Reset(pc, mine, "idle")
      /\ rjob' = Reset(rjob, mine, NoJob)
      /\ rnode' = Reset(rnode, mine, NoNode)
      /\ sibs' = Reset(sibs, mine, {})
      /\ live' = Reset(live, mine, TRUE)
      /\ tracked' = Reset(tracked, {w}, [j \in Job |-> NoRun])
      /\ todo' = Reset(todo, {w}, {})
      /\ qcur' = Reset(qcur, {w}, NoMsg)
      /\ qsibs' = Reset(qsibs, {w}, {})
      /\ assigned' = {m \in assigned : m[2] \notin Serves[w]}
      /\ deleted' = {m \in deleted : m[1] # w}
      /\ UNCHANGED <<rows, calls, manifests, held, admits, losses>>

\* A worker restarts: its goroutines and its memory are gone, and so is every
\* message sent to it meanwhile.
WorkerCrash(w) ==
  LET mine == {r \in Run : WorkerOf[r] = w}
      Reset(f, S, x) == [s \in DOMAIN f |-> IF s \in S THEN x ELSE f[s]]
  IN  /\ crashes < MaxCrash
      /\ crashes' = crashes + 1
      /\ pc' = Reset(pc, mine, "idle")
      /\ rjob' = Reset(rjob, mine, NoJob)
      /\ rnode' = Reset(rnode, mine, NoNode)
      /\ sibs' = Reset(sibs, mine, {})
      /\ live' = Reset(live, mine, TRUE)
      /\ tracked' = Reset(tracked, {w}, [j \in Job |-> NoRun])
      /\ held' = {p \in held : p[1] # w}
      /\ todo' = Reset(todo, {w}, {})
      /\ qcur' = Reset(qcur, {w}, NoMsg)
      /\ qsibs' = Reset(qsibs, {w}, {})
      /\ assigned' = {m \in assigned : m[2] \notin Serves[w]}
      /\ deleted' = {m \in deleted : m[1] # w}
      /\ UNCHANGED <<rows, calls, manifests, admits, losses>>

-----------------------------------------------------------------------------
Assigning(j) == AssignPublish(j) \/ \E n \in Node : AssignUpdate(j, n)

Advance(r) ==
  \/ TrackIfAbsent(r) \/ HoldHash(r) \/ StartDownload(r) \/ CtxCancelled(r)
  \/ FetchFails(r) \/ (\E n \in Node : StartPublish(r, n))
  \/ Upload(r) \/ ListByInfoHash(r) \/ Fail(r) \/ FailActiveSiblings(r)
  \/ (\E k \in Job : CompleteRow(r, k) \/ FailRow(r, k))
  \/ ReleaseHash(r) \/ Untrack(r)

Reconciling(w) ==
  \/ \E m \in Job \X Node \X Concurrency : ReconcileJob(w, m)
  \/ \E k \in Job : ReconcileRow(w, k)

Next ==
  \/ \E j \in Job : Admit(j) \/ Enqueue(j) \/ Assigning(j) \/ AssignCrash(j) \/ Delete(j)
  \/ Lose
  \/ \E r \in Run, j \in Job, n \in Node : Process(r, j, n)
  \/ \E r \in Run : AcquireGate(r) \/ Advance(r) \/ NoteFile(r)
  \/ \E w \in Worker, j \in Job : Cancel(w, j)
  \/ \E w \in Worker : Reconciling(w) \/ WorkerCrash(w)
  \/ \E w \in Worker, s \in Concurrency : ReconcileList(w, s)

Spec == Init /\ [][Next]_vars

\* Assign goes on, a message that is not lost is handled, every call of a run
\* returns (fetches and uploads have stall timeouts), the gate lets its waiters in
\* and the reconciliation's timer fires.
Fairness ==
  /\ \A j \in Job : WF_vars(Assigning(j))
  /\ \A j \in Job, n \in Node : SF_vars(\E r \in Run : Process(r, j, n))
  /\ \A w \in Worker, j \in Job : WF_vars(Cancel(w, j))
  /\ \A r \in Run : WF_vars(Advance(r)) /\ SF_vars(AcquireGate(r))
  /\ \A w \in Worker : WF_vars(Reconciling(w))
  /\ \A w \in Worker, s \in Concurrency : WF_vars(ReconcileList(w, s))

FairSpec == Spec /\ Fairness

-----------------------------------------------------------------------------
(* Properties.                                                             *)

RowTypeOK ==
  /\ status \in [Job -> Status]
  /\ node \in [Job -> Node]
  /\ call \in [Job -> {"none", "update", "publish"}]
  /\ cnode \in [Job -> Node \cup {NoNode}]
  /\ assigned \subseteq Job \X Node
  /\ deleted \subseteq Worker \X Job
  /\ manifests \subseteq Node \X Hash

RunTypeOK ==
  /\ pc \in [Run -> RunPc]
  /\ rjob \in [Run -> Job \cup {NoJob}]
  /\ rnode \in [Run -> Node \cup {NoNode}]
  /\ sibs \in [Run -> SUBSET Job]
  /\ live \in [Run -> BOOLEAN]
  /\ tracked \in [Worker -> [Job -> Run \cup {NoRun}]]
  /\ held \subseteq Worker \X Hash

QueueTypeOK ==
  /\ todo \in [Worker -> SUBSET (Job \X Node \X Concurrency)]
  /\ qcur \in [Worker -> (Job \cup {NoJob}) \X (Node \cup {NoNode})]
  /\ qsibs \in [Worker -> SUBSET Job]

\* Rows, messages, runs, the worker's memory and the reconciliation keep their types.
TypeOK ==
  /\ RowTypeOK /\ RunTypeOK /\ QueueTypeOK
  /\ admits \in 0..MaxAdmit /\ losses \in 0..MaxLoss /\ crashes \in 0..MaxCrash

\* A worker downloads a content once at a time, whichever jobs ask for it and however
\* their runs are assigned again, cancelled or ended (hashguard.go).
OneDownloadPerHash ==
  \A r, s \in Run :
    pc[r] \in Holding /\ pc[s] \in Holding /\ WorkerOf[r] = WorkerOf[s]
      /\ HashOfRun(r) = HashOfRun(s) => r = s

\* As long as its row exists a run stays in the registry until it has let go of its
\* hash: a deletion reaches it, and the reconciliation leaves its job alone.
RunsAreRegistered ==
  \A r \in Run : pc[r] \in Holding \cup {"hold"} /\ Present(rjob[r]) => Registered(r) = r

\* A complete row has its content on its node, whoever completed it: the run that
\* published it, another account's run, or a reconciliation.
CompleteHasContent ==
  \A j \in Job : status[j] = "complete" => <<node[j], HashOf[j]>> \in manifests

\* A run that is past its listing has put the manifest, and what it or a reconciliation
\* is about to complete are rows of that content.
ContentInv ==
  /\ \A r \in Run :
       /\ pc[r] \in {"list", "complete"} => <<rnode[r], HashOfRun(r)>> \in manifests
       /\ pc[r] = "complete" => \A k \in sibs[r] : HashOf[k] = HashOfRun(r)
  /\ \A w \in Worker, k \in Job :
       k \in qsibs[w] => <<qcur[w][2], HashOf[k]>> \in manifests

\* Who runs has loaded a row that was there, and knows its node.
RunsAreLoaded ==
  \A r \in Run :
    /\ pc[r] = "idle" <=> rjob[r] = NoJob
    /\ pc[r] = "idle" <=> rnode[r] = NoNode
    /\ pc[r] # "idle" => status[rjob[r]] # "none"

\* The registry's entry is a run's own from TrackIfAbsent to Untrack: the stronger form
\* of RunsAreRegistered that steps preserve.
RegistryInv ==
  \A r \in Run : pc[r] \notin {"idle", "track"} /\ Present(rjob[r]) => Registered(r) = r

\* A hash is held as long as a run downloads it, and no longer.
HeldInv ==
  /\ \A r \in Run : pc[r] \in Holding => <<WorkerOf[r], HashOfRun(r)>> \in held
  /\ \A p \in held : \E r \in Run : pc[r] \in Holding /\ p = <<WorkerOf[r], HashOfRun(r)>>

\* What Assign publishes is the node it has written.
AssignInv == \A j \in Job : call[j] = "publish" <=> cnode[j] # NoNode

\* JobDeleted is only sent for rows that are gone.
DeletedAreGone == \A m \in deleted : status[m[2]] = "deleted"

RunInv == RunsAreLoaded /\ RegistryInv /\ HeldInv /\ AssignInv /\ DeletedAreGone

\* The inductive invariant: what the registry and the held hashes are worth, and what
\* every pending write of complete rests on.
DispatchInv ==
  TypeOK /\ RunInv /\ ContentInv /\ OneDownloadPerHash /\ CompleteHasContent

\* What is neither lost for ever nor interrupted for ever ends: an active job, stranded
\* by a lost message, a crashed worker, a crashed Assign or a busy hash, is complete,
\* failed or deleted in the end.
JobEnds ==
  \A j \in Job : status[j] \in Concurrency ~> status[j] \notin Concurrency
=============================================================================
