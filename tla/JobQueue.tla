------------------------------ MODULE JobQueue ------------------------------
(***************************************************************************)
(* The download queue of shared/jobs: the transactions Admit, Readmit and  *)
(* PromoteQueued, statement by statement, as concurrent PostgreSQL         *)
(* sessions run them at READ COMMITTED, together with the single-statement *)
(* writes that reach the same rows without taking the admission locks.     *)
(*                                                                         *)
(* A transaction takes, in this order, the global advisory lock (budget    *)
(* gated work only), its account's lock and its content hash's lock, reads *)
(* what it needs one statement at a time, and writes one row.  Every read  *)
(* sees the rows as they are at that statement, so a decision rests on     *)
(* reads of different moments; the locks are what makes them agree.        *)
(*                                                                         *)
(* Abstractions: a row keeps the columns the decisions read (account,      *)
(* hash, gate, size, priority, created_at, status); the first four never   *)
(* change, so they are constants of the job.  Private seeds (seed = true)  *)
(* are not in the table: every query here but the budget sum skips them,   *)
(* and what they use of the budget is subtracted from Budget beforehand.   *)
(***************************************************************************)
EXTENDS Integers, FiniteSets, FiniteSetsExt

CONSTANTS
  JobId,            \* every job row the instance can create (UUIDs: never reused)
  User,             \* accounts
  Accountless,      \* the users "system" and "prewarm", which own no account row
  Hash,             \* content hashes
  Owner,            \* jobs.user_id
  HashOf,           \* jobs.info_hash (lower case since prepareCreate)
  Gated,            \* the jobs with budget_gated = true
  Size,             \* jobs.file_size, 0 while unknown
  Priority,         \* plan priorities
  WorkStatus,       \* the statuses a worker walks a claimed job through
  MaxConcurrent,    \* plan.MaxConcurrent of each account
  MaxQueued,        \* QUEUE_MAX per account; 0 means no cap
  Budget,           \* the bytes the ingest disk is budgeted
  InitialHeadroom, PromoteHeadroom, UnknownSize,
  ApiTx, SchedTx,   \* database sessions of request handlers and of schedulers
  NoTx, NoJob,
  MaxTime           \* bound on the number of created_at stamps

LiveWork == {"downloading", "processing", "publishing"}

ASSUME SessionAssumption ==
  /\ IsFiniteSet(JobId)
  /\ NoTx \notin ApiTx \cup SchedTx
  /\ NoJob \notin JobId
  /\ ApiTx \cap SchedTx = {}

ASSUME JobAssumption ==
  /\ Owner \in [JobId -> User]
  /\ HashOf \in [JobId -> Hash]
  /\ Gated \subseteq JobId
  /\ Size \in [JobId -> Nat]
  /\ Accountless \subseteq User
  /\ WorkStatus \subseteq LiveWork

ASSUME LimitAssumption ==
  /\ MaxConcurrent \in [User -> Int]
  /\ MaxQueued \in Nat
  /\ Budget \in Int
  /\ InitialHeadroom \in Nat
  /\ PromoteHeadroom \in Nat
  /\ UnknownSize \in Nat
  /\ Priority \subseteq Int /\ Priority # {}

\* There is work, and a promotion asks for at least the headroom an admission asks for.
ASSUME BudgetAssumption ==
  /\ JobId # {}
  /\ InitialHeadroom <= PromoteHeadroom

Tx == ApiTx \cup SchedTx

\* "unborn" and "deleted" stand for the absence of the row.
Status == {"unborn", "queued", "pending", "complete", "failed", "evicted", "deleted"}
            \cup LiveWork

Concurrency == {"pending"} \cup LiveWork
Absent      == {"unborn", "deleted"}
Dead        == {"failed", "evicted"}

Pc == {"idle", "global", "user", "hash", "row", "live", "queued", "inflight",
       "older", "samehash", "budgetqueue", "used", "write"}

VARIABLES
  status,     \* jobs.status
  created,    \* jobs.created_at
  prio,       \* jobs.priority
  now,        \* the clock that created_at is stamped from
  claimed,    \* the active jobs whose slot the queue handed out
  globalLock, userLock, hashLock,   \* pg_advisory_xact_lock holders
  pc, op, cand,   \* each session's next statement, its call, its job
  must, full,     \* mustQueue, and queued >= maxQueued, as read so far
  passed          \* the queued jobs a promotion looked at and may overtake

rows  == <<status, created, prio, now, claimed>>
locks == <<globalLock, userLock, hashLock>>
local == <<pc, op, cand, must, full, passed>>
vars  == <<rows, locks, local>>

-----------------------------------------------------------------------------
(* What the statements compute.                                            *)

NormalizeConcurrent(n) == IF n < 1 THEN 1 ELSE n

LiveIdentity(j) == Owner[j] \notin Accountless /\ status[j] \notin Absent \cup Dead

\* The other live rows of the job's account and hash.
LiveAccountJobs(j) ==
  IF Owner[j] \in Accountless THEN {}
  ELSE {k \in JobId : Owner[k] = Owner[j] /\ HashOf[k] = HashOf[j] /\ LiveIdentity(k)}

QueuedOf(u, except) == {k \in JobId : Owner[k] = u /\ status[k] = "queued"} \ except
InflightOf(u)       == {k \in JobId : Owner[k] = u /\ status[k] \in Concurrency}

ActiveHash(j) ==
  \E k \in JobId \ {j} : HashOf[k] = HashOf[j] /\ status[k] \in Concurrency

BudgetQueueExists(except) == \E k \in Gated \ except : status[k] = "queued"

Footprint(j) == IF Size[j] > 0 THEN Size[j] ELSE UnknownSize

BudgetUsed == MapThenSumSet(Footprint, {k \in JobId : status[k] \in Concurrency})

Outranks(q, j) == \/ prio[q] > prio[j]
                  \/ prio[q] = prio[j] /\ created[q] < created[j]

QueuedAhead(j) ==
  {q \in QueuedOf(Owner[j], {j}) : Outranks(q, j) /\ ~ActiveHash(q)}

\* SELECT ... FOR UPDATE keeps the row from every other writer until commit.
RowLocked(j) ==
  \E t \in Tx : /\ cand[t] = j
                /\ op[t] \in {"readmit", "promote"}
                /\ pc[t] \in Pc \ {"idle", "global", "user", "hash", "row"}

-----------------------------------------------------------------------------
(* The statements of a transaction.                                        *)

Init ==
  /\ status = [j \in JobId |-> "unborn"]
  /\ created = [j \in JobId |-> 0]
  /\ prio = [j \in JobId |-> CHOOSE p \in Priority : TRUE]
  /\ now = 0
  /\ claimed = {}
  /\ globalLock = NoTx
  /\ userLock = [u \in User |-> NoTx]
  /\ hashLock = [h \in Hash |-> NoTx]
  /\ pc = [t \in Tx |-> "idle"]
  /\ op = [t \in Tx |-> "admit"]
  /\ cand = [t \in Tx |-> NoJob]
  /\ must = [t \in Tx |-> FALSE]
  /\ full = [t \in Tx |-> FALSE]
  /\ passed = [t \in Tx |-> {}]

Goto(t, label) == pc' = [pc EXCEPT ![t] = label]

Begin(t, o, j) ==
  /\ pc[t] = "idle"
  /\ op' = [op EXCEPT ![t] = o]
  /\ cand' = [cand EXCEPT ![t] = j]
  /\ Goto(t, IF j \in Gated THEN "global" ELSE "user")
  /\ UNCHANGED <<locks, must, full, passed>>

\* prepareCreate names and stamps the job before the transaction opens.
BeginAdmit(t, j, p) ==
  /\ status[j] = "unborn"
  /\ \A s \in Tx : cand[s] # j
  /\ Owner[j] \notin Accountless
  /\ now < MaxTime
  /\ now' = now + 1
  /\ created' = [created EXCEPT ![j] = now + 1]
  /\ prio' = [prio EXCEPT ![j] = p]
  /\ Begin(t, "admit", j)
  /\ UNCHANGED <<status, claimed>>

\* The handler saw a retryable row; by the time the locks are held it may differ.
BeginReadmit(t, j) ==
  /\ status[j] \in Dead \cup {"complete"}
  /\ Owner[j] \notin Accountless
  /\ now < MaxTime
  /\ Begin(t, "readmit", j)
  /\ UNCHANGED rows

BeginPromote(t, j) ==
  /\ status[j] = "queued"
  /\ Begin(t, "promote", j)
  /\ UNCHANGED rows

\* Bug: the session keeps its hash lock, as a session-level lock would.
EndKeepingHash(t) ==
  /\ Goto(t, "idle")
  /\ cand' = [cand EXCEPT ![t] = NoJob]
  /\ op' = [op EXCEPT ![t] = "admit"]
  /\ must' = [must EXCEPT ![t] = FALSE]
  /\ full' = [full EXCEPT ![t] = FALSE]
  /\ passed' = [passed EXCEPT ![t] = {}]
  /\ globalLock' = IF globalLock = t THEN NoTx ELSE globalLock
  /\ userLock' = [u \in User |-> IF userLock[u] = t THEN NoTx ELSE userLock[u]]
  /\ UNCHANGED hashLock

\* Commit and rollback alike end the transaction and free its advisory locks.
End(t) ==
  /\ Goto(t, "idle")
  /\ cand' = [cand EXCEPT ![t] = NoJob]
  /\ op' = [op EXCEPT ![t] = "admit"]
  /\ must' = [must EXCEPT ![t] = FALSE]
  /\ full' = [full EXCEPT ![t] = FALSE]
  /\ passed' = [passed EXCEPT ![t] = {}]
  /\ globalLock' = IF globalLock = t THEN NoTx ELSE globalLock
  /\ userLock' = [u \in User |-> IF userLock[u] = t THEN NoTx ELSE userLock[u]]
  /\ hashLock' = [h \in Hash |-> IF hashLock[h] = t THEN NoTx ELSE hashLock[h]]

\* Bug: gated work takes its hash before its account.
LockAfterHashFirst(t, held) ==
  CASE held = "global" -> "hash"
    [] held = "hash" /\ cand[t] \in Gated -> "user"
    [] held = "user" /\ cand[t] \notin Gated -> "hash"
    [] OTHER -> IF op[t] = "admit" THEN "live" ELSE "row"

\* lockAdmission, then lockDownloadHash: what follows each lock.
LockAfter(t, held) ==
  CASE held = "global" -> "user"
    [] held = "user"   -> "hash"
    [] held = "hash"   -> IF op[t] = "admit" THEN "live" ELSE "row"

\* Bugs: a session that goes on without the lock it should have waited for.
UnlockedGlobal(t) ==
  /\ pc[t] = "global"
  /\ Goto(t, LockAfter(t, "global"))
  /\ UNCHANGED <<rows, locks, op, cand, must, full, passed>>

UnlockedUser(t) ==
  /\ pc[t] = "user"
  /\ Goto(t, LockAfter(t, "user"))
  /\ UNCHANGED <<rows, locks, op, cand, must, full, passed>>

UnlockedHash(t) ==
  /\ pc[t] = "hash"
  /\ Goto(t, LockAfter(t, "hash"))
  /\ UNCHANGED <<rows, locks, op, cand, must, full, passed>>

LockGlobal(t) ==
  /\ pc[t] = "global"
  /\ globalLock = NoTx
  /\ globalLock' = t
  /\ Goto(t, LockAfter(t, "global"))
  /\ UNCHANGED <<rows, userLock, hashLock, op, cand, must, full, passed>>

LockUser(t) ==
  /\ pc[t] = "user"
  /\ userLock[Owner[cand[t]]] = NoTx
  /\ userLock' = [userLock EXCEPT ![Owner[cand[t]]] = t]
  /\ Goto(t, LockAfter(t, "user"))
  /\ UNCHANGED <<rows, globalLock, hashLock, op, cand, must, full, passed>>

LockDownloadHash(t) ==
  /\ pc[t] = "hash"
  /\ hashLock[HashOf[cand[t]]] = NoTx
  /\ hashLock' = [hashLock EXCEPT ![HashOf[cand[t]]] = t]
  /\ Goto(t, LockAfter(t, "hash"))
  /\ UNCHANGED <<rows, globalLock, userLock, op, cand, must, full, passed>>

\* SELECT ... FOR UPDATE, and the return when the row is no longer eligible.
ReadRow(t) ==
  /\ pc[t] = "row"
  /\ LET wanted == IF op[t] = "promote" THEN {"queued"} ELSE Dead \cup {"complete"}
     IN  IF status[cand[t]] \in wanted
         THEN /\ Goto(t, IF op[t] = "promote" THEN "inflight" ELSE "live")
              /\ UNCHANGED <<locks, op, cand, must, full, passed>>
         ELSE End(t)
  /\ UNCHANGED rows

\* Another live row of the account for this hash answers the request.
ReadLive(t) ==
  /\ pc[t] = "live"
  /\ IF LiveAccountJobs(cand[t]) \ {cand[t]} # {}
     THEN End(t)
     ELSE Goto(t, "queued") /\ UNCHANGED <<locks, op, cand, must, full, passed>>
  /\ UNCHANGED rows

\* Bugs: a queue that is counted but not joined; a queue with room for one more.
ReadQueuedForFull(t) ==
  /\ pc[t] = "queued"
  /\ LET n == Cardinality(QueuedOf(Owner[cand[t]], {cand[t]}))
     IN  full' = [full EXCEPT ![t] = MaxQueued > 0 /\ n >= MaxQueued]
  /\ Goto(t, "inflight")
  /\ UNCHANGED <<rows, locks, op, cand, must, passed>>

ReadQueuedPastLimit(t) ==
  /\ pc[t] = "queued"
  /\ LET n == Cardinality(QueuedOf(Owner[cand[t]], {cand[t]}))
     IN  /\ must' = [must EXCEPT ![t] = n > 0]
         /\ full' = [full EXCEPT ![t] = MaxQueued > 0 /\ n > MaxQueued]
  /\ Goto(t, "inflight")
  /\ UNCHANGED <<rows, locks, op, cand, passed>>

ReadQueued(t) ==
  /\ pc[t] = "queued"
  /\ LET n == Cardinality(QueuedOf(Owner[cand[t]], {cand[t]}))
     IN  /\ must' = [must EXCEPT ![t] = n > 0]
         /\ full' = [full EXCEPT ![t] = MaxQueued > 0 /\ n >= MaxQueued]
  /\ Goto(t, "inflight")
  /\ UNCHANGED <<rows, locks, op, cand, passed>>

ReadInflight(t) ==
  /\ pc[t] = "inflight"
  /\ LET u    == Owner[cand[t]]
         busy == Cardinality(InflightOf(u)) >= NormalizeConcurrent(MaxConcurrent[u])
     IN  IF op[t] = "promote" /\ busy
         THEN End(t)
         ELSE /\ must' = [must EXCEPT ![t] = @ \/ busy]
              /\ Goto(t, IF op[t] = "promote" THEN "older" ELSE "samehash")
              /\ UNCHANGED <<locks, op, cand, full, passed>>
  /\ UNCHANGED rows

MayPass(j) == QueuedOf(Owner[j], {j}) \ QueuedAhead(j)

\* Bug: the scheduler promotes in the order it listed the jobs in.
ReadOlderUnchecked(t) ==
  /\ pc[t] = "older"
  /\ passed' = [passed EXCEPT ![t] = MayPass(cand[t])]
  /\ Goto(t, "samehash")
  /\ UNCHANGED <<rows, locks, op, cand, must, full>>

ReadOlder(t) ==
  /\ pc[t] = "older"
  /\ IF QueuedAhead(cand[t]) # {}
     THEN End(t)
     ELSE /\ passed' = [passed EXCEPT ![t] = MayPass(cand[t])]
          /\ Goto(t, "samehash")
          /\ UNCHANGED <<locks, op, cand, must, full>>
  /\ UNCHANGED rows

AfterSameHash(t) ==
  IF cand[t] \notin Gated THEN "write"
  ELSE IF op[t] = "promote" THEN "used" ELSE "budgetqueue"

ReadActiveHash(t) ==
  /\ pc[t] = "samehash"
  /\ IF op[t] = "promote" /\ ActiveHash(cand[t])
     THEN End(t)
     ELSE /\ must' = [must EXCEPT ![t] = @ \/ ActiveHash(cand[t])]
          /\ Goto(t, AfterSameHash(t))
          /\ UNCHANGED <<locks, op, cand, full, passed>>
  /\ UNCHANGED rows

ReadBudgetQueue(t) ==
  /\ pc[t] = "budgetqueue"
  /\ must' = [must EXCEPT ![t] = @ \/ BudgetQueueExists({cand[t]})]
  /\ Goto(t, "used")
  /\ UNCHANGED <<rows, locks, op, cand, full, passed>>

ReadBudgetUsed(t) ==
  /\ pc[t] = "used"
  /\ LET headroom == IF op[t] = "promote" THEN PromoteHeadroom ELSE InitialHeadroom
         short    == Budget - BudgetUsed < headroom
     IN  IF op[t] = "promote" /\ short
         THEN End(t)
         ELSE /\ must' = [must EXCEPT ![t] = @ \/ short]
              /\ Goto(t, "write")
              /\ UNCHANGED <<locks, op, cand, full, passed>>
  /\ UNCHANGED rows

\* The one row the transaction writes, at its commit: nothing when the queue is
\* full, nor when the unique index already holds the account's live row.
WriteAdmit(t) ==
  /\ pc[t] = "write" /\ op[t] = "admit"
  /\ LET j       == cand[t]
         written == ~(must[t] /\ full[t]) /\ LiveAccountJobs(j) = {}
     IN  /\ status' = IF ~written THEN status
                      ELSE [status EXCEPT ![j] = IF must[t] THEN "queued" ELSE "pending"]
         /\ claimed' = IF written /\ ~must[t] THEN claimed \cup {j} ELSE claimed
  /\ UNCHANGED <<created, prio, now>>
  /\ End(t)

WriteReadmit(t) ==
  /\ pc[t] = "write" /\ op[t] = "readmit"
  /\ LET j == cand[t] IN
       IF must[t] /\ full[t]
       THEN UNCHANGED <<status, claimed, created, now>>
       ELSE /\ status' = [status EXCEPT ![j] = IF must[t] THEN "queued" ELSE "pending"]
            /\ claimed' = IF must[t] THEN claimed ELSE claimed \cup {j}
            /\ now' = now + 1
            /\ created' = [created EXCEPT ![j] = now + 1]
  /\ UNCHANGED prio
  /\ End(t)

WritePromote(t) ==
  /\ pc[t] = "write" /\ op[t] = "promote"
  /\ status' = [status EXCEPT ![cand[t]] = "pending"]
  /\ claimed' = claimed \cup {cand[t]}
  /\ UNCHANGED <<created, prio, now>>
  /\ End(t)

-----------------------------------------------------------------------------
(* Writers that take no admission lock, or only the account's.             *)

\* Bug: the identity is checked without the account's lock.
CreateOnceUnlocked(j, s) ==
  /\ status[j] = "unborn"
  /\ \A t \in Tx : cand[t] # j
  /\ now < MaxTime
  /\ IF Owner[j] \in Accountless
     THEN s = "pending"
     ELSE s \in {"complete", "downloading"} /\ LiveAccountJobs(j) = {}
  /\ status' = [status EXCEPT ![j] = s]
  /\ now' = now + 1
  /\ created' = [created EXCEPT ![j] = now + 1]
  /\ UNCHANGED <<prio, claimed, locks, local>>

\* CreateOnce: a row inserted complete from a cache or a bucket, downloading
\* from Telegram, or pending by the prewarmer.  It shares the account's lock.
CreateOnce(j, s) ==
  /\ status[j] = "unborn"
  /\ \A t \in Tx : cand[t] # j
  /\ now < MaxTime
  /\ IF Owner[j] \in Accountless
     THEN s = "pending"
     ELSE /\ s \in {"complete", "downloading"}
          /\ userLock[Owner[j]] = NoTx
          /\ LiveAccountJobs(j) = {}
  /\ status' = [status EXCEPT ![j] = s]
  /\ now' = now + 1
  /\ created' = [created EXCEPT ![j] = now + 1]
  /\ UNCHANGED <<prio, claimed, locks, local>>

SetQueuedPriority(j, p) ==
  /\ status[j] = "queued"
  /\ prio[j] # p
  /\ ~RowLocked(j)
  /\ prio' = [prio EXCEPT ![j] = p]
  /\ UNCHANGED <<status, created, now, claimed, locks, local>>

SetStatus(j, from, to) ==
  /\ status[j] \in from
  /\ ~RowLocked(j)
  /\ status' = [status EXCEPT ![j] = to]
  /\ claimed' = IF to \in Concurrency THEN claimed ELSE claimed \ {j}
  /\ UNCHANGED <<created, prio, now, locks, local>>

FailQueued(j) == SetStatus(j, {"queued"}, "failed")

\* A worker's Update: the next stage of the work, and its end.  A publication of the
\* content also completes the queued rows for it, and an eviction of the content
\* ends every row of it that is not queued.
Work(j, s) == status[j] # s /\ SetStatus(j, Concurrency, s)
Finish(j, s) == SetStatus(j, Concurrency, s)
CompleteQueued(j) == SetStatus(j, {"queued"}, "complete")
Evict(j) == SetStatus(j, Concurrency \cup {"complete"}, "evicted")
Delete(j) == SetStatus(j, Status \ Absent, "deleted")

-----------------------------------------------------------------------------
Statement(t) ==
  \/ LockGlobal(t) \/ LockUser(t) \/ LockDownloadHash(t)
  \/ ReadRow(t) \/ ReadLive(t) \/ ReadQueued(t) \/ ReadInflight(t)
  \/ ReadOlder(t) \/ ReadActiveHash(t) \/ ReadBudgetQueue(t) \/ ReadBudgetUsed(t)
  \/ WriteAdmit(t) \/ WriteReadmit(t) \/ WritePromote(t)

Next ==
  \/ \E t \in ApiTx, j \in JobId, p \in Priority : BeginAdmit(t, j, p)
  \/ \E t \in ApiTx, j \in JobId : BeginReadmit(t, j)
  \/ \E t \in SchedTx, j \in JobId : BeginPromote(t, j)
  \/ \E t \in Tx : Statement(t)
  \/ \E j \in JobId, s \in {"pending", "downloading", "complete"} : CreateOnce(j, s)
  \/ \E j \in JobId, p \in Priority : SetQueuedPriority(j, p)
  \/ \E j \in JobId, s \in WorkStatus : Work(j, s)
  \/ \E j \in JobId, s \in {"complete", "failed"} : Finish(j, s)
  \/ \E j \in JobId : FailQueued(j) \/ CompleteQueued(j) \/ Evict(j) \/ Delete(j)

Spec == Init /\ [][Next]_vars

\* A session's statements are executed, PostgreSQL grants a lock to waiters in
\* turn, the scheduler's drain visits every queued row on every tick and every
\* attempt of a worker ends.
Fairness ==
  /\ \A t \in Tx : WF_vars(Statement(t))
  /\ \A t \in Tx : SF_vars(LockGlobal(t) \/ LockUser(t) \/ LockDownloadHash(t))
  /\ \A j \in JobId : SF_vars(\E t \in SchedTx : BeginPromote(t, j))
  /\ \A j \in JobId : WF_vars(\E s \in {"complete", "failed"} : Finish(j, s))

FairSpec == Spec /\ Fairness

-----------------------------------------------------------------------------
(* The slot pool this implements: a claimed job runs, a queued row waits.   *)
Pool == INSTANCE SlotPool WITH
          running <- claimed,
          waiting <- {j \in JobId : status[j] = "queued"}

-----------------------------------------------------------------------------
(* Properties.                                                             *)

\* The rows, lock holders and session registers range over what they should: in
\* particular every created_at comes from the clock, which starts at 0.
TypeOK ==
  /\ status \in [JobId -> Status]
  /\ created \in [JobId -> Nat]
  /\ prio \in [JobId -> Priority]
  /\ now \in Nat
  /\ claimed \subseteq JobId
  /\ globalLock \in Tx \cup {NoTx}
  /\ userLock \in [User -> Tx \cup {NoTx}]
  /\ hashLock \in [Hash -> Tx \cup {NoTx}]
  /\ pc \in [Tx -> Pc]
  /\ op \in [Tx -> {"admit", "readmit", "promote"}]
  /\ cand \in [Tx -> JobId \cup {NoJob}]
  /\ must \in [Tx -> BOOLEAN]
  /\ full \in [Tx -> BOOLEAN]
  /\ passed \in [Tx -> SUBSET JobId]

\* However the transactions of several sessions interleave, the queue never has
\* more jobs running for an account than its plan allows: the slot a transaction
\* counted as free is still free when it writes (queue.go:29 "atomically reserves
\* a slot when one is available").
SlotCap ==
  \A u \in User :
    Cardinality({j \in claimed : Owner[j] = u}) <= NormalizeConcurrent(MaxConcurrent[u])

\* The queue never hands two accounts the same content at once: one physical
\* download per hash (queue_identity.go:25 "serializes physical download claims
\* across accounts").
OneClaimPerHash ==
  \A j, k \in claimed : HashOf[j] = HashOf[k] => j = k

\* Admit and Readmit re-check identity under the account's lock, so the partial
\* unique index on (user_id, lower(info_hash)) never rejects their write: a
\* Readmit has no error path for it and an Admit's would discard its reservation.
NoIndexConflict ==
  \A t \in Tx :
    pc[t] = "write" /\ op[t] \in {"admit", "readmit"}
      => LiveAccountJobs(cand[t]) \subseteq {cand[t]}

\* Sessions that wait for each other's advisory locks never form a cycle: global,
\* account and hash locks are always taken in that order, so some session of any
\* group waits for none of the group.
WaitsFor(t, s) ==
  \/ pc[t] = "global" /\ globalLock = s
  \/ pc[t] = "user" /\ userLock[Owner[cand[t]]] = s
  \/ pc[t] = "hash" /\ hashLock[HashOf[cand[t]]] = s

NoLockCycle ==
  \A S \in (SUBSET Tx) \ {{}} : \E t \in S : \A s \in S : ~WaitsFor(t, s)

\* Every queued job of its account that a job overtakes when PromoteQueued starts it
\* is one the promotion has looked at, and seen either behind it in rank or blocked
\* by a running copy of its content: a request that stamped its created_at earlier
\* but was still waiting for the account's lock is not overtaken unseen.
NoUnseenOvertake ==
  [][\A t \in Tx :
       pc[t] = "write" /\ op[t] = "promote" /\ pc'[t] = "idle"
         => QueuedOf(Owner[cand[t]], {cand[t]}) \subseteq passed[t]]_vars

\* A new or retried job starts at once only when its account has nothing queued at
\* that very moment (queue.go:101 "without allowing it to bypass older queued work").
NoBypass ==
  [][\A j \in claimed' \ claimed :
       status[j] # "queued" => QueuedOf(Owner[j], {j}) = {}]_vars

\* Budget gated downloads overcommit the ingest disk by no more than the one job
\* whose size exceeds the headroom it was admitted with: the global lock keeps two
\* admissions from spending the same headroom.
LargestFootprint == Max({Footprint(j) : j \in JobId})

GatedWithinBudget ==
  LET gated == {j \in claimed : j \in Gated}
  IN  MapThenSumSet(Footprint, gated)
        <= Max({0, Budget - InitialHeadroom + LargestFootprint})

\* Whatever the sessions do one statement at a time, seen from outside it is the
\* slot pool: every commit is one legal step of it, everything else is invisible.
PoolSpec == Pool!Spec

\* Nothing waits in the queue forever while work ends and the scheduler runs: the
\* rules on order, on a busy hash and on the budget never block each other.
QueuedLeaves ==
  \A j \in JobId : status[j] = "queued" ~> status[j] # "queued"

-----------------------------------------------------------------------------
(* The inductive invariant: while a session holds its account's and its     *)
(* hash's lock, what it has read so far still holds of the rows.            *)

ClaimedOf(u) == {j \in claimed : Owner[j] = u}

AfterUser     == Pc \ {"idle", "global", "user"}
AfterHash     == AfterUser \ {"hash"}
AfterRow      == AfterHash \ {"row"}
AfterQueued   == AfterRow \ {"live", "queued"}
AfterInflight == AfterQueued \ {"inflight"}
AfterSame     == AfterInflight \ {"older", "samehash"}

LocksHeld(t) ==
  /\ pc[t] = "idle" <=> cand[t] = NoJob
  /\ pc[t] \in AfterUser => userLock[Owner[cand[t]]] = t
  /\ pc[t] \in AfterHash => hashLock[HashOf[cand[t]]] = t

\* A request's new row is nobody else's, and a row read FOR UPDATE stays as read.
CandidateRow(t) ==
  pc[t] # "idle" =>
    /\ op[t] = "admit" => /\ status[cand[t]] = "unborn"
                          /\ \A s \in Tx \ {t} : cand[s] # cand[t]
    /\ op[t] # "admit" => status[cand[t]] # "unborn"
    /\ op[t] = "readmit" /\ pc[t] \in AfterRow => status[cand[t]] \in Dead \cup {"complete"}
    /\ op[t] = "promote" /\ pc[t] \in AfterRow => status[cand[t]] = "queued"

MayStart(t) == op[t] = "promote" \/ ~must[t]

ReadsStillHold(t) ==
  LET j == cand[t]
      u == Owner[j]
  IN  /\ pc[t] \in AfterQueued /\ op[t] # "promote" =>
           /\ ~must[t] => QueuedOf(u, {j}) = {}
           /\ ~full[t] /\ MaxQueued > 0 => Cardinality(QueuedOf(u, {j})) < MaxQueued
      /\ pc[t] \in AfterInflight /\ MayStart(t) =>
           Cardinality(ClaimedOf(u)) < NormalizeConcurrent(MaxConcurrent[u])
      /\ pc[t] \in AfterSame /\ MayStart(t) =>
           \A k \in claimed : HashOf[k] # HashOf[j]

SessionInv(t) == LocksHeld(t) /\ CandidateRow(t) /\ ReadsStillHold(t)

\* The reads a decision rests on are still true when it is committed, because the
\* session holds the locks under which they could become false.
IInv ==
  /\ TypeOK
  /\ SlotCap
  /\ OneClaimPerHash
  /\ \A j \in claimed : status[j] \in Concurrency
  /\ \A t \in Tx : SessionInv(t)

=============================================================================
