--------------------------- MODULE JobQueueProofs ---------------------------
(***************************************************************************)
(* Proofs about JobQueue for every set of accounts, contents, rows and     *)
(* sessions: the inductive invariant, the slot cap, the single claim per   *)
(* content, that the queue implements SlotPool, and the budget.            *)
(***************************************************************************)
EXTENDS JobQueue, TLAPS, FiniteSetTheorems, WellFoundedInduction

USE SessionAssumption, JobAssumption, LimitAssumption

Labels == /\ AfterUser = {"hash", "row", "live", "queued", "inflight", "older",
                          "samehash", "budgetqueue", "used", "write"}
          /\ AfterHash = AfterUser \ {"hash"}
          /\ AfterRow = AfterHash \ {"row"}
          /\ AfterQueued = AfterRow \ {"live", "queued"}
          /\ AfterInflight = AfterQueued \ {"inflight"}
          /\ AfterSame = AfterInflight \ {"older", "samehash"}

\* The statements a session still has to run, listed.
LEMMA LabelSets == Labels
  BY DEF Labels, Pc, AfterUser, AfterHash, AfterRow, AfterQueued, AfterInflight, AfterSame

\* A set of rows that only loses members does not grow in number.
LEMMA FewerRows ==
  ASSUME NEW S, NEW T \in SUBSET JobId, S \subseteq T
  PROVE  /\ Cardinality(S) \in Nat
         /\ Cardinality(T) \in Nat
         /\ Cardinality(S) <= Cardinality(T)
  <1>1. IsFiniteSet(T)
    BY FS_Subset
  <1>2. IsFiniteSet(S) /\ Cardinality(S) <= Cardinality(T)
    BY <1>1, FS_Subset
  <1> QED
    BY <1>1, <1>2, FS_CardinalityType

\* Adding a row to a set of rows adds at most one to its number.
LEMMA OneMoreRow ==
  ASSUME NEW T \in SUBSET JobId, NEW j \in JobId
  PROVE  Cardinality(T \cup {j}) <= Cardinality(T) + 1
  <1>1. IsFiniteSet(T)
    BY FS_Subset
  <1>2. Cardinality(T) \in Nat
    BY <1>1, FS_CardinalityType
  <1>3. Cardinality(T \cup {j}) =
           IF j \in T THEN Cardinality(T) ELSE Cardinality(T) + 1
    BY <1>1, FS_AddElement, Zenon
  <1> QED
    BY <1>2, <1>3

-----------------------------------------------------------------------------
\* A step neither queues nor claims a row of this account, nor claims this hash.
AccountKept(u) ==
  \A k \in JobId : Owner[k] = u =>
    /\ status'[k] = "queued" => status[k] = "queued"
    /\ k \in claimed' => k \in claimed

HashKept(h) == \A k \in claimed' : HashOf[k] = h => k \in claimed

SameSession(s) ==
  /\ pc'[s] = pc[s] /\ op'[s] = op[s] /\ cand'[s] = cand[s]
  /\ must'[s] = must[s] /\ full'[s] = full[s]

\* What a session holds and has read survives any step that leaves its registers
\* and locks alone and only removes rows from what its locks cover.
LEMMA SessionKept ==
  ASSUME TypeOK, TypeOK', NEW s \in Tx, SessionInv(s), SameSession(s),
         \A u \in User : userLock[u] = s => userLock'[u] = s,
         \A h \in Hash : hashLock[h] = s => hashLock'[h] = s,
         CandidateRow(s)',
         pc[s] \in AfterUser => AccountKept(Owner[cand[s]]),
         pc[s] \in AfterHash => HashKept(HashOf[cand[s]])
  PROVE  SessionInv(s)'
  <1> USE LabelSets DEF Labels
  <1>1. pc[s] # "idle" => cand[s] \in JobId
    BY DEF SessionInv, LocksHeld, TypeOK
  <1>2. LocksHeld(s)'
    BY <1>1 DEF SessionInv, LocksHeld, SameSession, TypeOK
  <1>3. CASE pc[s] \in AfterQueued
    <2>1. PICK j \in JobId : j = cand[s]
      BY <1>1, <1>3
    <2>2. PICK u \in User : u = Owner[j]
      OBVIOUS
    <2>3. /\ cand'[s] = j /\ pc'[s] = pc[s] /\ op'[s] = op[s]
          /\ must'[s] = must[s] /\ full'[s] = full[s]
      BY <2>1 DEF SameSession
    <2>4. /\ QueuedOf(u, {j})' \subseteq QueuedOf(u, {j})
          /\ ClaimedOf(u)' \subseteq ClaimedOf(u)
      BY <1>3, <2>1, <2>2 DEF AccountKept, QueuedOf, ClaimedOf, TypeOK
    <2>5. /\ Cardinality(QueuedOf(u, {j})') <= Cardinality(QueuedOf(u, {j}))
          /\ Cardinality(QueuedOf(u, {j})') \in Nat
          /\ Cardinality(QueuedOf(u, {j})) \in Nat
      <3>1. QueuedOf(u, {j}) \in SUBSET JobId
        BY DEF QueuedOf
      <3> QED
        BY <2>4, <3>1, FewerRows
    <2>6. /\ Cardinality(ClaimedOf(u)') <= Cardinality(ClaimedOf(u))
          /\ Cardinality(ClaimedOf(u)') \in Nat
          /\ Cardinality(ClaimedOf(u)) \in Nat
      <3>1. ClaimedOf(u) \in SUBSET JobId
        BY DEF ClaimedOf, TypeOK
      <3> QED
        BY <2>4, <3>1, FewerRows
    <2>7. NormalizeConcurrent(MaxConcurrent[u]) \in Int
      BY DEF NormalizeConcurrent
    <2>8. op[s] # "promote" /\ ~must[s] => QueuedOf(u, {j})' = {}
      BY <1>3, <2>1, <2>2, <2>4 DEF SessionInv, ReadsStillHold
    <2>9. op[s] # "promote" /\ ~full[s] /\ MaxQueued > 0
            => Cardinality(QueuedOf(u, {j})') < MaxQueued
      BY <1>3, <2>1, <2>2, <2>5 DEF SessionInv, ReadsStillHold
    <2>10. pc[s] \in AfterInflight /\ MayStart(s) =>
             Cardinality(ClaimedOf(u)') < NormalizeConcurrent(MaxConcurrent[u])
      BY <2>1, <2>2, <2>6, <2>7 DEF SessionInv, ReadsStillHold
    <2>11. pc[s] \in AfterSame /\ MayStart(s) =>
             \A k \in claimed' : HashOf[k] # HashOf[j]
      BY <2>1 DEF SessionInv, ReadsStillHold, HashKept
    <2>12. ReadsStillHold(s)'
      BY <1>3, <2>2, <2>3, <2>8, <2>9, <2>10, <2>11 DEF ReadsStillHold, MayStart
    <2> QED
      BY <1>2, <2>12 DEF SessionInv
  <1>4. CASE pc[s] \notin AfterQueued
    <2>1. ReadsStillHold(s)'
      BY <1>4 DEF ReadsStillHold, SameSession
    <2> QED
      BY <1>2, <2>1 DEF SessionInv
  <1> QED
    BY <1>3, <1>4

-----------------------------------------------------------------------------
RowInv == SlotCap /\ OneClaimPerHash /\ \A j \in claimed : status[j] \in Concurrency

SameRows == status' = status /\ claimed' = claimed

\* The sessions other than t keep their registers and the locks they hold.
OthersAlone(t) ==
  \A s \in Tx \ {t} :
    /\ SameSession(s)
    /\ \A u \in User : userLock[u] = s => userLock'[u] = s
    /\ \A h \in Hash : hashLock[h] = s => hashLock'[h] = s

\* A step of session t that writes no row disturbs no other session.
LEMMA OthersKept ==
  ASSUME IInv, TypeOK', NEW t \in Tx, OthersAlone(t), SameRows,
         cand'[t] \in {NoJob, cand[t]}
  PROVE  RowInv' /\ \A s \in Tx \ {t} : SessionInv(s)'
  <1>1. RowInv'
    BY DEF IInv, RowInv, SameRows, SlotCap, OneClaimPerHash
  <1>2. ASSUME NEW s \in Tx \ {t}
        PROVE  SessionInv(s)'
    <2>1. SessionInv(s) /\ TypeOK
      BY DEF IInv
    <2>2. pc[s] # "idle" => cand[s] \in JobId
      BY <2>1 DEF SessionInv, LocksHeld, TypeOK
    <2>3. CandidateRow(s)'
      <3>1. \A r \in Tx : cand'[r] = cand[r] \/ cand'[r] = NoJob
        BY DEF OthersAlone, SameSession
      <3> QED
        BY <2>1, <2>2, <3>1 DEF SessionInv, CandidateRow, OthersAlone, SameSession, SameRows
    <2>4. AccountKept(Owner[cand[s]]) /\ HashKept(HashOf[cand[s]])
      BY DEF AccountKept, HashKept, SameRows
    <2> QED
      BY <2>1, <2>3, <2>4, SessionKept DEF OthersAlone
  <1> QED
    BY <1>1, <1>2

\* The end of a transaction leaves its session idle and holding nothing.
LEMMA EndFrees ==
  ASSUME TypeOK, NEW t \in Tx, End(t)
  PROVE  SessionInv(t)' /\ OthersAlone(t) /\ cand'[t] = NoJob
  <1> USE LabelSets DEF Labels
  <1>1. pc'[t] = "idle" /\ cand'[t] = NoJob
    BY DEF End, Goto, TypeOK
  <1>2. SessionInv(t)'
    BY <1>1 DEF SessionInv, LocksHeld, CandidateRow, ReadsStillHold
  <1>3. OthersAlone(t)
    BY DEF End, Goto, TypeOK, OthersAlone, SameSession
  <1> QED
    BY <1>1, <1>2, <1>3

\* Giving up without a write keeps the invariant.
LEMMA Rollback ==
  ASSUME IInv, TypeOK', NEW t \in Tx, End(t), UNCHANGED rows
  PROVE  IInv'
  <1>1. SessionInv(t)' /\ OthersAlone(t) /\ cand'[t] = NoJob
    BY EndFrees DEF IInv
  <1>2. SameRows
    BY DEF SameRows, rows
  <1>3. RowInv' /\ \A s \in Tx \ {t} : SessionInv(s)'
    BY <1>1, <1>2, OthersKept
  <1> QED
    BY <1>1, <1>3 DEF IInv, RowInv

-----------------------------------------------------------------------------
\* Opening a transaction.
LEMMA BeginStep ==
  ASSUME IInv, TypeOK', NEW t \in Tx, NEW j \in JobId,
         NEW o \in {"admit", "readmit", "promote"}, Begin(t, o, j), SameRows,
         o = "admit" => status[j] = "unborn" /\ \A s \in Tx : cand[s] # j,
         o # "admit" => status[j] # "unborn"
  PROVE  IInv'
  <1> USE LabelSets DEF Labels
  <1>1. /\ pc'[t] \in {"global", "user"} /\ cand'[t] = j /\ op'[t] = o
        /\ pc[t] = "idle"
    BY DEF Begin, Goto, IInv, TypeOK
  <1>2. ASSUME NEW s \in Tx \ {t}
        PROVE  /\ SameSession(s)
               /\ \A u \in User : userLock'[u] = userLock[u]
               /\ \A h \in Hash : hashLock'[h] = hashLock[h]
    BY DEF Begin, Goto, IInv, TypeOK, SameSession, locks
  <1>3. SessionInv(t)'
    <2>1. LocksHeld(t)' /\ ReadsStillHold(t)'
      BY <1>1 DEF LocksHeld, ReadsStillHold
    <2>2. CandidateRow(t)'
      BY <1>1, <1>2 DEF CandidateRow, SameSession, SameRows
    <2> QED
      BY <2>1, <2>2 DEF SessionInv
  <1>4. RowInv'
    BY DEF IInv, RowInv, SameRows, SlotCap, OneClaimPerHash
  <1>5. ASSUME NEW s \in Tx \ {t}
        PROVE  SessionInv(s)'
    <2>1. SessionInv(s) /\ TypeOK
      BY DEF IInv
    <2>2. pc[s] # "idle" => cand[s] \in JobId
      BY <2>1 DEF SessionInv, LocksHeld, TypeOK
    <2>3. CandidateRow(s)'
      <3>1. ASSUME pc[s] # "idle", op[s] = "admit"
            PROVE  /\ status[cand[s]] = "unborn"
                   /\ \A r \in Tx \ {s} : cand'[r] # cand[s]
        <4>1. status[cand[s]] = "unborn" /\ \A r \in Tx \ {s} : cand[r] # cand[s]
          BY <2>1, <3>1 DEF SessionInv, CandidateRow
        <4>2. j # cand[s]
          BY <4>1
        <4> QED
          BY <1>1, <1>2, <4>1, <4>2 DEF SameSession
      <3> QED
        BY <1>2, <2>1, <3>1 DEF SessionInv, CandidateRow, SameSession, SameRows
    <2>4. AccountKept(Owner[cand[s]]) /\ HashKept(HashOf[cand[s]])
      BY DEF AccountKept, HashKept, SameRows
    <2> QED
      BY <1>2, <2>1, <2>3, <2>4, SessionKept
  <1> QED
    BY <1>3, <1>4, <1>5 DEF IInv, RowInv

\* A statement of t that writes no row and does not end the transaction.
LEMMA ReadStep ==
  ASSUME IInv, TypeOK', NEW t \in Tx, OthersAlone(t), UNCHANGED rows,
         UNCHANGED <<op, cand>>, SessionInv(t)'
  PROVE  IInv'
  <1>1. SameRows /\ cand'[t] \in {NoJob, cand[t]}
    BY DEF SameRows, rows
  <1> QED
    BY <1>1, OthersKept DEF IInv, RowInv

\* Taking the advisory locks.
LEMMA LockStep ==
  ASSUME IInv, TypeOK', NEW t \in Tx,
         LockGlobal(t) \/ LockUser(t) \/ LockDownloadHash(t)
  PROVE  IInv'
  <1> USE LabelSets DEF Labels
  <1>0. TypeOK /\ SessionInv(t) /\ UNCHANGED rows /\ UNCHANGED <<op, cand, must, full>>
    BY DEF IInv, LockGlobal, LockUser, LockDownloadHash
  <1>1. cand[t] \in JobId
    BY <1>0 DEF LockGlobal, LockUser, LockDownloadHash, SessionInv, LocksHeld, TypeOK
  <1>2. OthersAlone(t)
    <2>1. \A s \in Tx \ {t} : SameSession(s)
      BY <1>0 DEF LockGlobal, LockUser, LockDownloadHash, Goto, SameSession, TypeOK
    <2>2. \A s \in Tx \ {t}, u \in User : userLock[u] = s => userLock'[u] = s
      BY <1>0, <1>1 DEF LockGlobal, LockUser, LockDownloadHash, TypeOK, Tx
    <2>3. \A s \in Tx \ {t}, h \in Hash : hashLock[h] = s => hashLock'[h] = s
      BY <1>0, <1>1 DEF LockGlobal, LockUser, LockDownloadHash, TypeOK, Tx
    <2> QED
      BY <2>1, <2>2, <2>3 DEF OthersAlone
  <1>3. LocksHeld(t)'
    <2>1. CASE LockGlobal(t)
      BY <2>1, <1>0, <1>1 DEF LockGlobal, Goto, LockAfter, SessionInv, LocksHeld, TypeOK
    <2>2. CASE LockUser(t)
      <3>1. pc'[t] = "hash" /\ userLock'[Owner[cand[t]]] = t
        BY <2>2, <1>0, <1>1 DEF LockUser, Goto, LockAfter, TypeOK
      <3> QED
        BY <3>1, <1>0, <1>1 DEF LocksHeld
    <2>3. CASE LockDownloadHash(t)
      <3>1. /\ pc[t] = "hash" /\ pc'[t] \in {"live", "row"}
            /\ hashLock'[HashOf[cand[t]]] = t /\ userLock' = userLock
        BY <2>3, <1>0, <1>1 DEF LockDownloadHash, Goto, LockAfter, TypeOK
      <3> QED
        BY <3>1, <1>0, <1>1 DEF SessionInv, LocksHeld
    <2> QED
      BY <2>1, <2>2, <2>3
  <1>4. pc'[t] \in {"user", "hash", "live", "row"}
        /\ (pc'[t] = "live" => op[t] = "admit") /\ pc[t] # "idle"
    BY <1>0 DEF LockGlobal, LockUser, LockDownloadHash, Goto, LockAfter, TypeOK
  <1>5. CandidateRow(t)'
    <2>1. status' = status
      BY <1>0 DEF rows
    <2> QED
      BY <1>0, <1>4, <2>1 DEF SessionInv, CandidateRow
  <1>6. ReadsStillHold(t)'
    BY <1>0, <1>4 DEF ReadsStillHold
  <1> QED
    BY <1>0, <1>2, <1>3, <1>5, <1>6, ReadStep DEF SessionInv

\* A statement that keeps the locks, the call and the candidate of t.
LEMMA StillHolds ==
  ASSUME IInv, TypeOK', NEW t \in Tx, UNCHANGED <<rows, locks, op, cand>>,
         pc[t] \in AfterHash, pc'[t] \in AfterHash,
         \A s \in Tx \ {t} : SameSession(s),
         op[t] # "admit" /\ pc'[t] \in AfterRow =>
           pc[t] \in AfterRow \/ status[cand[t]] \in
             (IF op[t] = "promote" THEN {"queued"} ELSE Dead \cup {"complete"}),
         ReadsStillHold(t)'
  PROVE  IInv'
  <1> USE LabelSets DEF Labels
  <1>1. TypeOK /\ SessionInv(t) /\ status' = status /\ userLock' = userLock
        /\ hashLock' = hashLock /\ op' = op /\ cand' = cand
    BY DEF IInv, rows, locks
  <1>2. OthersAlone(t)
    BY <1>1 DEF OthersAlone
  <1>3. LocksHeld(t)'
    BY <1>1 DEF SessionInv, LocksHeld
  <1>4. CandidateRow(t)'
    BY <1>1 DEF SessionInv, CandidateRow, TypeOK
  <1> QED
    BY <1>2, <1>3, <1>4, ReadStep DEF SessionInv


-----------------------------------------------------------------------------
\* A session past its account's lock works on a row of the table.
LEMMA Candidate ==
  ASSUME IInv, NEW t \in Tx, pc[t] # "idle"
  PROVE  cand[t] \in JobId /\ Owner[cand[t]] \in User /\ HashOf[cand[t]] \in Hash
  BY DEF IInv, SessionInv, LocksHeld, TypeOK

\* The locked row: eligible as read, or the end of the transaction.
LEMMA ReadRowStep ==
  ASSUME IInv, TypeOK', NEW t \in Tx, ReadRow(t)
  PROVE  IInv'
  <1> USE LabelSets DEF Labels
  <1>1. CASE End(t)
    BY <1>1, Rollback DEF ReadRow
  <1>2. CASE ~End(t)
    <2>1. /\ pc[t] = "row" /\ pc'[t] \in {"inflight", "live"}
          /\ pc'[t] = "inflight" <=> op[t] = "promote"
          /\ status[cand[t]] \in (IF op[t] = "promote" THEN {"queued"} ELSE Dead \cup {"complete"})
          /\ UNCHANGED <<rows, locks, op, cand, must, full>>
      BY <1>2 DEF ReadRow, Goto, IInv, TypeOK
    <2>2. \A s \in Tx \ {t} : SameSession(s)
      BY <1>2 DEF ReadRow, Goto, IInv, TypeOK, SameSession
    <2>3. ReadsStillHold(t)'
      BY <2>1 DEF ReadsStillHold
    <2> QED
      BY <2>1, <2>2, <2>3, StillHolds
  <1> QED
    BY <1>1, <1>2

\* The look for the account's other live row.
LEMMA ReadLiveStep ==
  ASSUME IInv, TypeOK', NEW t \in Tx, ReadLive(t)
  PROVE  IInv'
  <1> USE LabelSets DEF Labels
  <1>1. CASE End(t)
    BY <1>1, Rollback DEF ReadLive
  <1>2. CASE ~End(t)
    <2>1. /\ pc[t] = "live" /\ pc'[t] = "queued"
          /\ UNCHANGED <<rows, locks, op, cand, must, full>>
      BY <1>2 DEF ReadLive, Goto, IInv, TypeOK
    <2>2. \A s \in Tx \ {t} : SameSession(s)
      BY <1>2 DEF ReadLive, Goto, IInv, TypeOK, SameSession
    <2>3. ReadsStillHold(t)'
      BY <2>1 DEF ReadsStillHold
    <2> QED
      BY <2>1, <2>2, <2>3, StillHolds
  <1> QED
    BY <1>1, <1>2

\* The count of the account's queue.
LEMMA ReadQueuedStep ==
  ASSUME IInv, TypeOK', NEW t \in Tx, ReadQueued(t)
  PROVE  IInv'
  <1> USE LabelSets DEF Labels
  <1>1. PICK j \in JobId : j = cand[t]
    BY Candidate DEF ReadQueued
  <1>2. PICK u \in User : u = Owner[j]
    OBVIOUS
  <1>3. PICK n \in Nat : n = Cardinality(QueuedOf(u, {j}))
    <2>1. QueuedOf(u, {j}) \in SUBSET JobId
      BY DEF QueuedOf
    <2> QED
      BY <2>1, FewerRows
  <1>4. /\ pc[t] = "queued" /\ pc'[t] = "inflight"
        /\ ~must'[t] => ~(n > 0)
        /\ ~full'[t] => ~(MaxQueued > 0 /\ n >= MaxQueued)
        /\ UNCHANGED <<rows, locks, op, cand>>
    BY <1>1, <1>2, <1>3 DEF ReadQueued, Goto, IInv, TypeOK
  <1>5. \A s \in Tx \ {t} : SameSession(s)
    BY DEF ReadQueued, Goto, IInv, TypeOK, SameSession
  <1>6. QueuedOf(u, {j})' = QueuedOf(u, {j})
    BY <1>4 DEF QueuedOf, rows
  <1>7. ~(n > 0) => QueuedOf(u, {j}) = {}
    <2>1. IsFiniteSet(QueuedOf(u, {j}))
      BY FS_Subset DEF QueuedOf
    <2>2. ~(n > 0) => n = 0
      OBVIOUS
    <2> QED
      BY <1>3, <2>1, <2>2, FS_EmptySet
  <1>8. ~must'[t] => QueuedOf(u, {j})' = {}
    BY <1>4, <1>6, <1>7
  <1>9. ~full'[t] /\ MaxQueued > 0 => Cardinality(QueuedOf(u, {j})') < MaxQueued
    <2>1. Cardinality(QueuedOf(u, {j})') = n
      BY <1>3, <1>6
    <2> QED
      BY <1>4, <2>1
  <1>10. pc'[t] = "inflight" /\ cand'[t] = j
    BY <1>1, <1>4
  <1>11. ReadsStillHold(t)'
    BY <1>2, <1>8, <1>9, <1>10 DEF ReadsStillHold
  <1> QED
    BY <1>4, <1>5, <1>11, StillHolds

\* What t has read so far, as its locks let it still rely on.
LEMMA SessionReads ==
  ASSUME IInv, NEW t \in Tx
  PROVE  ReadsStillHold(t)
  BY DEF IInv, SessionInv

\* The count of the account's running jobs.
LEMMA ReadInflightStep ==
  ASSUME IInv, TypeOK', NEW t \in Tx, ReadInflight(t)
  PROVE  IInv'
  <1> USE LabelSets DEF Labels
  <1>1. CASE End(t)
    BY <1>1, Rollback DEF ReadInflight
  <1>2. CASE ~End(t)
    <2>1. PICK j \in JobId : j = cand[t]
      BY Candidate DEF ReadInflight
    <2>2. PICK u \in User : u = Owner[j]
      OBVIOUS
    <2>3. PICK b \in BOOLEAN :
            b <=> Cardinality(InflightOf(u)) >= NormalizeConcurrent(MaxConcurrent[u])
      <3>1. (Cardinality(InflightOf(u)) >= NormalizeConcurrent(MaxConcurrent[u])) \in BOOLEAN
        OBVIOUS
      <3> QED
        BY <3>1
    <2>4. /\ pc[t] = "inflight" /\ pc'[t] \in {"older", "samehash"}
          /\ op[t] = "promote" => ~b
          /\ must'[t] = (must[t] \/ b) /\ full' = full
          /\ UNCHANGED <<rows, locks, op, cand>>
          /\ pc'[t] = "older" <=> op[t] = "promote"
      BY <1>2, <2>1, <2>2, <2>3 DEF ReadInflight, Goto, IInv, TypeOK
    <2>5. \A s \in Tx \ {t} : SameSession(s)
      BY <1>2 DEF ReadInflight, Goto, IInv, TypeOK, SameSession
    <2>6. ~b => Cardinality(ClaimedOf(u)) < NormalizeConcurrent(MaxConcurrent[u])
      <3>1. ClaimedOf(u) \subseteq InflightOf(u) /\ InflightOf(u) \in SUBSET JobId
        BY DEF ClaimedOf, InflightOf, IInv, TypeOK
      <3>2. /\ Cardinality(ClaimedOf(u)) <= Cardinality(InflightOf(u))
            /\ Cardinality(ClaimedOf(u)) \in Nat /\ Cardinality(InflightOf(u)) \in Nat
        BY <3>1, FewerRows
      <3>3. NormalizeConcurrent(MaxConcurrent[u]) \in Int
        BY DEF NormalizeConcurrent
      <3> QED
        BY <2>3, <3>2, <3>3
    <2>7. QueuedOf(u, {j})' = QueuedOf(u, {j}) /\ ClaimedOf(u)' = ClaimedOf(u)
      BY <2>4 DEF QueuedOf, ClaimedOf, rows
    <2>8. pc'[t] \in {"older", "samehash"} /\ cand'[t] = j /\ op'[t] = op[t]
          /\ full'[t] = full[t] /\ (op'[t] # "promote" => must'[t] = (must[t] \/ b))
      BY <2>1, <2>4
    <2>9. op[t] # "promote" =>
            /\ ~must[t] => QueuedOf(u, {j})' = {}
            /\ ~full[t] /\ MaxQueued > 0 => Cardinality(QueuedOf(u, {j})') < MaxQueued
      BY <2>1, <2>2, <2>4, <2>7, SessionReads DEF ReadsStillHold
    <2>10. MayStart(t)' => Cardinality(ClaimedOf(u)') < NormalizeConcurrent(MaxConcurrent[u])
      BY <2>4, <2>6, <2>7, <2>8 DEF MayStart
    <2>11. ReadsStillHold(t)'
      BY <2>2, <2>8, <2>9, <2>10 DEF ReadsStillHold
    <2> QED
      BY <2>4, <2>5, <2>11, StillHolds
  <1> QED
    BY <1>1, <1>2

\* The look for a queued job that ranks before the candidate.
LEMMA ReadOlderStep ==
  ASSUME IInv, TypeOK', NEW t \in Tx, ReadOlder(t)
  PROVE  IInv'
  <1> USE LabelSets DEF Labels
  <1>1. CASE End(t)
    BY <1>1, Rollback DEF ReadOlder
  <1>2. CASE ~End(t)
    <2>1. PICK j \in JobId : j = cand[t]
      BY Candidate DEF ReadOlder
    <2>2. PICK u \in User : u = Owner[j]
      OBVIOUS
    <2>4. /\ pc[t] = "older" /\ pc'[t] = "samehash"
          /\ UNCHANGED <<rows, locks, op, cand, must, full>>
      BY <1>2 DEF ReadOlder, Goto, IInv, TypeOK
    <2>5. \A s \in Tx \ {t} : SameSession(s)
      BY <1>2 DEF ReadOlder, Goto, IInv, TypeOK, SameSession
    <2>7. QueuedOf(u, {j})' = QueuedOf(u, {j}) /\ ClaimedOf(u)' = ClaimedOf(u)
      BY <2>4 DEF QueuedOf, ClaimedOf, rows
    <2>8. /\ pc'[t] = "samehash" /\ cand'[t] = j /\ op'[t] = op[t]
          /\ full'[t] = full[t] /\ must'[t] = must[t]
      BY <2>1, <2>4
    <2>9. /\ op[t] # "promote" =>
               /\ ~must[t] => QueuedOf(u, {j})' = {}
               /\ ~full[t] /\ MaxQueued > 0 => Cardinality(QueuedOf(u, {j})') < MaxQueued
          /\ MayStart(t) => Cardinality(ClaimedOf(u)') < NormalizeConcurrent(MaxConcurrent[u])
      BY <2>1, <2>2, <2>4, <2>7, SessionReads DEF ReadsStillHold
    <2>10. ReadsStillHold(t)'
      BY <2>2, <2>8, <2>9 DEF ReadsStillHold, MayStart
    <2> QED
      BY <2>4, <2>5, <2>10, StillHolds
  <1> QED
    BY <1>1, <1>2

\* While t holds its row, no worker runs it.
LEMMA CandidateNotClaimed ==
  ASSUME IInv, NEW t \in Tx, pc[t] \in AfterRow
  PROVE  cand[t] \notin claimed /\ status[cand[t]] \notin Concurrency
  <1> USE LabelSets DEF Labels
  <1>1. status[cand[t]] \in {"unborn", "queued", "complete", "failed", "evicted"}
    BY DEF IInv, SessionInv, CandidateRow, TypeOK, Dead
  <1> QED
    BY <1>1 DEF IInv, Concurrency, LiveWork

\* The look for another running copy of the content.
LEMMA ReadActiveHashStep ==
  ASSUME IInv, TypeOK', NEW t \in Tx, ReadActiveHash(t)
  PROVE  IInv'
  <1> USE LabelSets DEF Labels
  <1>1. CASE End(t)
    BY <1>1, Rollback DEF ReadActiveHash
  <1>2. CASE ~End(t)
    <2>1. PICK j \in JobId : j = cand[t]
      BY Candidate DEF ReadActiveHash
    <2>2. PICK u \in User : u = Owner[j]
      OBVIOUS
    <2>3. /\ pc[t] = "samehash" /\ pc'[t] \in {"write", "used", "budgetqueue"}
          /\ op[t] = "promote" => ~ActiveHash(j)
          /\ ~must'[t] => ~must[t] /\ ~ActiveHash(j)
          /\ full' = full
          /\ UNCHANGED <<rows, locks, op, cand>>
      BY <1>2, <2>1 DEF ReadActiveHash, AfterSameHash, Goto, IInv, TypeOK
    <2>4. \A s \in Tx \ {t} : SameSession(s)
      BY <1>2 DEF ReadActiveHash, Goto, IInv, TypeOK, SameSession
    <2>5. ~ActiveHash(j) => \A k \in claimed : HashOf[k] # HashOf[j]
      BY <2>1, <2>3, CandidateNotClaimed DEF ActiveHash, IInv, TypeOK
    <2>6. /\ QueuedOf(u, {j})' = QueuedOf(u, {j}) /\ ClaimedOf(u)' = ClaimedOf(u)
          /\ claimed' = claimed
      BY <2>3 DEF QueuedOf, ClaimedOf, rows
    <2>7. /\ pc'[t] \in AfterSame /\ cand'[t] = j /\ op'[t] = op[t]
          /\ full'[t] = full[t]
      BY <2>1, <2>3
    <2>8. op[t] # "promote" =>
            /\ ~must'[t] => QueuedOf(u, {j})' = {}
            /\ ~full[t] /\ MaxQueued > 0 => Cardinality(QueuedOf(u, {j})') < MaxQueued
      BY <2>1, <2>2, <2>3, <2>6, SessionReads DEF ReadsStillHold
    <2>9. MayStart(t)' =>
            /\ Cardinality(ClaimedOf(u)') < NormalizeConcurrent(MaxConcurrent[u])
            /\ \A k \in claimed' : HashOf[k] # HashOf[j]
      BY <2>1, <2>2, <2>3, <2>5, <2>6, <2>7, SessionReads DEF ReadsStillHold, MayStart
    <2>10. ReadsStillHold(t)'
      BY <2>2, <2>7, <2>8, <2>9 DEF ReadsStillHold
    <2> QED
      BY <2>3, <2>4, <2>10, StillHolds
  <1> QED
    BY <1>1, <1>2

\* A later read that can only make t more cautious.
LEMMA CautiousStep ==
  ASSUME IInv, TypeOK', NEW t \in Tx, UNCHANGED <<rows, locks, op, cand, full>>,
         pc[t] \in AfterSame, pc'[t] \in AfterSame,
         ~must'[t] => ~must[t],
         \A s \in Tx \ {t} : SameSession(s)
  PROVE  IInv'
  <1> USE LabelSets DEF Labels
  <1>1. PICK j \in JobId : j = cand[t]
    BY Candidate
  <1>2. PICK u \in User : u = Owner[j]
    OBVIOUS
  <1>3. /\ QueuedOf(u, {j})' = QueuedOf(u, {j}) /\ ClaimedOf(u)' = ClaimedOf(u)
        /\ claimed' = claimed
    BY DEF QueuedOf, ClaimedOf, rows
  <1>4. cand'[t] = j /\ op'[t] = op[t] /\ full'[t] = full[t]
    BY <1>1
  <1>5. op[t] # "promote" =>
          /\ ~must'[t] => QueuedOf(u, {j})' = {}
          /\ ~full[t] /\ MaxQueued > 0 => Cardinality(QueuedOf(u, {j})') < MaxQueued
    BY <1>1, <1>2, <1>3, SessionReads DEF ReadsStillHold
  <1>6. MayStart(t)' =>
          /\ Cardinality(ClaimedOf(u)') < NormalizeConcurrent(MaxConcurrent[u])
          /\ \A k \in claimed' : HashOf[k] # HashOf[j]
    BY <1>1, <1>2, <1>3, <1>4, SessionReads DEF ReadsStillHold, MayStart
  <1>7. ReadsStillHold(t)'
    BY <1>2, <1>4, <1>5, <1>6 DEF ReadsStillHold
  <1> QED
    BY <1>7, StillHolds

\* The two reads of the ingest budget.
LEMMA ReadBudgetStep ==
  ASSUME IInv, TypeOK', NEW t \in Tx, ReadBudgetQueue(t) \/ ReadBudgetUsed(t)
  PROVE  IInv'
  <1> USE LabelSets DEF Labels
  <1>1. CASE End(t) /\ ReadBudgetUsed(t)
    BY <1>1, Rollback DEF ReadBudgetUsed
  <1>2. CASE ReadBudgetUsed(t) /\ ~End(t)
    <2>1. /\ pc[t] = "used" /\ pc'[t] = "write" /\ (~must'[t] => ~must[t])
          /\ UNCHANGED <<rows, locks, op, cand, full>>
      BY <1>2 DEF ReadBudgetUsed, Goto, IInv, TypeOK
    <2>2. \A s \in Tx \ {t} : SameSession(s)
      BY <1>2 DEF ReadBudgetUsed, Goto, IInv, TypeOK, SameSession
    <2> QED
      BY <2>1, <2>2, CautiousStep
  <1>3. CASE ReadBudgetQueue(t)
    <2>1. /\ pc[t] = "budgetqueue" /\ pc'[t] = "used" /\ (~must'[t] => ~must[t])
          /\ UNCHANGED <<rows, locks, op, cand, full>>
      BY <1>3 DEF ReadBudgetQueue, Goto, IInv, TypeOK
    <2>2. \A s \in Tx \ {t} : SameSession(s)
      BY <1>3 DEF ReadBudgetQueue, Goto, IInv, TypeOK, SameSession
    <2> QED
      BY <2>1, <2>2, CautiousStep
  <1> QED
    BY <1>1, <1>2, <1>3

-----------------------------------------------------------------------------
\* The commit of a transaction that queues its row or claims a slot for it: the
\* other sessions work under the locks of other accounts and other contents.
LEMMA CommitStep ==
  ASSUME IInv, TypeOK', NEW t \in Tx, pc[t] = "write", End(t),
         NEW to \in {"queued", "pending"},
         status' = [status EXCEPT ![cand[t]] = to],
         claimed' = IF to = "pending" THEN claimed \cup {cand[t]} ELSE claimed,
         to = "pending" => MayStart(t)
  PROVE  IInv'
  <1> USE LabelSets DEF Labels
  <1>1. PICK j \in JobId : j = cand[t]
    BY Candidate
  <1>2. PICK u \in User : u = Owner[j]
    OBVIOUS
  <1>3. TypeOK /\ SessionInv(t) /\ userLock[u] = t /\ hashLock[HashOf[j]] = t
    BY <1>1, <1>2 DEF IInv, SessionInv, LocksHeld
  <1>4. SessionInv(t)' /\ OthersAlone(t) /\ cand'[t] = NoJob
    BY <1>3, EndFrees
  <1>5. to = "pending" => /\ Cardinality(ClaimedOf(u)) < NormalizeConcurrent(MaxConcurrent[u])
                          /\ \A k \in claimed : HashOf[k] # HashOf[j]
    BY <1>1, <1>2, <1>3 DEF SessionInv, ReadsStillHold
  <1>6. SlotCap'
    <2> SUFFICES ASSUME NEW v \in User
                 PROVE  Cardinality({k \in claimed' : Owner[k] = v})
                          <= NormalizeConcurrent(MaxConcurrent[v])
      BY DEF SlotCap
    <2>1. Cardinality({k \in claimed : Owner[k] = v}) <= NormalizeConcurrent(MaxConcurrent[v])
      BY DEF IInv, SlotCap
    <2>2. CASE to = "pending" /\ v = u
      <3>1. {k \in claimed' : Owner[k] = v} = ClaimedOf(u) \cup {j}
        BY <2>2, <1>1, <1>2 DEF ClaimedOf
      <3>2. ClaimedOf(u) \in SUBSET JobId
        BY <1>3 DEF ClaimedOf, TypeOK
      <3>3. Cardinality(ClaimedOf(u) \cup {j}) <= Cardinality(ClaimedOf(u)) + 1
        BY <3>2, OneMoreRow
      <3>4. Cardinality(ClaimedOf(u)) \in Nat /\ Cardinality(ClaimedOf(u) \cup {j}) \in Nat
        BY <3>2, FewerRows
      <3>5. NormalizeConcurrent(MaxConcurrent[u]) \in Int
        BY DEF NormalizeConcurrent
      <3>6. Cardinality(ClaimedOf(u) \cup {j}) <= NormalizeConcurrent(MaxConcurrent[u])
        BY <2>2, <3>3, <3>4, <3>5, <1>5
      <3> QED
        BY <2>2, <3>1, <3>6
    <2>3. CASE ~(to = "pending" /\ v = u)
      <3>1. {k \in claimed' : Owner[k] = v} = {k \in claimed : Owner[k] = v}
        BY <2>3, <1>1, <1>2
      <3> QED
        BY <2>1, <3>1
    <2> QED
      BY <2>2, <2>3
  <1>7. OneClaimPerHash'
    BY <1>1, <1>5 DEF IInv, OneClaimPerHash
  <1>8. \A k \in claimed' : status'[k] \in Concurrency
    <2> SUFFICES ASSUME NEW k \in claimed'
                 PROVE  status'[k] \in Concurrency
      OBVIOUS
    <2>1. CASE k = j /\ to = "pending"
      BY <2>1, <1>1, <1>3 DEF TypeOK, Concurrency
    <2>2. CASE k = j /\ to = "queued"
      <3>1. pc[t] \in AfterRow
        OBVIOUS
      <3> QED
        BY <2>2, <3>1, <1>1, CandidateNotClaimed
    <2>3. CASE k # j
      BY <2>3, <1>1, <1>3 DEF IInv, TypeOK
    <2> QED
      BY <2>1, <2>2, <2>3
  <1>9. ASSUME NEW s \in Tx \ {t}
        PROVE  SessionInv(s)'
    <2>1. SessionInv(s)
      BY DEF IInv
    <2>2. pc[s] # "idle" => cand[s] \in JobId
      BY <1>3, <2>1 DEF SessionInv, LocksHeld, TypeOK
    <2>3. /\ pc[s] \in AfterUser => Owner[cand[s]] # u
          /\ pc[s] \in AfterHash => HashOf[cand[s]] # HashOf[j]
      BY <1>3, <2>1 DEF SessionInv, LocksHeld
    <2>4. /\ pc[s] \in AfterUser => cand[s] # j
          /\ pc[s] # "idle" /\ op[s] = "admit" => cand[s] # j
      BY <2>1, <2>3, <1>1, <1>2 DEF SessionInv, CandidateRow
    <2>5. SameSession(s) /\ \A r \in Tx : cand'[r] = cand[r] \/ cand'[r] = NoJob
      BY <1>4 DEF OthersAlone, SameSession
    <2>6. \A k \in JobId : k # j => status'[k] = status[k]
      BY <1>1, <1>3 DEF TypeOK
    <2>7. status'[j] = to
      BY <1>1, <1>3 DEF TypeOK
    <2>8. CandidateRow(s)'
      BY <2>1, <2>2, <2>4, <2>5, <2>6, <2>7 DEF SessionInv, CandidateRow, SameSession
    <2>9. pc[s] \in AfterUser => AccountKept(Owner[cand[s]])
      BY <2>3, <2>6, <1>1, <1>2 DEF AccountKept
    <2>10. pc[s] \in AfterHash => HashKept(HashOf[cand[s]])
      BY <2>3, <1>1 DEF HashKept
    <2> QED
      BY <1>3, <1>4, <2>1, <2>5, <2>8, <2>9, <2>10, SessionKept DEF OthersAlone
  <1> QED
    BY <1>4, <1>6, <1>7, <1>8, <1>9 DEF IInv

\* A write without admission locks: it queues nothing, claims nothing, and does not
\* touch a row that a transaction has locked or is about to insert.
LEMMA RowWriteStep ==
  ASSUME IInv, TypeOK', NEW j \in JobId, NEW to \in Status \ {"queued", "unborn"},
         status' = [status EXCEPT ![j] = to],
         claimed' \subseteq claimed,
         j \in claimed' => to \in Concurrency,
         \A s \in Tx : cand[s] = j => op[s] # "admit" /\ pc[s] \notin AfterRow,
         UNCHANGED <<locks, local>>
  PROVE  IInv'
  <1> USE LabelSets DEF Labels
  <1>1. TypeOK
    BY DEF IInv
  <1>2. /\ \A k \in JobId : k # j => status'[k] = status[k]
        /\ status'[j] = to
    BY <1>1 DEF TypeOK
  <1>3. SlotCap'
    <2> SUFFICES ASSUME NEW v \in User
                 PROVE  Cardinality({k \in claimed' : Owner[k] = v})
                          <= NormalizeConcurrent(MaxConcurrent[v])
      BY DEF SlotCap
    <2>1. Cardinality({k \in claimed : Owner[k] = v}) <= NormalizeConcurrent(MaxConcurrent[v])
      BY DEF IInv, SlotCap
    <2>2. {k \in claimed : Owner[k] = v} \in SUBSET JobId
      BY <1>1 DEF TypeOK
    <2>3. {k \in claimed' : Owner[k] = v} \subseteq {k \in claimed : Owner[k] = v}
      OBVIOUS
    <2>4. /\ Cardinality({k \in claimed' : Owner[k] = v}) <= Cardinality({k \in claimed : Owner[k] = v})
          /\ Cardinality({k \in claimed' : Owner[k] = v}) \in Nat
          /\ Cardinality({k \in claimed : Owner[k] = v}) \in Nat
      BY <2>2, <2>3, FewerRows
    <2>5. NormalizeConcurrent(MaxConcurrent[v]) \in Int
      BY DEF NormalizeConcurrent
    <2> QED
      BY <2>1, <2>4, <2>5
  <1>4. OneClaimPerHash' /\ \A k \in claimed' : status'[k] \in Concurrency
    BY <1>1, <1>2 DEF IInv, OneClaimPerHash, TypeOK
  <1>5. ASSUME NEW s \in Tx
        PROVE  SessionInv(s)'
    <2>1. SessionInv(s)
      BY DEF IInv
    <2>2. pc[s] # "idle" => cand[s] \in JobId
      BY <1>1, <2>1 DEF SessionInv, LocksHeld, TypeOK
    <2>3. SameSession(s) /\ \A r \in Tx : cand'[r] = cand[r]
      BY DEF SameSession, local
    <2>4. CandidateRow(s)'
      BY <1>2, <2>1, <2>2, <2>3 DEF SessionInv, CandidateRow, SameSession
    <2>5. AccountKept(Owner[cand[s]]) /\ HashKept(HashOf[cand[s]])
      BY <1>2 DEF AccountKept, HashKept
    <2>6. userLock' = userLock /\ hashLock' = hashLock
      BY DEF locks
    <2> QED
      BY <1>1, <2>1, <2>3, <2>4, <2>5, <2>6, SessionKept
  <1> QED
    BY <1>3, <1>4, <1>5 DEF IInv

-----------------------------------------------------------------------------
\* Type correctness of the initial state and of every step.
LEMMA TypeInit == Init => TypeOK
  <1> SUFFICES ASSUME Init
               PROVE  TypeOK
    OBVIOUS
  <1>1. (CHOOSE p \in Priority : TRUE) \in Priority
    OBVIOUS
  <1> QED
    BY <1>1 DEF Init, TypeOK, Status, Pc

LEMMA EndType ==
  ASSUME TypeOK, NEW t \in Tx, End(t)
  PROVE  /\ globalLock' \in Tx \cup {NoTx}
         /\ userLock' \in [User -> Tx \cup {NoTx}]
         /\ hashLock' \in [Hash -> Tx \cup {NoTx}]
         /\ pc' \in [Tx -> Pc]
         /\ op' \in [Tx -> {"admit", "readmit", "promote"}]
         /\ cand' \in [Tx -> JobId \cup {NoJob}]
         /\ must' \in [Tx -> BOOLEAN]
         /\ full' \in [Tx -> BOOLEAN]
         /\ passed' \in [Tx -> SUBSET JobId]
  BY DEF TypeOK, End, Goto, Pc

LEMMA BeginType ==
  ASSUME TypeOK, NEW t \in Tx, NEW j \in JobId,
         NEW o \in {"admit", "readmit", "promote"}, Begin(t, o, j)
  PROVE  /\ pc' \in [Tx -> Pc]
         /\ op' \in [Tx -> {"admit", "readmit", "promote"}]
         /\ cand' \in [Tx -> JobId \cup {NoJob}]
         /\ UNCHANGED <<locks, must, full, passed>>
  BY DEF TypeOK, Begin, Goto, Pc

\* A statement that takes a lock or reads.
LEMMA StatementType ==
  ASSUME TypeOK, NEW t \in Tx,
         \/ LockGlobal(t) \/ LockUser(t) \/ LockDownloadHash(t)
         \/ ReadRow(t) \/ ReadLive(t) \/ ReadQueued(t) \/ ReadInflight(t)
         \/ ReadOlder(t) \/ ReadActiveHash(t) \/ ReadBudgetQueue(t) \/ ReadBudgetUsed(t)
  PROVE  TypeOK'
  <1> USE DEF TypeOK, Goto, Pc
  <1>1. CASE LockGlobal(t)
    BY <1>1 DEF LockGlobal, LockAfter, rows
  <1>2. CASE LockUser(t)
    BY <1>2 DEF LockUser, LockAfter, rows
  <1>3. CASE LockDownloadHash(t)
    <2>1. LockAfter(t, "hash") \in {"live", "row"}
      BY DEF LockAfter
    <2> QED
      BY <1>3, <2>1 DEF LockDownloadHash, rows
  <1>4. CASE ReadRow(t)
    BY <1>4, EndType DEF ReadRow, rows, locks
  <1>5. CASE ReadLive(t)
    BY <1>5, EndType DEF ReadLive, rows, locks
  <1>6. CASE ReadQueued(t)
    <2>1. \A x, y : (x > y) \in BOOLEAN
      OBVIOUS
    <2>2. must' \in [Tx -> BOOLEAN] /\ full' \in [Tx -> BOOLEAN]
      BY <1>6, <2>1, Zenon DEF ReadQueued
    <2> QED
      BY <1>6, <2>2 DEF ReadQueued, rows, locks
  <1>7. CASE ReadInflight(t)
    BY <1>7, EndType DEF ReadInflight, rows, locks
  <1>8. CASE ReadOlder(t)
    BY <1>8, EndType DEF ReadOlder, rows, locks, MayPass, QueuedOf
  <1>9. CASE ReadActiveHash(t)
    <2>1. AfterSameHash(t) \in Pc
      BY DEF AfterSameHash
    <2> QED
      BY <1>9, <2>1, EndType DEF ReadActiveHash, rows, locks, ActiveHash
  <1>10. CASE ReadBudgetQueue(t)
    BY <1>10 DEF ReadBudgetQueue, rows, locks, BudgetQueueExists
  <1>11. CASE ReadBudgetUsed(t)
    BY <1>11, EndType DEF ReadBudgetUsed, rows, locks
  <1> QED
    BY <1>1, <1>2, <1>3, <1>4, <1>5, <1>6, <1>7, <1>8, <1>9, <1>10, <1>11

LEMMA WriteType ==
  ASSUME TypeOK, NEW t \in Tx, pc[t] # "idle" => cand[t] \in JobId,
         WriteAdmit(t) \/ WriteReadmit(t) \/ WritePromote(t)
  PROVE  TypeOK'
  <1> USE DEF TypeOK
  <1>1. End(t) /\ cand[t] \in JobId
    BY DEF WriteAdmit, WriteReadmit, WritePromote
  <1>2. {"queued", "pending"} \subseteq Status
    BY DEF Status
  <1>3. CASE WriteAdmit(t)
    <2>1. status' \in [JobId -> Status]
      BY <1>1, <1>2, <1>3 DEF WriteAdmit
    <2>2. claimed' \subseteq JobId /\ UNCHANGED <<created, prio, now>>
      BY <1>1, <1>3 DEF WriteAdmit
    <2> QED
      BY <1>1, <2>1, <2>2, EndType
  <1>4. CASE WriteReadmit(t)
    <2>1. status' \in [JobId -> Status]
      BY <1>1, <1>2, <1>4 DEF WriteReadmit
    <2>2. claimed' \subseteq JobId /\ created' \in [JobId -> Nat] /\ now' \in Nat /\ prio' = prio
      BY <1>1, <1>4 DEF WriteReadmit
    <2> QED
      BY <1>1, <2>1, <2>2, EndType
  <1>5. CASE WritePromote(t)
    BY <1>1, <1>2, <1>5, EndType DEF WritePromote
  <1> QED
    BY <1>3, <1>4, <1>5

\* The single-statement writers.
Writer ==
  \/ \E j \in JobId, s \in {"pending", "downloading", "complete"} : CreateOnce(j, s)
  \/ \E j \in JobId, p \in Priority : SetQueuedPriority(j, p)
  \/ \E j \in JobId, s \in WorkStatus : Work(j, s)
  \/ \E j \in JobId, s \in {"complete", "failed"} : Finish(j, s)
  \/ \E j \in JobId : FailQueued(j) \/ CompleteQueued(j) \/ Evict(j) \/ Delete(j)

LEMMA SetStatusType ==
  ASSUME TypeOK, NEW j \in JobId, NEW from, NEW to \in Status, SetStatus(j, from, to)
  PROVE  TypeOK'
  BY DEF TypeOK, SetStatus, locks, local

LEMMA WriterType ==
  ASSUME TypeOK, Writer
  PROVE  TypeOK'
  <1>1. /\ {"pending", "downloading", "complete", "failed", "evicted", "deleted"} \subseteq Status
        /\ WorkStatus \subseteq Status
    BY DEF Status, LiveWork
  <1>2. ASSUME NEW j \in JobId, NEW s \in {"pending", "downloading", "complete"}, CreateOnce(j, s)
        PROVE  TypeOK'
    BY <1>1, <1>2 DEF CreateOnce, TypeOK, locks, local
  <1>3. ASSUME NEW j \in JobId, NEW p \in Priority, SetQueuedPriority(j, p)
        PROVE  TypeOK'
    BY <1>3 DEF SetQueuedPriority, TypeOK, locks, local
  <1>4. ASSUME NEW j \in JobId, NEW s \in WorkStatus, Work(j, s)
        PROVE  TypeOK'
    BY <1>1, <1>4, SetStatusType DEF Work
  <1>5. ASSUME NEW j \in JobId, NEW s \in {"complete", "failed"}, Finish(j, s)
        PROVE  TypeOK'
    BY <1>1, <1>5, SetStatusType DEF Finish
  <1>6. ASSUME NEW j \in JobId, FailQueued(j) \/ CompleteQueued(j) \/ Evict(j) \/ Delete(j)
        PROVE  TypeOK'
    BY <1>1, <1>6, SetStatusType DEF FailQueued, CompleteQueued, Evict, Delete
  <1> QED
    BY <1>2, <1>3, <1>4, <1>5, <1>6 DEF Writer

-----------------------------------------------------------------------------
(* Every step is one of three kinds, which is all the theorems need to know. *)

\* A transaction commits the row it worked on.
Commit(t, to) ==
  /\ pc[t] = "write" /\ End(t)
  /\ status' = [status EXCEPT ![cand[t]] = to]
  /\ claimed' = IF to = "pending" THEN claimed \cup {cand[t]} ELSE claimed
  /\ to = "pending" => MayStart(t)
  /\ to = "queued" => op[t] # "promote" /\ ~full[t]

\* A single-statement writer changes the status of a row no transaction holds.
RowWrite(j, to) ==
  /\ status' = [status EXCEPT ![j] = to]
  /\ claimed' = IF to \in Concurrency THEN claimed ELSE claimed \ {j}
  /\ to \in Concurrency => status[j] # "queued"
  /\ \A s \in Tx : cand[s] = j => op[s] # "admit" /\ pc[s] \notin AfterRow
  /\ UNCHANGED <<locks, local>>

StepKind ==
  \/ SameRows
  \/ \E t \in Tx, to \in {"queued", "pending"} : Commit(t, to)
  \/ \E j \in JobId, to \in Status \ {"queued", "unborn"} : RowWrite(j, to)

\* The invariant across the writes of the transactions.
LEMMA WriteStep ==
  ASSUME IInv, NEW t \in Tx, WriteAdmit(t) \/ WriteReadmit(t) \/ WritePromote(t)
  PROVE  IInv' /\ StepKind
  <1>1. TypeOK /\ TypeOK'
    <2>1. pc[t] # "idle" => cand[t] \in JobId
      BY Candidate
    <2> QED
      BY <2>1, WriteType DEF IInv
  <1>2. pc[t] = "write" /\ End(t)
    BY DEF WriteAdmit, WriteReadmit, WritePromote
  <1>3. \/ UNCHANGED rows
        \/ Commit(t, "queued")
        \/ Commit(t, "pending")
    <2>1. CASE WriteAdmit(t)
      BY <1>1, <2>1 DEF WriteAdmit, Commit, MayStart, rows
    <2>2. CASE WriteReadmit(t)
      BY <1>1, <2>2 DEF WriteReadmit, Commit, MayStart, rows
    <2>3. CASE WritePromote(t)
      BY <1>1, <2>3 DEF WritePromote, Commit, MayStart
    <2> QED
      BY <2>1, <2>2, <2>3
  <1>4. CASE UNCHANGED rows
    BY <1>1, <1>2, <1>4, Rollback DEF StepKind, SameRows, rows
  <1>5. ASSUME NEW to \in {"queued", "pending"}, Commit(t, to)
        PROVE  IInv' /\ StepKind
    BY <1>1, <1>5, CommitStep DEF Commit, StepKind
  <1> QED
    BY <1>3, <1>4, <1>5

\* The invariant across the writes that take no admission lock.
LEMMA RowWriteInv ==
  ASSUME IInv, TypeOK', NEW j \in JobId, NEW to \in Status \ {"queued", "unborn"},
         RowWrite(j, to)
  PROVE  IInv' /\ StepKind
  <1>1. claimed' \subseteq claimed /\ (j \in claimed' => to \in Concurrency)
    BY DEF RowWrite
  <1> QED
    BY <1>1, RowWriteStep DEF RowWrite, StepKind

LEMMA SetStatusStep ==
  ASSUME IInv, NEW j \in JobId, NEW from, NEW to \in Status \ {"queued", "unborn"},
         SetStatus(j, from, to), "unborn" \notin from,
         to \in Concurrency => "queued" \notin from
  PROVE  IInv' /\ StepKind
  <1> USE LabelSets DEF Labels
  <1>1. TypeOK /\ TypeOK'
    BY SetStatusType DEF IInv
  <1>2. \A s \in Tx : cand[s] = j => op[s] # "admit" /\ pc[s] \notin AfterRow
    <2> SUFFICES ASSUME NEW s \in Tx, cand[s] = j
                 PROVE  op[s] # "admit" /\ pc[s] \notin AfterRow
      OBVIOUS
    <2>1. pc[s] # "idle" /\ SessionInv(s)
      BY DEF IInv, SessionInv, LocksHeld
    <2>2. op[s] # "admit"
      BY <2>1 DEF SetStatus, SessionInv, CandidateRow
    <2>3. op[s] \in {"readmit", "promote"}
      BY <1>1, <2>2 DEF TypeOK
    <2>4. ~RowLocked(j)
      BY DEF SetStatus
    <2> QED
      BY <2>2, <2>3, <2>4 DEF RowLocked, Pc
  <1>3. RowWrite(j, to)
    BY <1>2 DEF SetStatus, RowWrite
  <1> QED
    BY <1>1, <1>3, RowWriteInv

LEMMA WriterStep ==
  ASSUME IInv, Writer
  PROVE  IInv' /\ StepKind
  <1> USE LabelSets DEF Labels
  <1>0. TypeOK /\ TypeOK'
    BY WriterType DEF IInv
  <1>1. ASSUME NEW j \in JobId, NEW s \in {"pending", "downloading", "complete"}, CreateOnce(j, s)
        PROVE  IInv' /\ StepKind
    <2>1. j \notin claimed /\ status[j] = "unborn" /\ s \in Status \ {"queued", "unborn"}
      BY <1>1 DEF IInv, CreateOnce, Concurrency, LiveWork, Status
    <2>2. RowWrite(j, s)
      BY <1>1, <2>1 DEF CreateOnce, RowWrite
    <2> QED
      BY <1>0, <2>1, <2>2, RowWriteInv
  <1>2. ASSUME NEW j \in JobId, NEW p \in Priority, SetQueuedPriority(j, p)
        PROVE  IInv' /\ StepKind
    <2>1. SameRows /\ UNCHANGED <<locks, local>>
      BY <1>2 DEF SetQueuedPriority, SameRows
    <2>2. RowInv'
      BY <2>1 DEF IInv, RowInv, SameRows, SlotCap, OneClaimPerHash
    <2>3. ASSUME NEW s \in Tx
          PROVE  SessionInv(s)'
      <3>1. SameSession(s) /\ SessionInv(s) /\ CandidateRow(s)'
        BY <2>1 DEF SameSession, local, IInv, SessionInv, CandidateRow, SameRows
      <3>2. AccountKept(Owner[cand[s]]) /\ HashKept(HashOf[cand[s]])
        BY <2>1 DEF AccountKept, HashKept, SameRows
      <3>3. userLock' = userLock /\ hashLock' = hashLock
        BY <2>1 DEF locks
      <3> QED
        BY <1>0, <3>1, <3>2, <3>3, SessionKept
    <2> QED
      BY <1>0, <2>1, <2>2, <2>3 DEF IInv, RowInv, StepKind
  <1>3. ASSUME NEW j \in JobId, NEW s \in WorkStatus, Work(j, s)
        PROVE  IInv' /\ StepKind
    <2>1. s \in Status \ {"queued", "unborn"} /\ "unborn" \notin Concurrency /\ "queued" \notin Concurrency
      BY DEF Status, LiveWork, Concurrency
    <2> QED
      BY <1>3, <2>1, SetStatusStep DEF Work
  <1>4. ASSUME NEW j \in JobId, NEW s \in {"complete", "failed"}, Finish(j, s)
        PROVE  IInv' /\ StepKind
    <2>1. s \in Status \ {"queued", "unborn"} /\ "unborn" \notin Concurrency /\ "queued" \notin Concurrency
      BY DEF Status, LiveWork, Concurrency
    <2> QED
      BY <1>4, <2>1, SetStatusStep DEF Finish
  <1>5. ASSUME NEW j \in JobId, FailQueued(j) \/ CompleteQueued(j) \/ Evict(j) \/ Delete(j)
        PROVE  IInv' /\ StepKind
    <2>1. \A to \in {"failed", "complete", "evicted", "deleted"} :
            to \in Status \ {"queued", "unborn"} /\ to \notin Concurrency
      BY DEF Status, LiveWork, Concurrency
    <2>2. /\ "unborn" \notin {"queued"} /\ "unborn" \notin Concurrency \cup {"complete"}
          /\ "unborn" \notin Status \ Absent
      BY DEF Absent, Concurrency, LiveWork
    <2> QED
      BY <1>5, <2>1, <2>2, SetStatusStep DEF FailQueued, CompleteQueued, Evict, Delete
  <1> QED
    BY <1>1, <1>2, <1>3, <1>4, <1>5 DEF Writer

-----------------------------------------------------------------------------
\* The invariant across every step, and the kind of step it was.
LEMMA NextStep ==
  ASSUME IInv, Next
  PROVE  IInv' /\ StepKind
  <1> USE DEF StepKind
  <1>0. TypeOK
    BY DEF IInv
  <1>1. ASSUME NEW t \in ApiTx, NEW j \in JobId, NEW p \in Priority, BeginAdmit(t, j, p)
        PROVE  IInv' /\ StepKind
    <2>1. t \in Tx /\ Begin(t, "admit", j) /\ SameRows
      BY <1>1 DEF BeginAdmit, SameRows, Tx
    <2>2. TypeOK'
      BY <1>0, <1>1, <2>1, BeginType DEF BeginAdmit, TypeOK, locks
    <2> QED
      BY <1>1, <2>1, <2>2, BeginStep DEF BeginAdmit
  <1>2. ASSUME NEW t \in ApiTx, NEW j \in JobId, BeginReadmit(t, j)
        PROVE  IInv' /\ StepKind
    <2>1. t \in Tx /\ Begin(t, "readmit", j) /\ SameRows
      BY <1>2 DEF BeginReadmit, SameRows, Tx, rows
    <2>2. TypeOK'
      BY <1>0, <1>2, <2>1, BeginType DEF BeginReadmit, TypeOK, locks, rows
    <2>3. status[j] # "unborn"
      BY <1>2 DEF BeginReadmit, Dead
    <2> QED
      BY <2>1, <2>2, <2>3, BeginStep
  <1>3. ASSUME NEW t \in SchedTx, NEW j \in JobId, BeginPromote(t, j)
        PROVE  IInv' /\ StepKind
    <2>1. t \in Tx /\ Begin(t, "promote", j) /\ SameRows
      BY <1>3 DEF BeginPromote, SameRows, Tx, rows
    <2>2. TypeOK'
      BY <1>0, <1>3, <2>1, BeginType DEF BeginPromote, TypeOK, locks, rows
    <2>3. status[j] # "unborn"
      BY <1>3 DEF BeginPromote
    <2> QED
      BY <2>1, <2>2, <2>3, BeginStep
  <1>4. ASSUME NEW t \in Tx, Statement(t)
        PROVE  IInv' /\ StepKind
    <2>1. CASE WriteAdmit(t) \/ WriteReadmit(t) \/ WritePromote(t)
      BY <2>1, WriteStep
    <2>2. CASE \/ LockGlobal(t) \/ LockUser(t) \/ LockDownloadHash(t)
               \/ ReadRow(t) \/ ReadLive(t) \/ ReadQueued(t) \/ ReadInflight(t)
               \/ ReadOlder(t) \/ ReadActiveHash(t) \/ ReadBudgetQueue(t) \/ ReadBudgetUsed(t)
      <3>1. TypeOK'
        BY <1>0, <2>2, StatementType
      <3>2. SameRows
        BY <2>2 DEF SameRows, rows, LockGlobal, LockUser, LockDownloadHash, ReadRow, ReadLive,
                    ReadQueued, ReadInflight, ReadOlder, ReadActiveHash, ReadBudgetQueue,
                    ReadBudgetUsed
      <3>3. IInv'
        BY <2>2, <3>1, LockStep, ReadRowStep, ReadLiveStep, ReadQueuedStep, ReadInflightStep,
           ReadOlderStep, ReadActiveHashStep, ReadBudgetStep
      <3> QED
        BY <3>2, <3>3
    <2> QED
      BY <1>4, <2>1, <2>2 DEF Statement
  <1>5. CASE Writer
    BY <1>5, WriterStep
  <1> QED
    BY <1>1, <1>2, <1>3, <1>4, <1>5 DEF Next, Writer

LEMMA InvInit == Init => IInv
  <1> SUFFICES ASSUME Init
               PROVE  IInv
    OBVIOUS
  <1>1. TypeOK
    BY TypeInit
  <1>2. SlotCap
    <2> SUFFICES ASSUME NEW u \in User
                 PROVE  Cardinality({j \in claimed : Owner[j] = u})
                          <= NormalizeConcurrent(MaxConcurrent[u])
      BY DEF SlotCap
    <2>1. {j \in claimed : Owner[j] = u} = {}
      BY DEF Init
    <2>2. Cardinality({}) = 0
      BY FS_EmptySet
    <2> QED
      BY <2>1, <2>2 DEF NormalizeConcurrent
  <1>3. \A t \in Tx : SessionInv(t)
    BY LabelSets DEF Labels, Init, SessionInv, LocksHeld, CandidateRow, ReadsStillHold
  <1> QED
    BY <1>1, <1>2, <1>3 DEF Init, IInv, OneClaimPerHash

LEMMA InvStutter ==
  ASSUME IInv, UNCHANGED vars
  PROVE  IInv' /\ SameRows
  <1>1. UNCHANGED <<rows, locks, local>> /\ SameRows
    BY DEF vars, rows, SameRows
  <1>2. TypeOK' /\ RowInv'
    BY <1>1 DEF IInv, TypeOK, rows, locks, local, RowInv, SlotCap, OneClaimPerHash
  <1>3. ASSUME NEW s \in Tx
        PROVE  SessionInv(s)'
    <2>1. SameSession(s) /\ SessionInv(s) /\ CandidateRow(s)'
      BY <1>1 DEF SameSession, local, IInv, SessionInv, CandidateRow, SameRows
    <2>2. AccountKept(Owner[cand[s]]) /\ HashKept(HashOf[cand[s]])
      BY <1>1 DEF AccountKept, HashKept, SameRows
    <2>3. userLock' = userLock /\ hashLock' = hashLock
      BY <1>1 DEF locks
    <2> QED
      BY <1>2, <2>1, <2>2, <2>3, SessionKept DEF IInv
  <1> QED
    BY <1>1, <1>2, <1>3 DEF IInv, RowInv

-----------------------------------------------------------------------------
\* What every transaction has read under its locks stays true until it commits,
\* for any number of sessions, accounts, contents and rows (Admit, Readmit and
\* PromoteQueued of queue.go).
THEOREM Invariant == Spec => []IInv
  <1>1. IInv /\ [Next]_vars => IInv'
    BY NextStep, InvStutter
  <1> QED
    BY InvInit, <1>1, PTL DEF Spec

\* Type correctness.
THEOREM TypeCorrect == Spec => []TypeOK
  BY Invariant, PTL DEF IInv

\* No account ever has more claimed jobs than its plan's slots.
THEOREM SlotCapHolds == Spec => []SlotCap
  BY Invariant, PTL DEF IInv

\* No two claimed jobs download the same content.
THEOREM OneClaimPerHashHolds == Spec => []OneClaimPerHash
  BY Invariant, PTL DEF IInv

-----------------------------------------------------------------------------
\* What is true of the slot, the content and the queue at the commit itself.
LEMMA CommitFacts ==
  ASSUME IInv, NEW t \in Tx, NEW to \in {"queued", "pending"}, Commit(t, to)
  PROVE  /\ cand[t] \in JobId /\ cand[t] \notin claimed
         /\ status[cand[t]] = "queued" <=> op[t] = "promote"
         /\ to = "pending" =>
              /\ Cardinality(ClaimedOf(Owner[cand[t]]))
                   < NormalizeConcurrent(MaxConcurrent[Owner[cand[t]]])
              /\ \A k \in claimed : HashOf[k] # HashOf[cand[t]]
              /\ op[t] # "promote" => QueuedOf(Owner[cand[t]], {cand[t]}) = {}
         /\ to = "queued" /\ MaxQueued > 0 =>
              Cardinality(QueuedOf(Owner[cand[t]], {cand[t]})) < MaxQueued
  <1> USE LabelSets DEF Labels
  <1>1. SessionInv(t) /\ TypeOK /\ pc[t] = "write"
    BY DEF IInv, Commit
  <1>2. cand[t] \in JobId /\ cand[t] \notin claimed
    BY <1>1, Candidate, CandidateNotClaimed
  <1>3. status[cand[t]] = "queued" <=> op[t] = "promote"
    BY <1>1, <1>2 DEF SessionInv, CandidateRow, TypeOK, Dead
  <1>4. to = "pending" =>
              /\ Cardinality(ClaimedOf(Owner[cand[t]]))
                   < NormalizeConcurrent(MaxConcurrent[Owner[cand[t]]])
              /\ \A k \in claimed : HashOf[k] # HashOf[cand[t]]
              /\ op[t] # "promote" => QueuedOf(Owner[cand[t]], {cand[t]}) = {}
    BY <1>1 DEF SessionInv, ReadsStillHold, Commit, MayStart
  <1>5. to = "queued" /\ MaxQueued > 0 =>
              Cardinality(QueuedOf(Owner[cand[t]], {cand[t]})) < MaxQueued
    BY <1>1 DEF SessionInv, ReadsStillHold, Commit
  <1> QED
    BY <1>2, <1>3, <1>4, <1>5

\* A new or retried job never starts past a queued job of its account.
THEOREM NoBypassHolds == Spec => NoBypass
  <1>1. ASSUME IInv, StepKind, NEW j \in claimed' \ claimed, status[j] # "queued"
        PROVE  QueuedOf(Owner[j], {j}) = {}
    <2>1. PICK t \in Tx, to \in {"queued", "pending"} : Commit(t, to)
      BY <1>1 DEF StepKind, SameRows, RowWrite
    <2>2. to = "pending" /\ j = cand[t]
      BY <1>1, <2>1 DEF Commit
    <2> QED
      BY <1>1, <2>1, <2>2, CommitFacts
  <1>2. IInv /\ [Next]_vars =>
          [\A j \in claimed' \ claimed : status[j] # "queued" => QueuedOf(Owner[j], {j}) = {}]_vars
    BY <1>1, NextStep
  <1> QED
    BY Invariant, <1>2, PTL DEF Spec, NoBypass

\* The rows the slot pool sees.
Waiting == {j \in JobId : status[j] = "queued"}

\* The instance counts as the module does.
LEMMA PoolCounts == \A S : Pool!Cardinality(S) = Cardinality(S)
  BY DEF Pool!Cardinality, Cardinality

LEMMA PoolCommit ==
  ASSUME IInv, NEW t \in Tx, NEW to \in {"queued", "pending"}, Commit(t, to)
  PROVE  Pool!Next
  <1>1. PICK j \in JobId : j = cand[t]
    BY CommitFacts
  <1>2. PICK u \in User : u = Owner[j]
    OBVIOUS
  <1>3. TypeOK
    BY DEF IInv
  <1>4. Pool!Of(Waiting, u) \ {j} = QueuedOf(u, {j})
    BY DEF Pool!Of, QueuedOf, Waiting
  <1>5. CASE to = "pending"
    <2>1. claimed' = claimed \cup {j} /\ Waiting' = Waiting \ {j}
      BY <1>1, <1>3, <1>5 DEF Commit, Waiting, TypeOK
    <2>2. j \notin claimed /\ \A k \in claimed : HashOf[k] # HashOf[j]
      BY <1>1, <1>5, CommitFacts
    <2>3. Cardinality(Pool!Of(claimed, u)) < Pool!Slots(u)
      <3>1. Pool!Of(claimed, u) = ClaimedOf(u) /\ Pool!Slots(u) = NormalizeConcurrent(MaxConcurrent[u])
        BY DEF Pool!Of, ClaimedOf, Pool!Slots, NormalizeConcurrent
      <3>2. Cardinality(ClaimedOf(u)) < NormalizeConcurrent(MaxConcurrent[u])
        BY <1>1, <1>2, <1>5, CommitFacts
      <3> QED
        BY <3>1, <3>2
    <2>4. j \in Waiting \/ Pool!Of(Waiting, u) = {}
      <3>1. CASE op[t] = "promote"
        BY <1>1, <3>1, CommitFacts DEF Waiting
      <3>2. CASE op[t] # "promote"
        <4>1. QueuedOf(u, {j}) = {} /\ j \notin Waiting
          BY <1>1, <1>2, <1>5, <3>2, CommitFacts DEF Waiting
        <4> QED
          BY <1>4, <4>1 DEF Pool!Of
      <3> QED
        BY <3>1, <3>2
    <2>5. Pool!Start(j)
      BY <1>2, <2>1, <2>2, <2>3, <2>4, PoolCounts DEF Pool!Start, Waiting
    <2> QED
      BY <2>5 DEF Pool!Next
  <1>6. CASE to = "queued"
    <2>1. claimed' = claimed /\ Waiting' = Waiting \cup {j}
      BY <1>1, <1>3, <1>6 DEF Commit, Waiting, TypeOK
    <2>2. j \notin claimed \cup Waiting
      BY <1>1, <1>6, CommitFacts DEF Commit, Waiting
    <2>3. MaxQueued > 0 => Cardinality(Pool!Of(Waiting, u)) < MaxQueued
      <3>1. Pool!Of(Waiting, u) = QueuedOf(u, {j})
        BY <1>4, <2>2 DEF Pool!Of
      <3> QED
        BY <1>1, <1>2, <1>6, <3>1, CommitFacts
    <2>4. Pool!Enqueue(j)
      BY <1>2, <2>1, <2>2, <2>3, PoolCounts DEF Pool!Enqueue, Waiting
    <2> QED
      BY <2>4 DEF Pool!Next
  <1> QED
    BY <1>5, <1>6

LEMMA PoolStep ==
  ASSUME IInv, StepKind
  PROVE  Pool!Next \/ UNCHANGED <<claimed, Waiting>>
  <1>1. CASE SameRows
    BY <1>1 DEF SameRows, Waiting
  <1>2. ASSUME NEW t \in Tx, NEW to \in {"queued", "pending"}, Commit(t, to)
        PROVE  Pool!Next
    BY <1>2, PoolCommit
  <1>3. ASSUME NEW j \in JobId, NEW to \in Status \ {"queued", "unborn"}, RowWrite(j, to)
        PROVE  Pool!Next \/ UNCHANGED <<claimed, Waiting>>
    <2>1. Waiting' = Waiting \ {j}
      BY <1>3 DEF RowWrite, Waiting, IInv, TypeOK
    <2>2. CASE to \in Concurrency
      BY <1>3, <2>1, <2>2 DEF RowWrite, Waiting
    <2>3. CASE to \notin Concurrency
      <3>1. Pool!Leave(j)
        BY <1>3, <2>1, <2>3 DEF RowWrite, Pool!Leave, Waiting
      <3> QED
        BY <3>1 DEF Pool!Next
    <2> QED
      BY <2>2, <2>3
  <1> QED
    BY <1>1, <1>2, <1>3 DEF StepKind

\* The queue of statements and locks implements the slot pool: every commit is one
\* of its steps and everything else leaves it alone.
THEOREM ImplementsPool == Spec => PoolSpec
  <1>1. Init => Pool!Init
    BY DEF Init, Pool!Init
  <1>2. IInv /\ [Next]_vars => [Pool!Next]_<<claimed, {j \in JobId : status[j] = "queued"}>>
    BY NextStep, InvStutter, PoolStep DEF SameRows, Waiting
  <1> QED
    BY Invariant, <1>1, <1>2, PTL DEF Spec, PoolSpec, Pool!Spec

-----------------------------------------------------------------------------
(* Deadlock freedom: locks are held only by sessions past the statement      *)
(* that takes them, and that statement's place in the order bounds what the  *)
(* holder can still wait for.                                               *)

LockOwners ==
  \A t \in Tx :
    /\ globalLock = t => pc[t] \in {"user"} \cup AfterUser
    /\ \A u \in User : userLock[u] = t => pc[t] \in AfterUser
    /\ \A h \in Hash : hashLock[h] = t => pc[t] \in AfterHash

\* The statements that move on under the locks the session has.
LEMMA OwnersUnderLock ==
  ASSUME LockOwners, NEW t \in Tx, UNCHANGED locks,
         pc[t] \in AfterHash => pc'[t] \in AfterHash,
         pc[t] \in AfterHash \cup {"idle"},
         \A s \in Tx \ {t} : pc'[s] = pc[s]
  PROVE  LockOwners'
  BY LabelSets DEF Labels, LockOwners, locks

LEMMA OwnersEnd ==
  ASSUME TypeOK, LockOwners, NEW t \in Tx, End(t)
  PROVE  LockOwners'
  <1>1. /\ \A s \in Tx \ {t} : pc'[s] = pc[s]
        /\ globalLock' # t /\ (globalLock' \in {NoTx, globalLock})
        /\ \A u \in User : userLock'[u] # t /\ userLock'[u] \in {NoTx, userLock[u]}
        /\ \A h \in Hash : hashLock'[h] # t /\ hashLock'[h] \in {NoTx, hashLock[h]}
    BY DEF End, Goto, TypeOK, Tx
  <1> QED
    BY <1>1 DEF LockOwners, Tx

LEMMA OwnersStep ==
  ASSUME TypeOK, LockOwners, Next
  PROVE  LockOwners'
  <1> USE LabelSets DEF Labels
  <1>1. ASSUME NEW t \in Tx, NEW j \in JobId, NEW o, Begin(t, o, j)
        PROVE  LockOwners'
    BY <1>1, OwnersUnderLock DEF Begin, Goto, TypeOK
  <1>2. ASSUME NEW t \in Tx, LockGlobal(t) \/ LockUser(t) \/ LockDownloadHash(t)
        PROVE  LockOwners'
    <2>1. \A s \in Tx \ {t} : pc'[s] = pc[s]
      BY <1>2 DEF LockGlobal, LockUser, LockDownloadHash, Goto, TypeOK
    <2>2. CASE LockGlobal(t)
      BY <2>1, <2>2 DEF LockGlobal, Goto, LockAfter, TypeOK, LockOwners
    <2>3. CASE LockUser(t)
      <3>1. /\ pc[t] = "user" /\ pc'[t] = "hash"
            /\ \A u \in User : userLock'[u] \in {t, userLock[u]}
            /\ globalLock' = globalLock /\ hashLock' = hashLock
        BY <2>3 DEF LockUser, Goto, LockAfter, TypeOK
      <3> QED
        BY <2>1, <3>1 DEF LockOwners
    <2>4. CASE LockDownloadHash(t)
      <3>1. /\ pc[t] = "hash" /\ pc'[t] \in {"live", "row"}
            /\ \A h \in Hash : hashLock'[h] \in {t, hashLock[h]}
            /\ globalLock' = globalLock /\ userLock' = userLock
        BY <2>4 DEF LockDownloadHash, Goto, LockAfter, TypeOK
      <3> QED
        BY <2>1, <3>1 DEF LockOwners
    <2> QED
      BY <1>2, <2>2, <2>3, <2>4
  <1>3. ASSUME NEW t \in Tx,
               \/ ReadRow(t) \/ ReadLive(t) \/ ReadQueued(t) \/ ReadInflight(t)
               \/ ReadOlder(t) \/ ReadActiveHash(t) \/ ReadBudgetQueue(t) \/ ReadBudgetUsed(t)
        PROVE  LockOwners'
    <2>1. CASE End(t)
      BY <2>1, OwnersEnd
    <2>2. CASE ~End(t)
      <3>1. /\ UNCHANGED locks /\ pc[t] \in AfterHash /\ pc'[t] \in AfterHash
            /\ \A s \in Tx \ {t} : pc'[s] = pc[s]
        BY <1>3, <2>2 DEF ReadRow, ReadLive, ReadQueued, ReadInflight, ReadOlder, ReadActiveHash,
                          ReadBudgetQueue, ReadBudgetUsed, AfterSameHash, Goto, TypeOK, locks
      <3> QED
        BY <3>1, OwnersUnderLock
    <2> QED
      BY <2>1, <2>2
  <1>4. ASSUME NEW t \in Tx, WriteAdmit(t) \/ WriteReadmit(t) \/ WritePromote(t)
        PROVE  LockOwners'
    BY <1>4, OwnersEnd DEF WriteAdmit, WriteReadmit, WritePromote
  <1>5. CASE Writer
    <2>1. UNCHANGED <<locks, local>>
      BY <1>5 DEF Writer, CreateOnce, SetQueuedPriority, Work, Finish, FailQueued, CompleteQueued, Evict, Delete,
                  SetStatus
    <2> QED
      BY <2>1 DEF LockOwners, locks, local
  <1>6. ASSUME NEW t \in Tx, Statement(t)
        PROVE  LockOwners'
    BY <1>2, <1>3, <1>4, <1>6 DEF Statement
  <1> QED
    BY <1>1, <1>5, <1>6 DEF Next, Writer, BeginAdmit, BeginReadmit, BeginPromote, Tx

\* Whoever holds a lock waits for nothing taken before it, so in every set of
\* sessions the one holding the latest lock waits for none of the set.
LEMMA OrderBreaksCycles ==
  ASSUME IInv, LockOwners, NEW S \in (SUBSET Tx) \ {{}}
  PROVE  \E t \in S : \A s \in S : ~WaitsFor(t, s)
  <1> USE LabelSets DEF Labels
  <1>1. ASSUME NEW t \in S, NEW s \in S, WaitsFor(t, s)
        PROVE  \/ pc[t] = "global" /\ pc[s] # "global"
               \/ pc[t] = "user" /\ pc[s] \notin {"global", "user"}
               \/ pc[t] = "hash" /\ pc[s] \notin {"global", "user", "hash"}
    <2>1. pc[t] # "idle" => Owner[cand[t]] \in User /\ HashOf[cand[t]] \in Hash
      BY Candidate
    <2> QED
      BY <1>1, <2>1 DEF WaitsFor, LockOwners
  <1>2. CASE \E t \in S : pc[t] \notin {"global", "user", "hash"}
    BY <1>1, <1>2
  <1>3. CASE \A t \in S : pc[t] \in {"global", "user", "hash"}
    <2>1. CASE \E t \in S : pc[t] = "hash"
      BY <1>1, <1>3, <2>1
    <2>2. CASE ~(\E t \in S : pc[t] = "hash") /\ \E t \in S : pc[t] = "user"
      BY <1>1, <1>3, <2>2
    <2>3. CASE \A t \in S : pc[t] = "global"
      BY <1>1, <2>3
    <2> QED
      BY <1>3, <2>1, <2>2, <2>3
  <1> QED
    BY <1>2, <1>3

\* No group of sessions ever waits for itself, whatever their number.
THEOREM NoLockCycleHolds == Spec => []NoLockCycle
  <1>1. Init => LockOwners
    BY DEF Init, LockOwners, Tx
  <1>2. TypeOK /\ LockOwners /\ [Next]_vars => LockOwners'
    <2>1. ASSUME LockOwners, UNCHANGED vars
          PROVE  LockOwners'
      BY <2>1 DEF LockOwners, vars, locks, local
    <2> QED
      BY <2>1, OwnersStep
  <1>3. IInv /\ LockOwners => NoLockCycle
    BY OrderBreaksCycles DEF NoLockCycle
  <1> QED
    BY Invariant, TypeCorrect, <1>1, <1>2, <1>3, PTL DEF Spec

-----------------------------------------------------------------------------
(* The unique index: what ReadLive has found under the account's lock stays  *)
(* true, because whoever makes a row of the account live holds that lock.    *)

AfterLive == AfterRow \ {"live"}

IdentityHolds(t) ==
  pc[t] \in AfterLive /\ op[t] # "promote" => LiveAccountJobs(cand[t]) \subseteq {cand[t]}

\* No row of account u comes to life.
NoneRevived(u) == \A k \in JobId : Owner[k] = u /\ LiveIdentity(k)' => LiveIdentity(k)

LEMMA IdentityKept ==
  ASSUME IInv, NEW t \in Tx, IdentityHolds(t), pc'[t] = pc[t], op'[t] = op[t], cand'[t] = cand[t],
         pc[t] \in AfterLive => NoneRevived(Owner[cand[t]])
  PROVE  IdentityHolds(t)'
  BY DEF IdentityHolds, LiveAccountJobs, NoneRevived

\* Sessions that hold an account's lock past ReadLive hold it alone.
LEMMA AloneInAccount ==
  ASSUME IInv, NEW t \in Tx, pc[t] \in AfterLive
  PROVE  cand[t] \in JobId /\ Owner[cand[t]] \in User /\ userLock[Owner[cand[t]]] = t
  <1>1. SessionInv(t) /\ TypeOK /\ pc[t] # "idle" /\ pc[t] \in AfterUser
    BY LabelSets DEF Labels, IInv, AfterLive
  <1> QED
    BY <1>1, Candidate DEF SessionInv, LocksHeld

\* A session's own step: it comes past ReadLive by reading that there is no other live row.
LEMMA IdentityRead ==
  ASSUME IInv, NEW t \in Tx, IdentityHolds(t),
         \/ LockGlobal(t) \/ LockUser(t) \/ LockDownloadHash(t)
         \/ ReadRow(t) \/ ReadLive(t) \/ ReadQueued(t) \/ ReadInflight(t)
         \/ ReadOlder(t) \/ ReadActiveHash(t) \/ ReadBudgetQueue(t) \/ ReadBudgetUsed(t)
  PROVE  IdentityHolds(t)' /\ status' = status
         /\ \A s \in Tx \ {t} : pc'[s] = pc[s] /\ op'[s] = op[s] /\ cand'[s] = cand[s]
  <1> USE LabelSets DEF Labels, AfterLive
  <1>0. TypeOK
    BY DEF IInv
  <1>1. status' = status
    BY DEF rows, LockGlobal, LockUser, LockDownloadHash, ReadRow, ReadLive, ReadQueued, ReadInflight,
           ReadOlder, ReadActiveHash, ReadBudgetQueue, ReadBudgetUsed
  <1>2. \A s \in Tx \ {t} : pc'[s] = pc[s] /\ op'[s] = op[s] /\ cand'[s] = cand[s]
    BY <1>0 DEF LockGlobal, LockUser, LockDownloadHash, ReadRow, ReadLive, ReadQueued, ReadInflight,
                ReadOlder, ReadActiveHash, ReadBudgetQueue, ReadBudgetUsed, End, Goto, TypeOK
  <1>3. IdentityHolds(t)'
    <2>1. CASE End(t)
      BY <1>0, <2>1 DEF End, Goto, TypeOK, IdentityHolds
    <2>2. CASE ~End(t)
      <3>1. op'[t] = op[t] /\ cand'[t] = cand[t]
        BY <2>2 DEF LockGlobal, LockUser, LockDownloadHash, ReadRow, ReadLive, ReadQueued, ReadInflight,
                    ReadOlder, ReadActiveHash, ReadBudgetQueue, ReadBudgetUsed
      <3>2. \/ pc'[t] \notin AfterLive
            \/ pc[t] \in AfterLive
            \/ op[t] = "promote"
            \/ LiveAccountJobs(cand[t]) \ {cand[t]} = {}
        BY <1>0, <2>2 DEF LockGlobal, LockUser, LockDownloadHash, ReadRow, ReadLive, ReadQueued,
             ReadInflight, ReadOlder, ReadActiveHash, ReadBudgetQueue, ReadBudgetUsed, LockAfter, Goto, TypeOK
      <3>3. LiveAccountJobs(cand[t])' = LiveAccountJobs(cand[t])
        BY <1>1, <3>1 DEF LiveAccountJobs, LiveIdentity
      <3> QED
        BY <3>1, <3>2, <3>3 DEF IdentityHolds
    <2> QED
      BY <2>1, <2>2
  <1> QED
    BY <1>1, <1>2, <1>3

\* The rows a writer outside the transactions brings to life are of accounts nobody has locked.
LEMMA WriterRevives ==
  ASSUME IInv, Writer, NEW t \in Tx, pc[t] \in AfterLive
  PROVE  NoneRevived(Owner[cand[t]])
  <1>0. TypeOK
    BY DEF IInv
  <1>1. ASSUME NEW j \in JobId, NEW from, NEW to, SetStatus(j, from, to),
               status[j] \notin Absent \cup Dead \/ to \in Absent \cup Dead
        PROVE  NoneRevived(Owner[cand[t]])
    BY <1>0, <1>1 DEF SetStatus, NoneRevived, LiveIdentity, TypeOK
  <1>2. ASSUME NEW j \in JobId, NEW s, CreateOnce(j, s) PROVE NoneRevived(Owner[cand[t]])
    <2>1. Owner[j] \in Accountless \/ userLock[Owner[j]] = NoTx
      BY <1>2 DEF CreateOnce
    <2>2. NoTx \notin Tx
      BY DEF Tx
    <2>3. Owner[j] \in Accountless \/ Owner[j] # Owner[cand[t]]
      BY <2>1, <2>2, AloneInAccount
    <2> QED
      BY <1>0, <1>2, <2>3 DEF CreateOnce, NoneRevived, LiveIdentity, TypeOK
  <1>3. ASSUME NEW j \in JobId, NEW p \in Priority, SetQueuedPriority(j, p)
        PROVE  NoneRevived(Owner[cand[t]])
    BY <1>3 DEF SetQueuedPriority, NoneRevived, LiveIdentity
  <1>4. ASSUME NEW j \in JobId, FailQueued(j) \/ CompleteQueued(j) \/ Evict(j) \/ Delete(j)
        PROVE  NoneRevived(Owner[cand[t]])
    <2>1. \E from \in {{"queued"}, Concurrency \cup {"complete"}, Status \ Absent},
              to \in {"failed", "complete", "evicted", "deleted"} :
            SetStatus(j, from, to) /\ (to = "complete" => from = {"queued"})
      BY <1>4 DEF FailQueued, CompleteQueued, Evict, Delete
    <2> QED
      BY <1>1, <2>1 DEF SetStatus, Absent, Dead
  <1>5. ASSUME NEW j \in JobId, NEW s, Work(j, s) \/ Finish(j, s) PROVE NoneRevived(Owner[cand[t]])
    <2>1. SetStatus(j, Concurrency, s)
      BY <1>5 DEF Work, Finish
    <2>2. status[j] \notin Absent \cup Dead
      BY <2>1 DEF SetStatus, Concurrency, LiveWork, Absent, Dead
    <2> QED
      BY <1>1, <2>1, <2>2
  <1> QED
    BY <1>2, <1>3, <1>4, <1>5 DEF Writer

LEMMA IdentityStep ==
  ASSUME IInv, \A t \in Tx : IdentityHolds(t), Next
  PROVE  \A t \in Tx : IdentityHolds(t)'
  <1> SUFFICES ASSUME NEW s \in Tx PROVE IdentityHolds(s)'
    OBVIOUS
  <1>0. TypeOK
    BY DEF IInv
  <1>1. ASSUME NEW t \in Tx, NEW j \in JobId, NEW o, Begin(t, o, j), status' = status
        PROVE  IdentityHolds(s)'
    <2>1. CASE s = t
      BY <1>0, <1>1, <2>1, LabelSets DEF Labels, AfterLive, Begin, Goto, TypeOK, IdentityHolds
    <2>2. CASE s # t
      BY <1>0, <1>1, <2>2, IdentityKept DEF Begin, Goto, TypeOK, NoneRevived, LiveIdentity
    <2> QED
      BY <2>1, <2>2
  <1>2. ASSUME NEW t \in Tx,
               \/ LockGlobal(t) \/ LockUser(t) \/ LockDownloadHash(t)
               \/ ReadRow(t) \/ ReadLive(t) \/ ReadQueued(t) \/ ReadInflight(t)
               \/ ReadOlder(t) \/ ReadActiveHash(t) \/ ReadBudgetQueue(t) \/ ReadBudgetUsed(t)
        PROVE  IdentityHolds(s)'
    <2>1. IdentityHolds(t)' /\ status' = status
          /\ (s # t => pc'[s] = pc[s] /\ op'[s] = op[s] /\ cand'[s] = cand[s])
      BY <1>2, IdentityRead
    <2> QED
      BY <2>1, IdentityKept DEF NoneRevived, LiveIdentity
  <1>3. ASSUME NEW t \in Tx, WriteAdmit(t) \/ WriteReadmit(t) \/ WritePromote(t)
        PROVE  IdentityHolds(s)'
    <2>1. /\ End(t) /\ pc[t] = "write"
          /\ \A k \in JobId \ {cand[t]} : status'[k] = status[k]
      BY <1>0, <1>3 DEF WriteAdmit, WriteReadmit, WritePromote, TypeOK
    <2>2. CASE s = t
      BY <1>0, <2>1, <2>2, LabelSets DEF Labels, AfterLive, End, Goto, TypeOK, IdentityHolds
    <2>3. CASE s # t
      <3>1. pc[t] \in AfterLive
        BY <2>1, LabelSets DEF Labels, AfterLive
      <3>2. pc[s] \in AfterLive => Owner[cand[s]] # Owner[cand[t]]
        BY <2>3, <3>1, AloneInAccount
      <3>3. pc[s] \in AfterLive => NoneRevived(Owner[cand[s]])
        BY <2>1, <3>2 DEF NoneRevived, LiveIdentity
      <3>4. pc'[s] = pc[s] /\ op'[s] = op[s] /\ cand'[s] = cand[s]
        BY <1>0, <2>1, <2>3 DEF End, Goto, TypeOK
      <3> QED
        BY <3>3, <3>4, IdentityKept
    <2> QED
      BY <2>2, <2>3
  <1>4. CASE Writer
    <2>1. UNCHANGED local
      BY <1>4 DEF Writer, CreateOnce, SetQueuedPriority, Work, Finish, FailQueued, CompleteQueued, Evict,
                  Delete, SetStatus
    <2> QED
      BY <1>4, <2>1, WriterRevives, IdentityKept DEF local
  <1>5. ASSUME NEW t \in Tx, Statement(t) PROVE IdentityHolds(s)'
    BY <1>2, <1>3, <1>5 DEF Statement
  <1> QED
    BY <1>1, <1>4, <1>5 DEF Next, Writer, BeginAdmit, BeginReadmit, BeginPromote, Tx, rows

\* The unique index on (user_id, lower(info_hash)) never refuses the write of an Admit or a
\* Readmit, which has no answer to a refusal (queue.go): no other live row of the account
\* comes to be between its look and its write.
THEOREM NoIndexConflictHolds == Spec => []NoIndexConflict
  <1> DEFINE AllHold == \A t \in Tx : IdentityHolds(t)
  <1>1. Init => AllHold
    BY LabelSets DEF Labels, AfterLive, Init, IdentityHolds
  <1>2. IInv /\ AllHold /\ [Next]_vars => AllHold'
    <2>1. ASSUME AllHold, UNCHANGED vars PROVE AllHold'
      BY <2>1 DEF vars, rows, local, IdentityHolds, LiveAccountJobs, LiveIdentity
    <2> QED
      BY <2>1, IdentityStep
  <1>3. AllHold => NoIndexConflict
    BY LabelSets DEF Labels, AfterLive, IdentityHolds, NoIndexConflict
  <1> HIDE DEF AllHold
  <1> QED
    BY Invariant, <1>1, <1>2, <1>3, PTL DEF Spec


-----------------------------------------------------------------------------
(* Order: what a promotion has looked at under the account's lock is all     *)
(* there is, because rows enter an account's queue under that lock only.     *)

AfterOlder == AfterInflight \ {"older"}

OvertakenSeen(t) ==
  pc[t] \in AfterOlder /\ op[t] = "promote" => QueuedOf(Owner[cand[t]], {cand[t]}) \subseteq passed[t]

\* No row enters the queue of account u.
NoneQueued(u) == \A k \in JobId : Owner[k] = u /\ status'[k] = "queued" => status[k] = "queued"

LEMMA SeenKept ==
  ASSUME IInv, NEW t \in Tx, OvertakenSeen(t), pc'[t] = pc[t], op'[t] = op[t], cand'[t] = cand[t],
         passed'[t] = passed[t], pc[t] \in AfterOlder => NoneQueued(Owner[cand[t]])
  PROVE  OvertakenSeen(t)'
  BY DEF OvertakenSeen, QueuedOf, NoneQueued

LEMMA AloneInQueue ==
  ASSUME IInv, NEW t \in Tx, pc[t] \in AfterOlder
  PROVE  cand[t] \in JobId /\ Owner[cand[t]] \in User /\ userLock[Owner[cand[t]]] = t
  <1>1. SessionInv(t) /\ TypeOK /\ pc[t] # "idle" /\ pc[t] \in AfterUser
    BY LabelSets DEF Labels, IInv, AfterOlder
  <1> QED
    BY <1>1, Candidate DEF SessionInv, LocksHeld

\* A promotion comes past ReadOlder by finding nothing queued ahead of its job.
LEMMA SeenRead ==
  ASSUME IInv, NEW t \in Tx, OvertakenSeen(t),
         \/ LockGlobal(t) \/ LockUser(t) \/ LockDownloadHash(t)
         \/ ReadRow(t) \/ ReadLive(t) \/ ReadQueued(t) \/ ReadInflight(t)
         \/ ReadOlder(t) \/ ReadActiveHash(t) \/ ReadBudgetQueue(t) \/ ReadBudgetUsed(t)
  PROVE  OvertakenSeen(t)' /\ status' = status
         /\ \A s \in Tx \ {t} : /\ pc'[s] = pc[s] /\ op'[s] = op[s] /\ cand'[s] = cand[s]
                                /\ passed'[s] = passed[s]
  <1> USE LabelSets DEF Labels, AfterOlder
  <1>0. TypeOK
    BY DEF IInv
  <1>1. status' = status
    BY DEF rows, LockGlobal, LockUser, LockDownloadHash, ReadRow, ReadLive, ReadQueued, ReadInflight,
           ReadOlder, ReadActiveHash, ReadBudgetQueue, ReadBudgetUsed
  <1>2. \A s \in Tx \ {t} : /\ pc'[s] = pc[s] /\ op'[s] = op[s] /\ cand'[s] = cand[s]
                            /\ passed'[s] = passed[s]
    BY <1>0 DEF LockGlobal, LockUser, LockDownloadHash, ReadRow, ReadLive, ReadQueued, ReadInflight,
                ReadOlder, ReadActiveHash, ReadBudgetQueue, ReadBudgetUsed, End, Goto, TypeOK
  <1>3. OvertakenSeen(t)'
    <2>1. CASE End(t)
      BY <1>0, <2>1 DEF End, Goto, TypeOK, OvertakenSeen
    <2>2. CASE ~End(t)
      <3>1. op'[t] = op[t] /\ cand'[t] = cand[t]
        BY <2>2 DEF LockGlobal, LockUser, LockDownloadHash, ReadRow, ReadLive, ReadQueued, ReadInflight,
                    ReadOlder, ReadActiveHash, ReadBudgetQueue, ReadBudgetUsed
      <3>2. \/ pc'[t] \notin AfterOlder
            \/ pc[t] \in AfterOlder /\ passed'[t] = passed[t]
            \/ op[t] # "promote"
            \/ QueuedAhead(cand[t]) = {} /\ passed'[t] = MayPass(cand[t])
        BY <1>0, <2>2 DEF LockGlobal, LockUser, LockDownloadHash, ReadRow, ReadLive, ReadQueued,
             ReadInflight, ReadOlder, ReadActiveHash, ReadBudgetQueue, ReadBudgetUsed, LockAfter, Goto, TypeOK
      <3>3. QueuedOf(Owner[cand[t]], {cand[t]})' = QueuedOf(Owner[cand[t]], {cand[t]})
        BY <1>1, <3>1 DEF QueuedOf
      <3>4. CASE QueuedAhead(cand[t]) = {} /\ passed'[t] = MayPass(cand[t])
        <4>1. passed'[t] = QueuedOf(Owner[cand[t]], {cand[t]})
          BY <3>4 DEF MayPass
        <4> QED
          BY <3>3, <4>1 DEF OvertakenSeen
      <3>5. CASE pc[t] \in AfterOlder /\ passed'[t] = passed[t]
        BY <3>1, <3>3, <3>5 DEF OvertakenSeen
      <3>6. CASE pc'[t] \notin AfterOlder \/ op[t] # "promote"
        BY <3>1, <3>6 DEF OvertakenSeen
      <3> QED
        BY <3>2, <3>4, <3>5, <3>6
    <2> QED
      BY <2>1, <2>2
  <1> QED
    BY <1>1, <1>2, <1>3

\* The writers outside the transactions queue nothing.
LEMMA WriterQueues ==
  ASSUME IInv, Writer, NEW u \in User
  PROVE  NoneQueued(u)
  <1>0. TypeOK /\ "queued" \notin LiveWork
    BY DEF IInv, LiveWork
  <1>1. ASSUME NEW j \in JobId, NEW from, NEW to, SetStatus(j, from, to), to # "queued"
        PROVE  NoneQueued(u)
    BY <1>0, <1>1 DEF SetStatus, NoneQueued, TypeOK
  <1>2. ASSUME NEW j \in JobId, NEW s \in {"pending", "downloading", "complete"}, CreateOnce(j, s)
        PROVE  NoneQueued(u)
    BY <1>0, <1>2 DEF CreateOnce, NoneQueued, TypeOK
  <1>3. ASSUME NEW j \in JobId, NEW p \in Priority, SetQueuedPriority(j, p) PROVE NoneQueued(u)
    BY <1>3 DEF SetQueuedPriority, NoneQueued
  <1>4. ASSUME NEW j \in JobId, FailQueued(j) \/ CompleteQueued(j) \/ Evict(j) \/ Delete(j)
        PROVE  NoneQueued(u)
    BY <1>1, <1>4 DEF FailQueued, CompleteQueued, Evict, Delete
  <1>5. ASSUME NEW j \in JobId, NEW s \in WorkStatus \cup {"complete", "failed"}, Work(j, s) \/ Finish(j, s)
        PROVE  NoneQueued(u)
    BY <1>0, <1>1, <1>5 DEF Work, Finish
  <1> QED
    BY <1>2, <1>3, <1>4, <1>5 DEF Writer

LEMMA SeenStep ==
  ASSUME IInv, \A t \in Tx : OvertakenSeen(t), Next
  PROVE  \A t \in Tx : OvertakenSeen(t)'
  <1> SUFFICES ASSUME NEW s \in Tx PROVE OvertakenSeen(s)'
    OBVIOUS
  <1>0. TypeOK
    BY DEF IInv
  <1>1. ASSUME NEW t \in Tx, NEW j \in JobId, NEW o, Begin(t, o, j), status' = status
        PROVE  OvertakenSeen(s)'
    <2>1. CASE s = t
      BY <1>0, <1>1, <2>1, LabelSets DEF Labels, AfterOlder, Begin, Goto, TypeOK, OvertakenSeen
    <2>2. CASE s # t
      BY <1>0, <1>1, <2>2, SeenKept DEF Begin, Goto, TypeOK, NoneQueued
    <2> QED
      BY <2>1, <2>2
  <1>2. ASSUME NEW t \in Tx,
               \/ LockGlobal(t) \/ LockUser(t) \/ LockDownloadHash(t)
               \/ ReadRow(t) \/ ReadLive(t) \/ ReadQueued(t) \/ ReadInflight(t)
               \/ ReadOlder(t) \/ ReadActiveHash(t) \/ ReadBudgetQueue(t) \/ ReadBudgetUsed(t)
        PROVE  OvertakenSeen(s)'
    <2>1. OvertakenSeen(t)' /\ status' = status
          /\ (s # t => pc'[s] = pc[s] /\ op'[s] = op[s] /\ cand'[s] = cand[s] /\ passed'[s] = passed[s])
      BY <1>2, SeenRead
    <2> QED
      BY <2>1, SeenKept DEF NoneQueued
  <1>3. ASSUME NEW t \in Tx, WriteAdmit(t) \/ WriteReadmit(t) \/ WritePromote(t)
        PROVE  OvertakenSeen(s)'
    <2>1. /\ End(t) /\ pc[t] = "write"
          /\ \A k \in JobId \ {cand[t]} : status'[k] = status[k]
      BY <1>0, <1>3 DEF WriteAdmit, WriteReadmit, WritePromote, TypeOK
    <2>2. CASE s = t
      BY <1>0, <2>1, <2>2, LabelSets DEF Labels, AfterOlder, End, Goto, TypeOK, OvertakenSeen
    <2>3. CASE s # t
      <3>1. pc[t] \in AfterOlder
        BY <2>1, LabelSets DEF Labels, AfterOlder
      <3>2. pc[s] \in AfterOlder => Owner[cand[s]] # Owner[cand[t]]
        BY <2>3, <3>1, AloneInQueue
      <3>3. pc[s] \in AfterOlder => NoneQueued(Owner[cand[s]])
        BY <2>1, <3>2 DEF NoneQueued
      <3>4. pc'[s] = pc[s] /\ op'[s] = op[s] /\ cand'[s] = cand[s] /\ passed'[s] = passed[s]
        BY <1>0, <2>1, <2>3 DEF End, Goto, TypeOK
      <3> QED
        BY <3>3, <3>4, SeenKept
    <2> QED
      BY <2>2, <2>3
  <1>4. CASE Writer
    <2>1. UNCHANGED local
      BY <1>4 DEF Writer, CreateOnce, SetQueuedPriority, Work, Finish, FailQueued, CompleteQueued, Evict,
                  Delete, SetStatus
    <2>2. pc[s] \in AfterOlder => NoneQueued(Owner[cand[s]])
      BY <1>4, WriterQueues, AloneInQueue
    <2> QED
      BY <2>1, <2>2, SeenKept DEF local
  <1>5. ASSUME NEW t \in Tx, Statement(t) PROVE OvertakenSeen(s)'
    BY <1>2, <1>3, <1>5 DEF Statement
  <1> QED
    BY <1>1, <1>4, <1>5 DEF Next, Writer, BeginAdmit, BeginReadmit, BeginPromote, Tx, rows

\* PromoteQueued overtakes no queued job of its account unseen (queue.go): whatever is queued
\* at its commit it has looked at, under the lock it still holds.
THEOREM NoUnseenOvertakeHolds == Spec => NoUnseenOvertake
  <1> DEFINE AllSeen == \A t \in Tx : OvertakenSeen(t)
  <1>1. Init => AllSeen
    BY LabelSets DEF Labels, AfterOlder, Init, OvertakenSeen
  <1>2. IInv /\ AllSeen /\ [Next]_vars => AllSeen'
    <2>1. ASSUME AllSeen, UNCHANGED vars PROVE AllSeen'
      BY <2>1 DEF vars, rows, local, OvertakenSeen, QueuedOf
    <2> QED
      BY <2>1, SeenStep
  <1>3. AllSeen => \A t \in Tx : pc[t] = "write" /\ op[t] = "promote" /\ pc'[t] = "idle"
                     => QueuedOf(Owner[cand[t]], {cand[t]}) \subseteq passed[t]
    BY LabelSets DEF Labels, AfterOlder, OvertakenSeen
  <1>4. AllSeen => [\A t \in Tx : pc[t] = "write" /\ op[t] = "promote" /\ pc'[t] = "idle"
                     => QueuedOf(Owner[cand[t]], {cand[t]}) \subseteq passed[t]]_vars
    BY <1>3
  <1> HIDE DEF AllSeen
  <1> QED
    BY Invariant, <1>1, <1>2, <1>4, PTL DEF Spec, NoUnseenOvertake

-----------------------------------------------------------------------------
(* The budget.  What MapThenSumSet adds up row by row, in an order nobody    *)
(* knows, is the number of units the rows have together.                     *)

SumOf(S) == MapThenSumSet(Footprint, S)
Units(S) == UNION {{j} \X (1 .. Footprint(j)) : j \in S}

\* A row counts for a natural number of bytes.
LEMMA FootprintType == \A j \in JobId : Footprint(j) \in Nat
  BY DEF Footprint

\* The units of one row, and of a set of rows.
LEMMA UnitsOfOne ==
  ASSUME NEW j \in JobId
  PROVE  /\ IsFiniteSet({j} \X (1 .. Footprint(j)))
         /\ Cardinality({j} \X (1 .. Footprint(j))) = Footprint(j)
  <1>1. Footprint(j) \in Nat
    BY FootprintType
  <1> HIDE SessionAssumption, JobAssumption, LimitAssumption
  <1> DEFINE n == Footprint(j)
  <1> HIDE DEF n
  <1>2. IsFiniteSet(1 .. n) /\ Cardinality(1 .. n) = n
    <2>1. n \in Nat /\ 1 \in Int /\ n \in Int
      BY <1>1 DEF n
    <2>2. IsFiniteSet(1 .. n) /\ Cardinality(1 .. n) = IF 1 > n THEN 0 ELSE n - 1 + 1
      BY <2>1, FS_Interval
    <2> QED
      BY <2>1, <2>2
  <1>3. IsFiniteSet({j}) /\ Cardinality({j}) = 1
    BY FS_Singleton
  <1>4. IsFiniteSet({j} \X (1 .. n)) /\ Cardinality({j} \X (1 .. n)) = 1 * n
    BY <1>2, <1>3, FS_Product
  <1> QED
    BY <1>1, <1>4 DEF n

LEMMA UnitsFinite ==
  ASSUME NEW S \in SUBSET JobId
  PROVE  IsFiniteSet(Units(S)) /\ Cardinality(Units(S)) \in Nat
  <1> DEFINE f == [j \in S |-> {j} \X (1 .. Footprint(j))]
             Sets == {{j} \X (1 .. Footprint(j)) : j \in S}
  <1>1. IsFiniteSet(S)
    BY FS_Subset
  <1>2. f \in Surjection(S, Sets)
    BY DEF Surjection
  <1>3. IsFiniteSet(Sets)
    <2> HIDE DEF f, Sets
    <2> QED
      BY <1>1, <1>2, FS_Surjection
  <1>4. \A A \in Sets : IsFiniteSet(A)
    BY UnitsOfOne
  <1>5. IsFiniteSet(UNION Sets)
    <2> HIDE DEF Sets
    <2> QED
      BY <1>3, <1>4, FS_UNION
  <1> QED
    BY <1>5, FS_CardinalityType DEF Units

LEMMA UnitsOfNone == Cardinality(Units({})) = 0
  <1>1. Units({}) = {}
    BY DEF Units
  <1> QED
    BY <1>1, FS_EmptySet

\* A row's units are apart from those of the other rows.
LEMMA UnitsWithout ==
  ASSUME NEW S \in SUBSET JobId, NEW j \in S
  PROVE  Cardinality(Units(S)) = Footprint(j) + Cardinality(Units(S \ {j}))
  <1> DEFINE A == {j} \X (1 .. Footprint(j))
             B == Units(S \ {j})
  <1>1. Units(S) = A \cup B /\ A \cap B = {}
    BY DEF Units
  <1>2. IsFiniteSet(A) /\ Cardinality(A) = Footprint(j) /\ Footprint(j) \in Nat
    BY UnitsOfOne, FootprintType
  <1>3. IsFiniteSet(B) /\ Cardinality(B) \in Nat
    BY UnitsFinite
  <1> HIDE DEF A, B
  <1>4. Cardinality(A \cup B) = Cardinality(A) + Cardinality(B) - Cardinality(A \cap B)
    BY <1>2, <1>3, FS_Union
  <1>5. Cardinality(A \cap B) = 0
    BY <1>1, FS_EmptySet
  <1> QED
    BY <1>1, <1>2, <1>3, <1>4, <1>5 DEF B

-----------------------------------------------------------------------------
\* What the fold computes of the subsets of a set, whichever row it takes out next.
Pick(s) == CHOOSE x \in s : TRUE
IsFold(g, S) == g = [s \in SUBSET S |-> IF s = {} THEN 0 ELSE Footprint(Pick(s)) + g[s \ {Pick(s)}]]

\* The library's operator takes such a function's value.
LEMMA SumIsFold == \A S : SumOf(S) = (CHOOSE g : IsFold(g, S))[S]
  BY DEF SumOf, MapThenSumSet, MapThenFoldSet, IsFold, Pick

\* A set of naturals has a least element, which stands for induction.
LEMMA LeastOf ==
  ASSUME NEW S, S \subseteq Nat, S # {}
  PROVE  \E n \in S : \A k \in S : n <= k
  <1>1. PICK x \in S : \A y \in S : ~(<<y, x>> \in OpToRel(<, Nat))
    BY WFMin, NatLessThanWellFounded
  <1>2. \A y \in S : ~(y < x)
    BY <1>1 DEF OpToRel
  <1> QED
    BY <1>2

\* Whatever is picked first: a smallest set of rows of which it fails would not be smallest.
LEMMA FoldIsUnits ==
  ASSUME NEW S \in SUBSET JobId, NEW g, IsFold(g, S)
  PROVE  \A s \in SUBSET S : g[s] = Cardinality(Units(s))
  <1> DEFINE Bad == {r \in SUBSET S : g[r] # Cardinality(Units(r))}
             N == {Cardinality(r) : r \in Bad}
  <1> SUFFICES ASSUME Bad # {} PROVE FALSE
    OBVIOUS
  <1>1. \A r \in SUBSET S : IsFiniteSet(r) /\ Cardinality(r) \in Nat
    BY FS_Subset, FS_CardinalityType
  <1>2. N \subseteq Nat /\ N # {}
    BY <1>1
  <1>3. PICK n \in N : \A k \in N : n <= k
    <2> HIDE DEF N
    <2> QED
      BY <1>2, LeastOf
  <1>4. PICK s \in Bad : n = Cardinality(s)
    BY <1>3
  <1>5. s \in SUBSET S /\ g[s] # Cardinality(Units(s))
    BY <1>4
  <1>6. s # {}
    <2>1. {} \in SUBSET S /\ g[{}] = 0
      BY DEF IsFold
    <2> QED
      BY <2>1, <1>5, UnitsOfNone
  <1> DEFINE x == Pick(s)
  <1>7. x \in s /\ x \in JobId
    BY <1>5, <1>6 DEF Pick
  <1>8. g[s] = Footprint(x) + g[s \ {x}]
    BY <1>5, <1>6 DEF IsFold
  <1> HIDE DEF x
  <1>9. s \ {x} \in SUBSET S /\ Cardinality(s \ {x}) = n - 1 /\ n \in Nat
    <2>1. IsFiniteSet(s) /\ Cardinality(s) \in Nat
      BY <1>1, <1>5
    <2>2. Cardinality(s \ {x}) = Cardinality(s) - 1
      BY <2>1, <1>7, FS_RemoveElement
    <2> QED
      BY <2>1, <2>2, <1>4, <1>5
  <1>10. s \ {x} \notin Bad
    <2>1. s \ {x} \in Bad => n - 1 \in N
      BY <1>9
    <2>2. ~(n <= n - 1)
      BY <1>9
    <2> HIDE DEF N, Bad
    <2> QED
      BY <1>3, <2>1, <2>2
  <1>11. g[s \ {x}] = Cardinality(Units(s \ {x}))
    BY <1>9, <1>10
  <1>12. Cardinality(Units(s)) = Footprint(x) + Cardinality(Units(s \ {x}))
    BY <1>5, <1>7, UnitsWithout
  <1> HIDE DEF Bad, N
  <1> QED
    BY <1>5, <1>8, <1>11, <1>12

\* The sum is the number of units.
LEMMA SumIsUnits == ASSUME NEW S \in SUBSET JobId PROVE SumOf(S) = Cardinality(Units(S))
  <1> DEFINE g == [s \in SUBSET S |-> Cardinality(Units(s))]
  <1>1. IsFold(g, S)
    <2>1. ASSUME NEW s \in SUBSET S
          PROVE  g[s] = IF s = {} THEN 0 ELSE Footprint(Pick(s)) + g[s \ {Pick(s)}]
      <3>1. CASE s = {}
        BY <3>1, UnitsOfNone
      <3>2. CASE s # {}
        <4>1. Pick(s) \in s /\ s \ {Pick(s)} \in SUBSET S
          BY <3>2 DEF Pick
        <4>2. Cardinality(Units(s)) = Footprint(Pick(s)) + Cardinality(Units(s \ {Pick(s)}))
          BY <4>1, UnitsWithout
        <4> QED
          BY <3>2, <4>1, <4>2
      <3> QED
        BY <3>1, <3>2
    <2>2. g = [s \in SUBSET S |-> g[s]]
      OBVIOUS
    <2> HIDE DEF g
    <2> QED
      BY <2>1, <2>2 DEF IsFold
  <1> HIDE DEF g
  <1>2. IsFold(CHOOSE h : IsFold(h, S), S)
    BY <1>1
  <1>3. (CHOOSE h : IsFold(h, S))[S] = Cardinality(Units(S))
    BY <1>2, FoldIsUnits
  <1> QED
    BY <1>3, SumIsFold

\* What follows of the sum: its type, and what rows that leave or enter do to it.
LEMMA SumType == \A S \in SUBSET JobId : SumOf(S) \in Nat
  BY SumIsUnits, UnitsFinite

LEMMA SumOfFewer ==
  ASSUME NEW T \in SUBSET JobId, NEW S \in SUBSET T
  PROVE  SumOf(S) <= SumOf(T)
  <1>1. Units(S) \subseteq Units(T)
    BY DEF Units
  <1>2. Cardinality(Units(S)) <= Cardinality(Units(T))
    BY <1>1, UnitsFinite, FS_Subset
  <1> QED
    BY <1>2, SumIsUnits

LEMMA SumWithOneMore ==
  ASSUME NEW S \in SUBSET JobId, NEW j \in JobId
  PROVE  SumOf(S \cup {j}) <= SumOf(S) + Footprint(j)
  <1>1. SumOf(S) \in Nat /\ Footprint(j) \in Nat
    BY SumType, FootprintType
  <1>2. CASE j \in S
    <2>1. S \cup {j} = S
      BY <1>2
    <2> QED
      BY <1>1, <2>1
  <1>3. CASE j \notin S
    <2>1. S \cup {j} \in SUBSET JobId /\ (S \cup {j}) \ {j} = S
      BY <1>3
    <2>2. Cardinality(Units(S \cup {j})) = Footprint(j) + Cardinality(Units(S))
      BY <2>1, UnitsWithout
    <2>3. SumOf(S \cup {j}) = Footprint(j) + SumOf(S)
      BY <2>1, <2>2, SumIsUnits
    <2> QED
      BY <1>1, <2>3
  <1> QED
    BY <1>2, <1>3

-----------------------------------------------------------------------------
\* The largest row is one of the rows, and bounds them all.
LEMMA LargestIs ==
  /\ LargestFootprint \in Nat
  /\ \A j \in JobId : Footprint(j) <= LargestFootprint
  <1> DEFINE S == {Footprint(j) : j \in JobId}
             n == SumOf(JobId)
             T == {n - k : k \in S}
  <1>1. n \in Nat /\ S # {} /\ S \subseteq Nat
    BY SumType, FootprintType, BudgetAssumption
  <1>2. \A k \in S : k <= n
    <2>1. ASSUME NEW j \in JobId PROVE Footprint(j) <= SumOf(JobId)
      <3>1. Cardinality(Units(JobId)) = Footprint(j) + Cardinality(Units(JobId \ {j}))
        BY UnitsWithout
      <3>2. Cardinality(Units(JobId \ {j})) \in Nat /\ Footprint(j) \in Nat
        BY UnitsFinite, FootprintType
      <3>3. SumOf(JobId) = Cardinality(Units(JobId))
        BY SumIsUnits
      <3> QED
        BY <3>1, <3>2, <3>3
    <2> QED
      BY <2>1
  <1> HIDE DEF S, n
  <1>3. T \subseteq Nat /\ T # {}
    <2>1. \A k \in S : n - k \in Nat
      BY <1>1, <1>2
    <2>2. T \subseteq Nat
      BY <2>1
    <2>3. PICK k \in S : TRUE
      BY <1>1
    <2>4. n - k \in T
      BY <2>3
    <2> QED
      BY <2>2, <2>4
  <1>4. PICK d \in T : \A k \in T : d <= k
    <2> HIDE DEF T
    <2> QED
      BY <1>3, LeastOf
  <1>5. PICK m \in S : d = n - m
    BY <1>4
  <1>6. \A k \in S : n - m <= n - k
    BY <1>4, <1>5
  <1>7. \A k \in S : m >= k
    BY <1>1, <1>6
  <1>8. Max(S) \in S /\ \A k \in S : Max(S) >= k
    BY <1>7 DEF Max
  <1> QED
    BY <1>1, <1>8 DEF S, LargestFootprint

\* What the budget allows the gated jobs.
Allowed == Max({0, Budget - InitialHeadroom + LargestFootprint})

\* Max over two numbers is an upper bound of both.
LEMMA AllowedIs == Allowed \in Int /\ 0 <= Allowed /\ Budget - InitialHeadroom + LargestFootprint <= Allowed
  <1> DEFINE e == Budget - InitialHeadroom + LargestFootprint
  <1>1. e \in Int
    BY LargestIs
  <1> HIDE DEF e
  <1>2. \E m \in {0, e} : \A k \in {0, e} : m >= k
    <2>1. CASE e >= 0
      BY <1>1, <2>1
    <2>2. CASE ~(e >= 0)
      BY <1>1, <2>2
    <2> QED
      BY <2>1, <2>2
  <1>3. Max({0, e}) \in {0, e} /\ \A k \in {0, e} : Max({0, e}) >= k
    BY <1>2 DEF Max
  <1>4. Max({0, e}) \in Int /\ 0 <= Max({0, e}) /\ e <= Max({0, e})
    BY <1>1, <1>3
  <1> QED
    BY <1>4 DEF Allowed, e


-----------------------------------------------------------------------------
(* The budget's invariant: gated work goes on from the global lock under it, *)
(* so what a session has read of the disk is still an upper bound when it    *)
(* claims a slot.                                                            *)

GatedClaimed == {j \in claimed : j \in Gated}

GlobalHeld ==
  \A t \in Tx : pc[t] \notin {"idle", "global"} /\ cand[t] \in Gated => globalLock = t

Affordable(t) ==
  pc[t] = "write" /\ cand[t] \in Gated /\ MayStart(t) => SumOf(GatedClaimed) <= Budget - InitialHeadroom

BudgetInv ==
  /\ GlobalHeld
  /\ \A t \in Tx : Affordable(t)
  /\ SumOf(GatedClaimed) <= Allowed

\* Only the holder of the global lock goes on past it with a gated job.
LEMMA GlobalStep ==
  ASSUME IInv, GlobalHeld, Next
  PROVE  GlobalHeld'
  <1>0. TypeOK /\ NoJob \notin Gated
    BY DEF IInv
  <1>1. ASSUME NEW t \in Tx, NEW j \in JobId, NEW o, Begin(t, o, j)
        PROVE  GlobalHeld'
    BY <1>0, <1>1 DEF Begin, Goto, TypeOK, GlobalHeld, locks
  <1>2. ASSUME NEW t \in Tx, End(t) PROVE GlobalHeld'
    <2>1. /\ \A s \in Tx \ {t} : pc'[s] = pc[s] /\ cand'[s] = cand[s]
          /\ pc'[t] = "idle" /\ globalLock' \in {NoTx, globalLock} /\ (globalLock # t => globalLock' = globalLock)
      BY <1>0, <1>2 DEF End, Goto, TypeOK
    <2> QED
      BY <2>1 DEF GlobalHeld
  <1>3. ASSUME NEW t \in Tx, LockGlobal(t) PROVE GlobalHeld'
    <2>1. /\ globalLock = NoTx /\ globalLock' = t /\ cand' = cand /\ pc[t] = "global"
          /\ \A s \in Tx \ {t} : pc'[s] = pc[s]
      BY <1>0, <1>3 DEF LockGlobal, Goto, TypeOK
    <2>2. NoTx \notin Tx
      BY DEF Tx
    <2> QED
      BY <2>1, <2>2 DEF GlobalHeld
  <1>4. ASSUME NEW t \in Tx, ~End(t),
               \/ LockUser(t) \/ LockDownloadHash(t)
               \/ ReadRow(t) \/ ReadLive(t) \/ ReadQueued(t) \/ ReadInflight(t)
               \/ ReadOlder(t) \/ ReadActiveHash(t) \/ ReadBudgetQueue(t) \/ ReadBudgetUsed(t)
        PROVE  GlobalHeld'
    <2>1. /\ UNCHANGED <<globalLock, cand>> /\ pc[t] \notin {"idle", "global"}
          /\ \A s \in Tx \ {t} : pc'[s] = pc[s]
      BY <1>0, <1>4 DEF LockUser, LockDownloadHash, ReadRow, ReadLive, ReadQueued, ReadInflight, ReadOlder,
                        ReadActiveHash, ReadBudgetQueue, ReadBudgetUsed, Goto, TypeOK, locks
    <2> QED
      BY <2>1 DEF GlobalHeld
  <1>5. CASE Writer
    <2>1. UNCHANGED <<locks, local>>
      BY <1>5 DEF Writer, CreateOnce, SetQueuedPriority, Work, Finish, FailQueued, CompleteQueued, Evict, Delete,
                  SetStatus
    <2> QED
      BY <2>1 DEF GlobalHeld, locks, local
  <1>6. ASSUME NEW t \in Tx, Statement(t) PROVE GlobalHeld'
    BY <1>2, <1>3, <1>4, <1>6 DEF Statement, WriteAdmit, WriteReadmit, WritePromote
  <1> QED
    BY <1>1, <1>5, <1>6 DEF Next, Writer, BeginAdmit, BeginReadmit, BeginPromote, Tx

\* A session that may claim has either been there before, or has just read that there is room.
LEMMA RoomRead ==
  ASSUME IInv, Next, NEW s \in Tx, pc'[s] = "write", cand'[s] \in Gated, MayStart(s)'
  PROVE  \/ pc[s] = "write" /\ cand[s] \in Gated /\ MayStart(s)
         \/ BudgetUsed <= Budget - InitialHeadroom /\ claimed' = claimed
  <1>0. TypeOK /\ BudgetUsed \in Int
    <2>1. BudgetUsed = SumOf({k \in JobId : status[k] \in Concurrency})
      BY DEF BudgetUsed, SumOf
    <2> QED
      BY <2>1, SumType DEF IInv
  <1>1. ASSUME NEW t \in Tx, NEW j \in JobId, NEW o, Begin(t, o, j)
        PROVE  pc[s] = "write" /\ cand[s] \in Gated /\ MayStart(s)
    BY <1>0, <1>1 DEF Begin, Goto, TypeOK, MayStart
  <1>2. ASSUME NEW t \in Tx, End(t)
        PROVE  pc[s] = "write" /\ cand[s] \in Gated /\ MayStart(s)
    BY <1>0, <1>2 DEF End, Goto, TypeOK, MayStart
  <1>3. ASSUME NEW t \in Tx, ~End(t),
               \/ LockGlobal(t) \/ LockUser(t) \/ LockDownloadHash(t)
               \/ ReadRow(t) \/ ReadLive(t) \/ ReadQueued(t) \/ ReadInflight(t)
               \/ ReadOlder(t) \/ ReadActiveHash(t) \/ ReadBudgetQueue(t)
        PROVE  pc[s] = "write" /\ cand[s] \in Gated /\ MayStart(s)
    <2>1. /\ UNCHANGED <<op, cand>> /\ (cand[t] \in Gated => pc'[t] # "write")
          /\ \A r \in Tx \ {t} : pc'[r] = pc[r] /\ must'[r] = must[r]
      BY <1>0, <1>3 DEF LockGlobal, LockUser, LockDownloadHash, ReadRow, ReadLive, ReadQueued, ReadInflight,
                        ReadOlder, ReadActiveHash, ReadBudgetQueue, Goto, LockAfter, AfterSameHash, TypeOK
    <2> QED
      BY <2>1 DEF MayStart
  <1>4. ASSUME NEW t \in Tx, ~End(t), ReadBudgetUsed(t)
        PROVE  \/ pc[s] = "write" /\ cand[s] \in Gated /\ MayStart(s)
               \/ BudgetUsed <= Budget - InitialHeadroom /\ claimed' = claimed
    <2> DEFINE headroom == IF op[t] = "promote" THEN PromoteHeadroom ELSE InitialHeadroom
               short == Budget - BudgetUsed < headroom
    <2>1. /\ UNCHANGED <<op, cand, rows>> /\ (op[t] = "promote" => ~short)
          /\ must' = [must EXCEPT ![t] = must[t] \/ short]
          /\ \A r \in Tx \ {t} : pc'[r] = pc[r]
      BY <1>0, <1>4 DEF ReadBudgetUsed, Goto, TypeOK
    <2> HIDE DEF short
    <2>2. CASE s = t
      <3>1. ~short
        BY <2>1, <2>2, <1>0 DEF MayStart, TypeOK
      <3>2. InitialHeadroom <= headroom /\ headroom \in Nat
        BY BudgetAssumption
      <3>3. BudgetUsed <= Budget - InitialHeadroom
        BY <1>0, <3>1, <3>2 DEF short
      <3> QED
        BY <2>1, <3>3 DEF rows
    <2>3. CASE s # t
      BY <2>1, <2>3, <1>0 DEF MayStart, TypeOK
    <2> QED
      BY <2>2, <2>3
  <1>5. CASE Writer
    <2>1. UNCHANGED local
      BY <1>5 DEF Writer, CreateOnce, SetQueuedPriority, Work, Finish, FailQueued, CompleteQueued, Evict, Delete,
                  SetStatus
    <2> QED
      BY <2>1 DEF MayStart, local
  <1>6. ASSUME NEW t \in Tx, Statement(t)
        PROVE  \/ pc[s] = "write" /\ cand[s] \in Gated /\ MayStart(s)
               \/ BudgetUsed <= Budget - InitialHeadroom /\ claimed' = claimed
    BY <1>2, <1>3, <1>4, <1>6 DEF Statement, WriteAdmit, WriteReadmit, WritePromote
  <1> QED
    BY <1>1, <1>5, <1>6 DEF Next, Writer, BeginAdmit, BeginReadmit, BeginPromote, Tx

\* A claim of gated work adds one row to a sum that left the headroom free.
LEMMA BudgetStep ==
  ASSUME IInv, IInv', BudgetInv, Next, StepKind
  PROVE  BudgetInv'
  <1>1. TypeOK /\ TypeOK' /\ GatedClaimed \in SUBSET JobId /\ GatedClaimed' \in SUBSET JobId
    BY DEF IInv, TypeOK, GatedClaimed
  <1>2. SumOf(GatedClaimed) \in Nat /\ SumOf(GatedClaimed') \in Nat /\ Allowed \in Int
    BY <1>1, SumType, AllowedIs
  <1>3. GlobalHeld'
    BY GlobalStep DEF BudgetInv
  <1>4. BudgetUsed \in Nat /\ SumOf(GatedClaimed) <= BudgetUsed
    <2> DEFINE R == {k \in JobId : status[k] \in Concurrency}
    <2>1. BudgetUsed = SumOf(R)
      BY DEF BudgetUsed, SumOf
    <2>2. GatedClaimed \in SUBSET R /\ R \in SUBSET JobId
      BY <1>1 DEF IInv, GatedClaimed
    <2> HIDE DEF R
    <2> QED
      BY <2>1, <2>2, SumType, SumOfFewer
  <1>5. CASE claimed' \subseteq claimed
    <2>1. SumOf(GatedClaimed') <= SumOf(GatedClaimed)
      BY <1>1, <1>5, SumOfFewer DEF GatedClaimed
    <2>2. SumOf(GatedClaimed') <= Allowed
      BY <1>2, <2>1 DEF BudgetInv
    <2>3. ASSUME NEW s \in Tx, pc'[s] = "write", cand'[s] \in Gated, MayStart(s)'
          PROVE  SumOf(GatedClaimed') <= Budget - InitialHeadroom
      <3>1. SumOf(GatedClaimed) <= Budget - InitialHeadroom
        <4>1. CASE pc[s] = "write" /\ cand[s] \in Gated /\ MayStart(s)
          BY <4>1 DEF BudgetInv, Affordable
        <4>2. CASE BudgetUsed <= Budget - InitialHeadroom
          BY <1>2, <1>4, <4>2
        <4> QED
          BY <2>3, <4>1, <4>2, RoomRead
      <3> QED
        BY <1>2, <2>1, <3>1
    <2>4. \A s \in Tx : Affordable(s)'
      BY <2>3 DEF Affordable
    <2> QED
      BY <1>3, <2>2, <2>4 DEF BudgetInv
  <1>6. ASSUME NEW t \in Tx, Commit(t, "pending") PROVE BudgetInv'
    <2>1. /\ pc[t] = "write" /\ MayStart(t) /\ claimed' = claimed \cup {cand[t]} /\ pc'[t] = "idle"
          /\ cand[t] \in JobId
          /\ \A s \in Tx \ {t} : pc'[s] = pc[s] /\ cand'[s] = cand[s] /\ op'[s] = op[s] /\ must'[s] = must[s]
      BY <1>1, <1>6, CommitFacts DEF Commit, End, Goto, TypeOK
    <2>2. CASE cand[t] \notin Gated
      <3>1. GatedClaimed' = GatedClaimed
        BY <2>1, <2>2 DEF GatedClaimed
      <3>2. \A s \in Tx : Affordable(s)'
        BY <2>1, <3>1 DEF BudgetInv, Affordable, MayStart
      <3> QED
        BY <1>3, <3>1, <3>2 DEF BudgetInv
    <2>3. CASE cand[t] \in Gated
      <3>1. GatedClaimed' = GatedClaimed \cup {cand[t]}
        BY <2>1, <2>3 DEF GatedClaimed
      <3>2. SumOf(GatedClaimed) <= Budget - InitialHeadroom
        BY <2>1, <2>3 DEF BudgetInv, Affordable
      <3>3. SumOf(GatedClaimed') <= SumOf(GatedClaimed) + Footprint(cand[t])
        BY <1>1, <2>1, <3>1, SumWithOneMore
      <3>4. /\ Footprint(cand[t]) \in Nat /\ LargestFootprint \in Nat
            /\ Footprint(cand[t]) <= LargestFootprint
        BY <2>1, FootprintType, LargestIs
      <3>5. SumOf(GatedClaimed') <= Allowed
        <4>1. Budget - InitialHeadroom + LargestFootprint <= Allowed
          BY AllowedIs
        <4> QED
          BY <1>2, <3>2, <3>3, <3>4, <4>1
      <3>6. \A s \in Tx : Affordable(s)'
        <4>1. \A s \in Tx \ {t} : ~(pc[s] = "write" /\ cand[s] \in Gated)
          BY <2>1, <2>3 DEF BudgetInv, GlobalHeld
        <4> QED
          BY <2>1, <4>1 DEF Affordable
      <3> QED
        BY <1>3, <3>5, <3>6 DEF BudgetInv
    <2> QED
      BY <2>2, <2>3
  <1>7. claimed' \subseteq claimed \/ \E t \in Tx : Commit(t, "pending")
    BY DEF StepKind, SameRows, Commit, RowWrite
  <1> QED
    BY <1>5, <1>6, <1>7

\* The gated downloads never overcommit the ingest disk by more than the one job that was the
\* last to fit (BudgetUsed under the global lock, queue.go), whatever their number, their sizes
\* and the interleaving of the sessions.
THEOREM GatedWithinBudgetHolds == Spec => []GatedWithinBudget
  <1>1. Init => BudgetInv
    <2> SUFFICES ASSUME Init PROVE BudgetInv
      OBVIOUS
    <2>1. GatedClaimed = {}
      BY DEF Init, GatedClaimed
    <2>2. SumOf({}) = 0
      BY SumIsUnits, UnitsOfNone
    <2>3. GlobalHeld /\ \A t \in Tx : Affordable(t)
      BY DEF Init, GlobalHeld, Affordable
    <2> QED
      BY <2>1, <2>2, <2>3, AllowedIs DEF BudgetInv
  <1>2. IInv /\ IInv' /\ BudgetInv /\ [Next]_vars => BudgetInv'
    <2>1. ASSUME BudgetInv, UNCHANGED vars PROVE BudgetInv'
      BY <2>1 DEF BudgetInv, GlobalHeld, Affordable, MayStart, GatedClaimed, vars, rows, locks, local
    <2> QED
      BY <2>1, NextStep, BudgetStep
  <1>3. BudgetInv => GatedWithinBudget
    BY DEF BudgetInv, GatedWithinBudget, SumOf, GatedClaimed, Allowed
  <1> QED
    BY Invariant, <1>1, <1>2, <1>3, PTL DEF Spec
=============================================================================
