--------------------------- MODULE DispatchProofs ---------------------------
(***************************************************************************)
(* Dispatch's safety for any number of jobs, contents, nodes, workers and  *)
(* goroutines: one download of a content per worker, every run in the      *)
(* registry, and content behind every complete row.                        *)
(***************************************************************************)
EXTENDS Dispatch, TLAPS

USE DispatchAssumption DEF Concurrency, Status, Gated, Holding, RunPc, NoMsg

\* The writes of a whole row, by Assign, by a run or by a reconciliation: it is complete
\* only with its content.
RowWrite(j, s, n) ==
  /\ j \in Job /\ s \in Status \ {"none", "deleted"} /\ n \in Node
  /\ s = "complete" => <<n, HashOf[j]>> \in manifests
  /\ Update(j, s, n)

\* What a step does to the rows: nothing, an admission, a deletion or a write.
RowStep ==
  \/ UNCHANGED rows
  \/ \E j \in Job : Present(j) /\ status' = [status EXCEPT ![j] = "deleted"] /\ node' = node
  \/ \E j \in Job, s \in {"pending", "queued"} :
       status[j] # "deleted" /\ status' = [status EXCEPT ![j] = s] /\ node' = node
  \/ \E j \in Job, s \in Status, n \in Node : RowWrite(j, s, n)

-----------------------------------------------------------------------------
(* Types.                                                                  *)

\* Where a run has a job, it has one of the table, and a node.
LEMMA RunHasJob ==
  ASSUME TypeOK, RunsAreLoaded, NEW r \in Run, pc[r] # "idle"
  PROVE  rjob[r] \in Job /\ rnode[r] \in Node /\ status[rjob[r]] # "none"
  BY DEF TypeOK, RowTypeOK, RunTypeOK, RunsAreLoaded

\* A step changes the rows in one of these ways only.
LEMMA RowsStep ==
  ASSUME TypeOK, RunsAreLoaded, ContentInv, Next
  PROVE  RowStep
  <1>1. ASSUME NEW r \in Run, AcquireGate(r) \/ Advance(r) \/ NoteFile(r)
        PROVE  RowStep
    <2>1. CASE StartDownload(r)
      BY <2>1, RunHasJob DEF StartDownload, RowStep, RowWrite
    <2>2. CASE NoteFile(r)
      BY <2>2, RunHasJob DEF NoteFile, RowStep, RowWrite
    <2>3. CASE \E n \in Node : StartPublish(r, n)
      BY <2>3, RunHasJob DEF StartPublish, RowStep, RowWrite
    <2>4. CASE Fail(r)
      BY <2>4, RunHasJob DEF Fail, RowStep, RowWrite
    <2>5. ASSUME NEW k \in Job, CompleteRow(r, k) \/ FailRow(r, k)
          PROVE  RowStep
      <3>1. CASE CompleteRow(r, k)
        <4>1. <<rnode[r], HashOf[k]>> \in manifests
          BY <3>1 DEF CompleteRow, WriteRow, ContentInv
        <4> QED
          BY <3>1, <4>1, RunHasJob DEF CompleteRow, WriteRow, RowStep, RowWrite
      <3>2. CASE FailRow(r, k)
        BY <3>2, RunHasJob DEF FailRow, WriteRow, RowStep, RowWrite
      <3> QED
        BY <2>5, <3>1, <3>2
    <2>6. CASE UNCHANGED rows
      BY <2>6 DEF RowStep
    <2>7. CASE ~UNCHANGED rows
      BY <1>1, <2>1, <2>2, <2>3, <2>4, <2>5, <2>7 DEF Advance, AcquireGate, TrackIfAbsent, HoldHash,
         CtxCancelled, FetchFails, Upload, ListByInfoHash, FailActiveSiblings, ListRows,
         ReleaseHash, Untrack
    <2> QED
      BY <2>6, <2>7
  <1>2. ASSUME NEW w \in Worker, Reconciling(w) \/ WorkerCrash(w)
        PROVE  RowStep
    <2>1. CASE \E k \in Job : ReconcileRow(w, k)
      <3>1. PICK k \in Job : ReconcileRow(w, k)
        BY <2>1
      <3>2. <<qcur[w][2], HashOf[k]>> \in manifests
        BY <3>1 DEF ReconcileRow, ContentInv
      <3>3. qcur[w][2] \in Node
        BY <3>2 DEF TypeOK, RowTypeOK
      <3> QED
        BY <3>1, <3>2, <3>3 DEF ReconcileRow, RowStep, RowWrite
    <2>2. CASE WorkerCrash(w)
      BY <2>2 DEF WorkerCrash, RowStep
    <2>3. CASE \E m \in Job \X Node \X Concurrency : ReconcileJob(w, m)
      BY <2>3 DEF ReconcileJob, RowStep
    <2> QED
      BY <1>2, <2>1, <2>2, <2>3 DEF Reconciling
  <1>3. ASSUME NEW j \in Job,
               Admit(j) \/ Enqueue(j) \/ Assigning(j) \/ AssignCrash(j) \/ Delete(j)
        PROVE  RowStep
    <2>1. CASE Admit(j) \/ Enqueue(j)
      BY <2>1 DEF Admit, Enqueue, RowStep
    <2>2. CASE Delete(j)
      BY <2>2 DEF Delete, RowStep
    <2>3. CASE \E n \in Node : AssignUpdate(j, n)
      BY <2>3 DEF AssignUpdate, RowStep, RowWrite
    <2>4. CASE AssignPublish(j) \/ AssignCrash(j)
      BY <2>4 DEF AssignPublish, AssignCrash, RowStep
    <2> QED
      BY <1>3, <2>1, <2>2, <2>3, <2>4 DEF Assigning
  <1>4. CASE Lose
    BY <1>4 DEF Lose, RowStep
  <1>5. ASSUME NEW r \in Run, NEW j \in Job, NEW n \in Node, Process(r, j, n)
        PROVE  RowStep
    BY <1>5 DEF Process, RowStep
  <1>6. ASSUME NEW w \in Worker, NEW j \in Job, Cancel(w, j)
        PROVE  RowStep
    BY <1>6 DEF Cancel, RowStep
  <1>7. ASSUME NEW w \in Worker, NEW s \in Concurrency, ReconcileList(w, s)
        PROVE  RowStep
    BY <1>7 DEF ReconcileList, RowStep
  <1> QED
    BY <1>1, <1>2, <1>3, <1>4, <1>5, <1>6, <1>7 DEF Next

\* So a deleted row stays deleted, a row never becomes one that was not there, and
\* types stay.
LEMMA RowsGo ==
  ASSUME RowTypeOK, RowStep
  PROVE  /\ status' \in [Job -> Status] /\ node' \in [Job -> Node]
         /\ \A k \in Job : status[k] # "none" => status'[k] # "none"
         /\ \A k \in Job : status[k] = "deleted" => status'[k] = "deleted"
  <1>1. CASE UNCHANGED rows
    BY <1>1 DEF rows, RowTypeOK
  <1>2. CASE \E j \in Job, s \in Status, n \in Node : RowWrite(j, s, n)
    BY <1>2 DEF RowWrite, Update, Present, RowTypeOK
  <1>3. CASE \E j \in Job : Present(j) /\ status' = [status EXCEPT ![j] = "deleted"] /\ node' = node
    BY <1>3 DEF RowTypeOK
  <1>4. CASE \E j \in Job, s \in {"pending", "queued"} :
               status[j] # "deleted" /\ status' = [status EXCEPT ![j] = s] /\ node' = node
    BY <1>4 DEF RowTypeOK
  <1> QED
    BY <1>1, <1>2, <1>3, <1>4 DEF RowStep

\* Only an admission and Assign itself move an Assign.
LEMMA CallsStep ==
  ASSUME Next
  PROVE  UNCHANGED calls \/ \E j \in Job : Admit(j) \/ Assigning(j) \/ AssignCrash(j)
  <1>1. ASSUME NEW r \in Run, AcquireGate(r) \/ Advance(r) \/ NoteFile(r)
        PROVE  UNCHANGED calls
    BY <1>1 DEF AcquireGate, Advance, NoteFile, TrackIfAbsent, HoldHash, StartDownload, CtxCancelled,
       FetchFails, StartPublish, Upload, ListByInfoHash, Fail, FailActiveSiblings, CompleteRow,
       FailRow, WriteRow, ListRows, ReleaseHash, Untrack
  <1>2. ASSUME NEW w \in Worker, Reconciling(w) \/ WorkerCrash(w)
        PROVE  UNCHANGED calls
    BY <1>2 DEF Reconciling, ReconcileJob, ReconcileRow, WorkerCrash
  <1> QED
    BY <1>1, <1>2 DEF Next, Enqueue, Delete, Cancel, ReconcileList, Lose, Process

\* Only a deletion adds to what is to be cancelled.
LEMMA DeletedStep ==
  ASSUME Next
  PROVE  \/ deleted' \subseteq deleted
         \/ \E j \in Job : Delete(j)
  <1>1. ASSUME NEW r \in Run, AcquireGate(r) \/ Advance(r) \/ NoteFile(r)
        PROVE  UNCHANGED deleted
    BY <1>1 DEF AcquireGate, Advance, NoteFile, TrackIfAbsent, HoldHash, StartDownload, CtxCancelled,
       FetchFails, StartPublish, Upload, ListByInfoHash, Fail, FailActiveSiblings, CompleteRow,
       FailRow, WriteRow, ListRows, ReleaseHash, Untrack, msgs
  <1>2. ASSUME NEW w \in Worker, Reconciling(w) \/ WorkerCrash(w)
        PROVE  deleted' \subseteq deleted
    BY <1>2 DEF Reconciling, ReconcileJob, ReconcileRow, WorkerCrash, msgs
  <1>3. ASSUME NEW j \in Job, Admit(j) \/ Enqueue(j) \/ Assigning(j) \/ AssignCrash(j)
        PROVE  UNCHANGED deleted
    BY <1>3 DEF Admit, Enqueue, Assigning, AssignUpdate, AssignPublish, AssignCrash, msgs
  <1> QED
    BY <1>1, <1>2, <1>3 DEF Next, Cancel, ReconcileList, Lose, Process, msgs

\* Only a reconciliation and a crash move the reconciliations.
LEMMA ReconsStep ==
  ASSUME Next
  PROVE  \/ UNCHANGED recons
         \/ \E w \in Worker : Reconciling(w) \/ WorkerCrash(w) \/ \E s \in Concurrency : ReconcileList(w, s)
  <1>1. ASSUME NEW r \in Run, AcquireGate(r) \/ Advance(r) \/ NoteFile(r)
        PROVE  UNCHANGED recons
    BY <1>1 DEF AcquireGate, Advance, NoteFile, TrackIfAbsent, HoldHash, StartDownload, CtxCancelled,
       FetchFails, StartPublish, Upload, ListByInfoHash, Fail, FailActiveSiblings, CompleteRow,
       FailRow, WriteRow, ListRows, ReleaseHash, Untrack
  <1>2. ASSUME NEW j \in Job, Admit(j) \/ Enqueue(j) \/ Assigning(j) \/ AssignCrash(j) \/ Delete(j)
        PROVE  UNCHANGED recons
    BY <1>2 DEF Admit, Enqueue, Assigning, AssignUpdate, AssignPublish, AssignCrash, Delete
  <1> QED
    BY <1>1, <1>2 DEF Next, Cancel, Lose, Process

\* The rows, Assign, the messages and the manifests keep their types.
LEMMA RowTyped ==
  ASSUME TypeOK, RunsAreLoaded, AssignInv, ContentInv, Next
  PROVE  RowTypeOK'
  <1>1. status' \in [Job -> Status] /\ node' \in [Job -> Node]
    BY RowsStep, RowsGo DEF TypeOK
  <1>2. call' \in [Job -> {"none", "update", "publish"}] /\ cnode' \in [Job -> Node \cup {NoNode}]
    <2>1. CASE UNCHANGED calls
      BY <2>1 DEF calls, TypeOK, RowTypeOK
    <2>2. CASE \E j \in Job : Admit(j) \/ Assigning(j) \/ AssignCrash(j)
      BY <2>2 DEF Admit, Assigning, AssignUpdate, AssignPublish, AssignCrash, TypeOK, RowTypeOK
    <2> QED
      BY <2>1, <2>2, CallsStep
  <1>3. assigned' \subseteq Job \X Node /\ deleted' \subseteq Worker \X Job
    <2>1. CASE UNCHANGED msgs
      BY <2>1 DEF msgs, TypeOK, RowTypeOK
    <2>2. ASSUME NEW j \in Job, Admit(j) \/ Enqueue(j) \/ Assigning(j) \/ AssignCrash(j) \/ Delete(j)
          PROVE  assigned' \subseteq Job \X Node /\ deleted' \subseteq Worker \X Job
      <3>1. CASE AssignPublish(j)
        BY <3>1 DEF AssignPublish, AssignInv, TypeOK, RowTypeOK
      <3>2. CASE Delete(j)
        BY <3>2 DEF Delete, TypeOK, RowTypeOK
      <3>3. CASE UNCHANGED msgs
        BY <2>1, <3>3
      <3> QED
        BY <2>2, <3>1, <3>2, <3>3 DEF Admit, Enqueue, Assigning, AssignUpdate, AssignCrash
    <2>4. ASSUME NEW r \in Run, AcquireGate(r) \/ Advance(r) \/ NoteFile(r)
          PROVE  UNCHANGED msgs
      BY <2>4 DEF AcquireGate, Advance, NoteFile, TrackIfAbsent, HoldHash, StartDownload, CtxCancelled,
         FetchFails, StartPublish, Upload, ListByInfoHash, Fail, FailActiveSiblings, CompleteRow,
         FailRow, WriteRow, ListRows, ReleaseHash, Untrack
    <2>5. ASSUME NEW w \in Worker, Reconciling(w) \/ WorkerCrash(w)
          PROVE  assigned' \subseteq Job \X Node /\ deleted' \subseteq Worker \X Job
      <3>1. ASSUME NEW m \in Job \X Node \X Concurrency, ReconcileJob(w, m)
            PROVE  assigned' \subseteq assigned \cup {<<m[1], m[2]>>} /\ deleted' = deleted
        BY <3>1 DEF ReconcileJob
      <3>2. CASE \E m \in Job \X Node \X Concurrency : ReconcileJob(w, m)
        BY <3>1, <3>2 DEF TypeOK, RowTypeOK
      <3>3. CASE \E k \in Job : ReconcileRow(w, k)
        BY <2>1, <3>3 DEF ReconcileRow
      <3>4. CASE WorkerCrash(w)
        BY <3>4 DEF WorkerCrash, TypeOK, RowTypeOK
      <3> QED
        BY <2>5, <3>2, <3>3, <3>4 DEF Reconciling
    <2>6. CASE \E w \in Worker : (\E j \in Job : Cancel(w, j)) \/ (\E s \in Concurrency : ReconcileList(w, s))
      BY <2>1, <2>6 DEF Cancel, ReconcileList, TypeOK, RowTypeOK
    <2>7. CASE Lose \/ \E r \in Run, j \in Job, n \in Node : Process(r, j, n)
      BY <2>1, <2>7 DEF Lose, Process, TypeOK, RowTypeOK
    <2> QED
      BY <2>1, <2>2, <2>4, <2>5, <2>6, <2>7 DEF Next
  <1>4. manifests' \subseteq Node \X Hash
    <2>1. CASE UNCHANGED manifests
      BY <2>1 DEF TypeOK, RowTypeOK
    <2>2. CASE \E r \in Run : Upload(r)
      BY <2>2, RunHasJob DEF Upload, HashOfRun, TypeOK, RowTypeOK
    <2>3. CASE ~UNCHANGED manifests
      BY <2>2, <2>3 DEF Next, Admit, Enqueue, Assigning, AssignUpdate, AssignPublish, AssignCrash, Delete,
         Lose, Process, AcquireGate, Advance, NoteFile, TrackIfAbsent, HoldHash, StartDownload,
         CtxCancelled, FetchFails, StartPublish, ListByInfoHash, Fail, FailActiveSiblings,
         CompleteRow, FailRow, WriteRow, ListRows, ReleaseHash, Untrack, Cancel, Reconciling,
         ReconcileJob, ReconcileRow, ReconcileList, WorkerCrash
    <2> QED
      BY <2>1, <2>3
  <1> QED
    BY <1>1, <1>2, <1>3, <1>4 DEF RowTypeOK

\* What the API, the bus and a reconciliation do leaves the runs and the memory alone.
LEMMA OutsideRuns ==
  ASSUME Next,
         ~ \E r \in Run : AcquireGate(r) \/ Advance(r) \/ NoteFile(r)
                           \/ \E j \in Job, n \in Node : Process(r, j, n),
         ~ \E w \in Worker : WorkerCrash(w) \/ \E j \in Job : Cancel(w, j)
  PROVE  UNCHANGED <<runs, memory>>
  <1>1. ASSUME NEW j \in Job, Admit(j) \/ Enqueue(j) \/ Assigning(j) \/ AssignCrash(j) \/ Delete(j)
        PROVE  UNCHANGED <<runs, memory>>
    BY <1>1 DEF Admit, Enqueue, Assigning, AssignUpdate, AssignPublish, AssignCrash, Delete
  <1>2. CASE Lose
    BY <1>2 DEF Lose
  <1>3. ASSUME NEW w \in Worker, Reconciling(w) \/ \E s \in Concurrency : ReconcileList(w, s)
        PROVE  UNCHANGED <<runs, memory>>
    BY <1>3 DEF Reconciling, ReconcileJob, ReconcileRow, ReconcileList
  <1> QED
    BY <1>1, <1>2, <1>3 DEF Next

\* The steps between Process and the end of a run move one run, keep its job and leave
\* the registry and the held hashes alone.
LEMMA InsideRun ==
  ASSUME TypeOK, RunsAreLoaded, NEW r \in Run,
         AcquireGate(r) \/ Advance(r) \/ NoteFile(r),
         ~ (TrackIfAbsent(r) \/ HoldHash(r) \/ ReleaseHash(r) \/ Untrack(r))
  PROVE  /\ UNCHANGED <<rjob, live, memory>>
         /\ pc[r] \in Gated \cup {"gate"}
         /\ \E l \in Gated \cup {"release"} : pc' = [pc EXCEPT ![r] = l]
         /\ \E S \in SUBSET Job : sibs' = [sibs EXCEPT ![r] = S]
         /\ \E n \in Node : rnode' = [rnode EXCEPT ![r] = n]
  <1>1. pc[r] \in Gated \cup {"gate"}
    BY DEF AcquireGate, Advance, NoteFile, StartDownload, CtxCancelled, UnderCtx, FetchFails, StartPublish,
       Upload, ListByInfoHash, Fail, FailActiveSiblings, CompleteRow, FailRow
  <1>2. rjob[r] \in Job /\ rnode[r] \in Node
    BY <1>1, RunHasJob
  <1>3. /\ pc = [pc EXCEPT ![r] = pc[r]]
        /\ sibs = [sibs EXCEPT ![r] = sibs[r]] /\ sibs[r] \in SUBSET Job
        /\ rnode = [rnode EXCEPT ![r] = rnode[r]]
    BY DEF TypeOK, RunTypeOK
  <1>4. UNCHANGED <<rjob, live, memory>>
    BY DEF AcquireGate, Advance, NoteFile, StartDownload, CtxCancelled, FetchFails, StartPublish, Upload,
       ListByInfoHash, Fail, FailActiveSiblings, CompleteRow, FailRow, WriteRow, ListRows, runs
  <1>5. \E l \in Gated \cup {"release"} : pc' = [pc EXCEPT ![r] = l]
    <2>1. CASE NoteFile(r)
      BY <1>3, <2>1 DEF NoteFile, runs
    <2>2. CASE ListByInfoHash(r) \/ FailActiveSiblings(r)
      BY <2>2 DEF ListByInfoHash, FailActiveSiblings, ListRows, Goto
    <2>3. CASE \E k \in Job : CompleteRow(r, k) \/ FailRow(r, k)
      BY <2>3 DEF CompleteRow, FailRow, WriteRow, Goto
    <2> QED
      BY <2>1, <2>2, <2>3 DEF AcquireGate, Advance, StartDownload, CtxCancelled, FetchFails,
         StartPublish, Upload, Fail, Goto
  <1>6. \E S \in SUBSET Job : sibs' = [sibs EXCEPT ![r] = S]
    <2>1. CASE sibs' = sibs
      BY <1>3, <2>1
    <2>2. CASE ListByInfoHash(r) \/ FailActiveSiblings(r)
      BY <2>2 DEF ListByInfoHash, FailActiveSiblings, ListRows, Completable, FailableWith, RowsOf
    <2>3. CASE \E k \in Job : CompleteRow(r, k) \/ FailRow(r, k)
      BY <1>3, <2>3 DEF CompleteRow, FailRow, WriteRow
    <2>4. CASE CtxCancelled(r)
      BY <2>4 DEF CtxCancelled
    <2> QED
      BY <2>1, <2>2, <2>3, <2>4 DEF AcquireGate, Advance, NoteFile, StartDownload, FetchFails,
         StartPublish, Upload, Fail, runs
  <1>7. \E n \in Node : rnode' = [rnode EXCEPT ![r] = n]
    <2>1. CASE rnode' = rnode
      BY <1>2, <1>3, <2>1
    <2>2. CASE \E n \in Node : StartPublish(r, n)
      BY <2>2 DEF StartPublish
    <2> QED
      BY <2>1, <2>2 DEF AcquireGate, Advance, NoteFile, StartDownload, CtxCancelled, FetchFails,
         Upload, ListByInfoHash, Fail, FailActiveSiblings, CompleteRow, FailRow, WriteRow,
         ListRows, runs
  <1> QED
    BY <1>1, <1>4, <1>5, <1>6, <1>7

\* The same, run by run.
LEMMA InsideRunAt ==
  ASSUME TypeOK, RunsAreLoaded, NEW r \in Run,
         AcquireGate(r) \/ Advance(r) \/ NoteFile(r),
         ~ (TrackIfAbsent(r) \/ HoldHash(r) \/ ReleaseHash(r) \/ Untrack(r))
  PROVE  /\ UNCHANGED <<rjob, live, tracked, held>>
         /\ pc[r] \in Gated \cup {"gate"} /\ pc'[r] \in Gated \cup {"release"}
         /\ rnode'[r] \in Node
         /\ \A s \in Run \ {r} : pc'[s] = pc[s] /\ rnode'[s] = rnode[s] /\ sibs'[s] = sibs[s]
  <1>1. /\ UNCHANGED <<rjob, live, tracked, held>>
        /\ pc[r] \in Gated \cup {"gate"}
        /\ \E l \in Gated \cup {"release"} : pc' = [pc EXCEPT ![r] = l]
        /\ \E S \in SUBSET Job : sibs' = [sibs EXCEPT ![r] = S]
        /\ \E n \in Node : rnode' = [rnode EXCEPT ![r] = n]
    BY InsideRun DEF memory
  <1> QED
    BY <1>1 DEF TypeOK, RunTypeOK

\* The end of a run, run by run.
LEMMA RunEndsAt ==
  ASSUME TypeOK, NEW r \in Run, RunEnds(r)
  PROVE  /\ pc'[r] = "idle" /\ rjob'[r] = NoJob /\ rnode'[r] = NoNode
         /\ \A s \in Run \ {r} : pc'[s] = pc[s] /\ rjob'[s] = rjob[s] /\ rnode'[s] = rnode[s]
  BY DEF RunEnds, Goto, TypeOK, RunTypeOK

\* The runs, the registry and the held hashes keep their types.
LEMMA RunTyped ==
  ASSUME TypeOK, RunsAreLoaded, Next
  PROVE  RunTypeOK'
  <1>1. CASE UNCHANGED <<runs, memory>>
    BY <1>1 DEF runs, memory, TypeOK, RunTypeOK
  <1>2. ASSUME NEW r \in Run, AcquireGate(r) \/ Advance(r) \/ NoteFile(r)
        PROVE  RunTypeOK'
    <2>1. CASE TrackIfAbsent(r)
      <3>1. rjob[r] \in Job /\ WorkerOf[r] \in Worker
        BY <2>1, RunHasJob DEF TrackIfAbsent
      <3>2. CASE Registered(r) = NoRun
        <4>1. /\ tracked' = [tracked EXCEPT ![WorkerOf[r]] = [@ EXCEPT ![rjob[r]] = r]]
              /\ pc' = [pc EXCEPT ![r] = "hold"] /\ UNCHANGED <<rjob, rnode, sibs, live, held>>
          BY <2>1, <3>2 DEF TrackIfAbsent, Goto
        <4> QED
          BY <3>1, <4>1 DEF TypeOK, RunTypeOK
      <3>3. CASE Registered(r) # NoRun
        BY <2>1, <3>3 DEF TrackIfAbsent, RunEnds, Goto, TypeOK, RunTypeOK
      <3> QED
        BY <3>2, <3>3
    <2>2. CASE HoldHash(r)
      BY <2>2, RunHasJob DEF HoldHash, Goto, HashOfRun, TypeOK, RunTypeOK
    <2>3. CASE ReleaseHash(r)
      BY <2>3 DEF ReleaseHash, Goto, TypeOK, RunTypeOK
    <2>4. CASE Untrack(r)
      BY <2>4, RunHasJob DEF Untrack, RunEnds, Goto, TypeOK, RunTypeOK
    <2>5. CASE ~ (TrackIfAbsent(r) \/ HoldHash(r) \/ ReleaseHash(r) \/ Untrack(r))
      <3>1. /\ UNCHANGED <<rjob, live, tracked, held>>
            /\ \E l \in Gated \cup {"release"} : pc' = [pc EXCEPT ![r] = l]
            /\ \E S \in SUBSET Job : sibs' = [sibs EXCEPT ![r] = S]
            /\ \E n \in Node : rnode' = [rnode EXCEPT ![r] = n]
        BY <1>2, <2>5, InsideRun DEF memory
      <3> QED
        BY <3>1 DEF TypeOK, RunTypeOK
    <2> QED
      BY <2>1, <2>2, <2>3, <2>4, <2>5
  <1>3. ASSUME NEW r \in Run, NEW j \in Job, NEW n \in Node, Process(r, j, n)
        PROVE  RunTypeOK'
    <2>1. CASE Present(j)
      <3>1. /\ rjob' = [rjob EXCEPT ![r] = j] /\ rnode' = [rnode EXCEPT ![r] = node[j]]
            /\ pc' = [pc EXCEPT ![r] = "track"] /\ UNCHANGED <<sibs, live, tracked, held>>
        BY <1>3, <2>1 DEF Process, Goto, memory
      <3>2. node[j] \in Node
        BY DEF TypeOK, RowTypeOK
      <3> QED
        BY <3>1, <3>2 DEF TypeOK, RunTypeOK
    <2>2. CASE ~Present(j)
      BY <1>3, <2>2 DEF Process, memory, TypeOK, RunTypeOK
    <2> QED
      BY <2>1, <2>2
  <1>4. ASSUME NEW w \in Worker, NEW j \in Job, Cancel(w, j)
        PROVE  RunTypeOK'
    BY <1>4 DEF Cancel, TypeOK, RunTypeOK
  <1>5. ASSUME NEW w \in Worker, WorkerCrash(w)
        PROVE  RunTypeOK'
    BY <1>5 DEF WorkerCrash, TypeOK, RunTypeOK
  <1> QED
    BY <1>1, <1>2, <1>3, <1>4, <1>5, OutsideRuns

\* A reconciliation keeps the types of what it has listed.
LEMMA QueueTyped ==
  ASSUME TypeOK, Next
  PROVE  QueueTypeOK'
  <1>1. CASE UNCHANGED recons
    BY <1>1 DEF recons, TypeOK, QueueTypeOK
  <1>2. ASSUME NEW w \in Worker, NEW m \in Job \X Node \X Concurrency, ReconcileJob(w, m)
        PROVE  QueueTypeOK'
    <2>1. Completable(HashOf[m[1]], m[2]) \subseteq Job /\ <<m[1], m[2]>> \in Job \X Node
      BY DEF Completable, RowsOf
    <2>2. /\ todo' = [todo EXCEPT ![w] = @ \ {m}]
          /\ \/ UNCHANGED <<qcur, qsibs>>
             \/ /\ qsibs' = [qsibs EXCEPT ![w] = Completable(HashOf[m[1]], m[2])]
                /\ \/ qcur' = [qcur EXCEPT ![w] = NoMsg]
                   \/ qcur' = [qcur EXCEPT ![w] = <<m[1], m[2]>>]
      BY <1>2 DEF ReconcileJob
    <2>3. todo' \in [Worker -> SUBSET (Job \X Node \X Concurrency)]
      BY <2>2 DEF TypeOK, QueueTypeOK
    <2>4. qcur' \in [Worker -> (Job \cup {NoJob}) \X (Node \cup {NoNode})]
      BY <2>1, <2>2 DEF TypeOK, QueueTypeOK
    <2>5. qsibs' \in [Worker -> SUBSET Job]
      BY <2>1, <2>2 DEF TypeOK, QueueTypeOK
    <2> QED
      BY <2>3, <2>4, <2>5 DEF QueueTypeOK
  <1>3. ASSUME NEW w \in Worker, NEW k \in Job, ReconcileRow(w, k)
        PROVE  QueueTypeOK'
    BY <1>3 DEF ReconcileRow, TypeOK, QueueTypeOK
  <1>4. ASSUME NEW w \in Worker, NEW s \in Concurrency, ReconcileList(w, s)
        PROVE  QueueTypeOK'
    BY <1>4 DEF ReconcileList, TypeOK, RowTypeOK, QueueTypeOK
  <1>5. ASSUME NEW w \in Worker, WorkerCrash(w)
        PROVE  QueueTypeOK'
    BY <1>5 DEF WorkerCrash, TypeOK, QueueTypeOK
  <1> QED
    BY <1>1, <1>2, <1>3, <1>4, <1>5, ReconsStep DEF Reconciling

\* The bounds hold.
LEMMA BoundsTyped ==
  ASSUME TypeOK, Next
  PROVE  admits' \in 0..MaxAdmit /\ losses' \in 0..MaxLoss /\ crashes' \in 0..MaxCrash
  <1>1. CASE UNCHANGED bounds
    BY <1>1 DEF bounds, TypeOK
  <1>2. ASSUME NEW j \in Job, Admit(j) \/ Enqueue(j) \/ Assigning(j) \/ AssignCrash(j) \/ Delete(j)
        PROVE  admits' \in 0..MaxAdmit /\ losses' \in 0..MaxLoss /\ crashes' \in 0..MaxCrash
    BY <1>1, <1>2 DEF Admit, Enqueue, Assigning, AssignUpdate, AssignPublish, AssignCrash, Delete, TypeOK
  <1>3. ASSUME NEW r \in Run, AcquireGate(r) \/ Advance(r) \/ NoteFile(r)
        PROVE  UNCHANGED bounds
    BY <1>3 DEF AcquireGate, Advance, NoteFile, TrackIfAbsent, HoldHash, StartDownload, CtxCancelled,
       FetchFails, StartPublish, Upload, ListByInfoHash, Fail, FailActiveSiblings, CompleteRow,
       FailRow, WriteRow, ListRows, ReleaseHash, Untrack
  <1>4. CASE \E w \in Worker : WorkerCrash(w)
    BY <1>4 DEF WorkerCrash, TypeOK
  <1>5. CASE Lose
    BY <1>5 DEF Lose, TypeOK
  <1>6. ASSUME NEW w \in Worker,
               Reconciling(w) \/ (\E s \in Concurrency : ReconcileList(w, s)) \/ (\E j \in Job : Cancel(w, j))
        PROVE  UNCHANGED bounds
    BY <1>6 DEF Reconciling, ReconcileJob, ReconcileRow, ReconcileList, Cancel
  <1>7. ASSUME NEW r \in Run, NEW j \in Job, NEW n \in Node, Process(r, j, n)
        PROVE  UNCHANGED bounds
    BY <1>7 DEF Process
  <1> QED
    BY <1>1, <1>2, <1>3, <1>4, <1>5, <1>6, <1>7 DEF Next

\* Every step keeps the types.
LEMMA TypeStep ==
  ASSUME TypeOK, RunsAreLoaded, AssignInv, ContentInv, Next
  PROVE  TypeOK'
  BY RowTyped, RunTyped, QueueTyped, BoundsTyped DEF TypeOK

-----------------------------------------------------------------------------
(* The registry, the held hashes and what a run has loaded.                *)

\* A run that moves has a row, and a run that ends has none.
LEMMA LoadedStep ==
  ASSUME TypeOK, RunsAreLoaded, ContentInv, Next
  PROVE  RunsAreLoaded'
  <1> USE DEF TypeOK, RowTypeOK, RunTypeOK
  <1>1. \A k \in Job : status[k] # "none" => status'[k] # "none"
    BY RowsStep, RowsGo
  <1>2. CASE UNCHANGED <<runs, memory>>
    BY <1>1, <1>2 DEF runs, RunsAreLoaded
  <1>3. ASSUME NEW r \in Run, AcquireGate(r) \/ Advance(r) \/ NoteFile(r)
        PROVE  RunsAreLoaded'
    <2>1. CASE TrackIfAbsent(r)
      <3>1. CASE Registered(r) = NoRun
        BY <1>1, <2>1, <3>1 DEF TrackIfAbsent, Goto, RunsAreLoaded
      <3>2. CASE Registered(r) # NoRun
        <4>1. RunEnds(r)
          BY <2>1, <3>2 DEF TrackIfAbsent
        <4>2. pc'[r] = "idle" /\ rjob'[r] = NoJob /\ rnode'[r] = NoNode
          BY <4>1, RunEndsAt
        <4>3. \A s \in Run \ {r} : pc'[s] = pc[s] /\ rjob'[s] = rjob[s] /\ rnode'[s] = rnode[s]
          BY <4>1, RunEndsAt
        <4>4. \A s \in Run \ {r} : pc[s] # "idle" => status'[rjob[s]] # "none"
          BY <1>1, RunHasJob
        <4> QED
          BY <4>2, <4>3, <4>4 DEF RunsAreLoaded
      <3> QED
        BY <3>1, <3>2
    <2>2. CASE HoldHash(r) \/ ReleaseHash(r)
      BY <1>1, <2>2 DEF HoldHash, ReleaseHash, Goto, RunsAreLoaded
    <2>3. CASE Untrack(r)
      BY <1>1, <2>3 DEF Untrack, RunEnds, Goto, RunsAreLoaded
    <2>4. CASE ~ (TrackIfAbsent(r) \/ HoldHash(r) \/ ReleaseHash(r) \/ Untrack(r))
      <3>1. \A s \in Run : (pc'[s] = "idle" <=> pc[s] = "idle") /\ (rnode'[s] = NoNode <=> rnode[s] = NoNode)
        <4>1. pc[r] # "idle" /\ pc'[r] # "idle" /\ rnode[r] \in Node /\ rnode'[r] \in Node
          BY <1>3, <2>4, InsideRunAt, RunHasJob
        <4>2. \A s \in Run \ {r} : pc'[s] = pc[s] /\ rnode'[s] = rnode[s]
          BY <1>3, <2>4, InsideRunAt
        <4> QED
          BY <4>1, <4>2
      <3>2. rjob' = rjob
        BY <1>3, <2>4, InsideRunAt
      <3> QED
        BY <1>1, <3>1, <3>2 DEF RunsAreLoaded
    <2> QED
      BY <2>1, <2>2, <2>3, <2>4
  <1>4. ASSUME NEW r \in Run, NEW j \in Job, NEW n \in Node, Process(r, j, n)
        PROVE  RunsAreLoaded'
    BY <1>1, <1>4 DEF Process, Goto, Present, RunsAreLoaded, rows
  <1>5. ASSUME NEW w \in Worker, NEW j \in Job, Cancel(w, j)
        PROVE  RunsAreLoaded'
    BY <1>1, <1>5 DEF Cancel, RunsAreLoaded
  <1>6. ASSUME NEW w \in Worker, WorkerCrash(w)
        PROVE  RunsAreLoaded'
    BY <1>1, <1>6 DEF WorkerCrash, RunsAreLoaded
  <1> QED
    BY <1>2, <1>3, <1>4, <1>5, <1>6, OutsideRuns

\* Assign publishes what it has written.
LEMMA AssignStep ==
  ASSUME TypeOK, AssignInv, Next
  PROVE  AssignInv'
  <1>1. CASE UNCHANGED calls
    BY <1>1 DEF calls, AssignInv
  <1>2. CASE \E j \in Job : Admit(j) \/ Assigning(j) \/ AssignCrash(j)
    BY <1>2 DEF Admit, Assigning, AssignUpdate, AssignPublish, AssignCrash, AssignInv, TypeOK, RowTypeOK
  <1> QED
    BY <1>1, <1>2, CallsStep

\* What is deleted stays deleted.
LEMMA GoneStep ==
  ASSUME TypeOK, RunsAreLoaded, ContentInv, DeletedAreGone, Next
  PROVE  DeletedAreGone'
  <1>1. \A k \in Job : status[k] = "deleted" => status'[k] = "deleted"
    BY RowsStep, RowsGo DEF TypeOK
  <1>2. CASE deleted' \subseteq deleted
    BY <1>1, <1>2 DEF DeletedAreGone, TypeOK, RowTypeOK
  <1>3. CASE \E j \in Job : Delete(j)
    <2>1. PICK j \in Job : Delete(j)
      BY <1>3
    <2>2. status'[j] = "deleted" /\ deleted' \subseteq deleted \cup (Worker \X {j})
      BY <2>1 DEF Delete, TypeOK, RowTypeOK
    <2> QED
      BY <1>1, <2>2 DEF DeletedAreGone, TypeOK, RowTypeOK
  <1> QED
    BY <1>2, <1>3, DeletedStep

\* The registry's entry of a run's job is taken away only from a job that is gone, or by
\* the run itself.
LEMMA RegistryStep ==
  ASSUME TypeOK, RunsAreLoaded, RegistryInv, DeletedAreGone, ContentInv, Next
  PROVE  RegistryInv'
  <1> USE DEF TypeOK, RowTypeOK, RunTypeOK
  <1>1. \A s \in Run : rjob[s] \in Job /\ status'[rjob[s]] \notin {"none", "deleted"} => Present(rjob[s])
    BY RowsStep, RowsGo DEF Present, RunsAreLoaded
  <1>2. CASE UNCHANGED <<runs, memory>>
    BY <1>1, <1>2, RunHasJob DEF runs, memory, RegistryInv, Registered, Present
  <1>3. ASSUME NEW r \in Run, AcquireGate(r) \/ Advance(r) \/ NoteFile(r)
        PROVE  RegistryInv'
    <2>1. CASE TrackIfAbsent(r)
      <3>1. CASE Registered(r) = NoRun
        <4>1. rjob[r] \in Job /\ pc[r] = "track"
          BY <2>1, RunHasJob DEF TrackIfAbsent
        <4>2. /\ rjob' = rjob /\ pc' = [pc EXCEPT ![r] = "hold"]
              /\ tracked' = [tracked EXCEPT ![WorkerOf[r]] = [@ EXCEPT ![rjob[r]] = r]]
          BY <2>1, <3>1 DEF TrackIfAbsent, Goto
        <4>3. tracked'[WorkerOf[r]][rjob[r]] = r
          BY <4>1, <4>2
        <4>4. \A s \in Run \ {r} : pc'[s] \notin {"idle", "track"} /\ Present(rjob[s])
                 => tracked'[WorkerOf[s]][rjob[s]] = s
          <5>1. ASSUME NEW s \in Run \ {r}, pc'[s] \notin {"idle", "track"}, Present(rjob[s])
                PROVE  tracked'[WorkerOf[s]][rjob[s]] = s
            <6>1. tracked[WorkerOf[s]][rjob[s]] = s /\ rjob[s] \in Job /\ WorkerOf[s] \in Worker
              BY <4>2, <5>1, RunHasJob DEF RegistryInv, Registered
            <6>2. ~ (WorkerOf[s] = WorkerOf[r] /\ rjob[s] = rjob[r])
              BY <3>1, <6>1 DEF Registered
            <6> QED
              BY <4>1, <4>2, <6>1, <6>2
          <5> QED
            BY <5>1
        <4> QED
          BY <1>1, <4>1, <4>2, <4>3, <4>4, RunHasJob DEF RegistryInv, Registered, Present
      <3>2. CASE Registered(r) # NoRun
        <4>1. RunEnds(r) /\ tracked' = tracked
          BY <2>1, <3>2 DEF TrackIfAbsent
        <4> QED
          BY <1>1, <4>1, RunEndsAt, RunHasJob DEF RegistryInv, Registered, Present
      <3> QED
        BY <3>1, <3>2
    <2>2. CASE HoldHash(r) \/ ReleaseHash(r)
      BY <1>1, <2>2, RunHasJob DEF HoldHash, ReleaseHash, Goto, RegistryInv, Registered, Present
    <2>3. CASE Untrack(r)
      BY <1>1, <2>3, RunHasJob DEF Untrack, RunEnds, Goto, RegistryInv, Registered, Present
    <2>4. CASE ~ (TrackIfAbsent(r) \/ HoldHash(r) \/ ReleaseHash(r) \/ Untrack(r))
      <3>1. /\ rjob' = rjob /\ tracked' = tracked
            /\ \A s \in Run : pc'[s] \notin {"idle", "track"} => pc[s] \notin {"idle", "track"}
        BY <1>3, <2>4, InsideRunAt
      <3> QED
        BY <1>1, <3>1, RunHasJob DEF RegistryInv, Registered, Present
    <2> QED
      BY <2>1, <2>2, <2>3, <2>4
  <1>4. ASSUME NEW r \in Run, NEW j \in Job, NEW n \in Node, Process(r, j, n)
        PROVE  RegistryInv'
    <2>1. /\ tracked' = tracked
          /\ \A s \in Run : pc'[s] \notin {"idle", "track"} => pc[s] \notin {"idle", "track"} /\ rjob'[s] = rjob[s]
      BY <1>4 DEF Process, Goto, memory
    <2> QED
      BY <1>1, <2>1, RunHasJob DEF RegistryInv, Registered, Present
  <1>5. ASSUME NEW w \in Worker, NEW j \in Job, Cancel(w, j)
        PROVE  RegistryInv'
    BY <1>1, <1>5, RunHasJob DEF Cancel, DeletedAreGone, RegistryInv, Registered, Present
  <1>6. ASSUME NEW w \in Worker, WorkerCrash(w)
        PROVE  RegistryInv'
    BY <1>1, <1>6, RunHasJob DEF WorkerCrash, RegistryInv, Registered, Present
  <1> QED
    BY <1>2, <1>3, <1>4, <1>5, <1>6, OutsideRuns

\* A hash is held from HoldHash to ReleaseHash, by one run of its worker.
LEMMA HeldStep ==
  ASSUME TypeOK, RunsAreLoaded, HeldInv, OneDownloadPerHash, Next
  PROVE  HeldInv' /\ OneDownloadPerHash'
  <1> USE DEF TypeOK, RunTypeOK
  <1> DEFINE Slot(s) == <<WorkerOf[s], HashOf[rjob[s]]>>
  <1>0. ASSUME rjob' = rjob, held' = held, \A s \in Run : pc'[s] \in Holding <=> pc[s] \in Holding
        PROVE  HeldInv' /\ OneDownloadPerHash'
    BY <1>0 DEF HeldInv, OneDownloadPerHash, HashOfRun
  <1>1. ASSUME held' = held, NEW r \in Run, pc[r] \notin Holding, pc'[r] \notin Holding,
               \A s \in Run \ {r} : pc'[s] = pc[s] /\ rjob'[s] = rjob[s]
        PROVE  HeldInv' /\ OneDownloadPerHash'
    <2>1. \A s \in Run : (pc'[s] \in Holding <=> pc[s] \in Holding)
                         /\ (pc[s] \in Holding => rjob'[s] = rjob[s])
      BY <1>1
    <2>2. HeldInv'
      BY <1>1, <2>1 DEF HeldInv, HashOfRun
    <2>3. OneDownloadPerHash'
      BY <2>1 DEF OneDownloadPerHash, HashOfRun
    <2> QED
      BY <2>2, <2>3
  <1>2. CASE UNCHANGED <<runs, memory>>
    BY <1>0, <1>2 DEF runs, memory
  <1>3. ASSUME NEW r \in Run, AcquireGate(r) \/ Advance(r) \/ NoteFile(r)
        PROVE  HeldInv' /\ OneDownloadPerHash'
    <2>1. CASE TrackIfAbsent(r)
      <3>1. held' = held /\ pc[r] \notin Holding
        BY <2>1 DEF TrackIfAbsent
      <3>2. pc'[r] \notin Holding /\ \A s \in Run \ {r} : pc'[s] = pc[s] /\ rjob'[s] = rjob[s]
        BY <2>1, RunEndsAt DEF TrackIfAbsent, Goto
      <3> QED
        BY <1>1, <3>1, <3>2
    <2>2. CASE Untrack(r)
      <3>1. held' = held /\ pc[r] \notin Holding
        BY <2>2 DEF Untrack
      <3>2. pc'[r] \notin Holding /\ \A s \in Run \ {r} : pc'[s] = pc[s] /\ rjob'[s] = rjob[s]
        BY <2>2, RunEndsAt DEF Untrack
      <3> QED
        BY <1>1, <3>1, <3>2
    <2>3. CASE HoldHash(r)
      <3>1. CASE Slot(r) \in held
        <4>1. held' = held /\ pc[r] \notin Holding /\ pc' = [pc EXCEPT ![r] = "untrack"] /\ rjob' = rjob
          BY <2>3, <3>1 DEF HoldHash, Goto, HashOfRun
        <4> QED
          BY <1>1, <4>1
      <3>2. CASE Slot(r) \notin held
        <4>1. pc[r] = "hold" /\ pc' = [pc EXCEPT ![r] = "gate"] /\ rjob' = rjob /\ held' = held \cup {Slot(r)}
          BY <2>3, <3>2 DEF HoldHash, Goto, HashOfRun
        <4>2. \A s \in Run \ {r} : pc[s] \in Holding => Slot(s) # Slot(r)
          BY <3>2 DEF HeldInv, HashOfRun
        <4>3. HeldInv'
          BY <4>1 DEF HeldInv, HashOfRun
        <4>4. OneDownloadPerHash'
          BY <4>1, <4>2 DEF OneDownloadPerHash, HashOfRun
        <4> QED
          BY <4>3, <4>4
      <3> QED
        BY <3>1, <3>2
    <2>4. CASE ReleaseHash(r)
      <3>1. pc[r] = "release" /\ pc' = [pc EXCEPT ![r] = "untrack"] /\ rjob' = rjob /\ held' = held \ {Slot(r)}
        BY <2>4 DEF ReleaseHash, Goto, HashOfRun
      <3>2. \A s \in Run \ {r} : pc[s] \in Holding => Slot(s) # Slot(r)
        BY <3>1 DEF OneDownloadPerHash, HashOfRun
      <3>3. HeldInv'
        BY <3>1, <3>2 DEF HeldInv, HashOfRun
      <3>4. OneDownloadPerHash'
        BY <3>1 DEF OneDownloadPerHash, HashOfRun
      <3> QED
        BY <3>3, <3>4
    <2>5. CASE ~ (TrackIfAbsent(r) \/ HoldHash(r) \/ ReleaseHash(r) \/ Untrack(r))
      BY <1>0, <1>3, <2>5, InsideRunAt
    <2> QED
      BY <2>1, <2>2, <2>3, <2>4, <2>5
  <1>4. ASSUME NEW r \in Run, NEW j \in Job, NEW n \in Node, Process(r, j, n)
        PROVE  HeldInv' /\ OneDownloadPerHash'
    <2>1. /\ held' = held /\ pc[r] \notin Holding /\ pc'[r] \notin Holding
          /\ \A s \in Run \ {r} : pc'[s] = pc[s] /\ rjob'[s] = rjob[s]
      BY <1>4 DEF Process, Goto, memory
    <2> QED
      BY <1>1, <2>1
  <1>5. ASSUME NEW w \in Worker, NEW j \in Job, Cancel(w, j)
        PROVE  HeldInv' /\ OneDownloadPerHash'
    BY <1>0, <1>5 DEF Cancel
  <1>6. ASSUME NEW w \in Worker, WorkerCrash(w)
        PROVE  HeldInv' /\ OneDownloadPerHash'
    <2>1. \A s \in Run : WorkerOf[s] = w => pc'[s] = "idle"
      BY <1>6 DEF WorkerCrash
    <2>2. \A s \in Run : WorkerOf[s] # w => pc'[s] = pc[s] /\ rjob'[s] = rjob[s]
      BY <1>6 DEF WorkerCrash
    <2>3. held' = {p \in held : p[1] # w}
      BY <1>6 DEF WorkerCrash
    <2>4. \A s \in Run : pc'[s] \in Holding => WorkerOf[s] # w /\ pc[s] \in Holding /\ rjob'[s] = rjob[s]
      BY <2>1, <2>2
    <2>5. \A s \in Run : pc'[s] \in Holding => <<WorkerOf[s], HashOf[rjob'[s]]>> \in held'
      BY <2>3, <2>4 DEF HeldInv, HashOfRun
    <2>6. ASSUME NEW p \in held'
          PROVE  \E s \in Run : pc'[s] \in Holding /\ p = <<WorkerOf[s], HashOf[rjob'[s]]>>
      <3>1. p \in held /\ p[1] # w
        BY <2>3
      <3>2. PICK s \in Run : pc[s] \in Holding /\ p = Slot(s)
        BY <3>1 DEF HeldInv, HashOfRun
      <3>3. WorkerOf[s] # w
        BY <3>1, <3>2
      <3> QED
        BY <2>2, <3>2, <3>3
    <2>7. HeldInv'
      BY <2>5, <2>6 DEF HeldInv, HashOfRun
    <2>8. OneDownloadPerHash'
      BY <2>4 DEF OneDownloadPerHash, HashOfRun
    <2> QED
      BY <2>7, <2>8
  <1> QED
    BY <1>2, <1>3, <1>4, <1>5, <1>6, OutsideRuns

-----------------------------------------------------------------------------
(* The content behind the rows.                                            *)

\* A published content stays.
LEMMA ManifestsStay ==
  ASSUME Next
  PROVE  manifests \subseteq manifests'
  <1>1. ASSUME NEW r \in Run, AcquireGate(r) \/ Advance(r) \/ NoteFile(r)
        PROVE  manifests \subseteq manifests'
    BY <1>1 DEF AcquireGate, Advance, NoteFile, TrackIfAbsent, HoldHash, StartDownload, CtxCancelled,
       FetchFails, StartPublish, Upload, ListByInfoHash, Fail, FailActiveSiblings, CompleteRow,
       FailRow, WriteRow, ListRows, ReleaseHash, Untrack
  <1>2. ASSUME NEW w \in Worker, Reconciling(w) \/ WorkerCrash(w)
        PROVE  manifests' = manifests
    BY <1>2 DEF Reconciling, ReconcileJob, ReconcileRow, WorkerCrash
  <1>3. ASSUME NEW j \in Job, Admit(j) \/ Enqueue(j) \/ Assigning(j) \/ AssignCrash(j) \/ Delete(j)
        PROVE  manifests' = manifests
    BY <1>3 DEF Admit, Enqueue, Assigning, AssignUpdate, AssignPublish, AssignCrash, Delete
  <1> QED
    BY <1>1, <1>2, <1>3 DEF Next, Cancel, ReconcileList, Lose, Process

\* What a run is about to complete.
RunContent(r) ==
  /\ pc[r] \in {"list", "complete"} => <<rnode[r], HashOfRun(r)>> \in manifests
  /\ pc[r] = "complete" => \A k \in sibs[r] : HashOf[k] = HashOfRun(r)

\* What a reconciliation is about to complete.
QueueContent(w) == \A k \in Job : k \in qsibs[w] => <<qcur[w][2], HashOf[k]>> \in manifests

LEMMA ContentParts ==
  ContentInv <=> (\A r \in Run : RunContent(r)) /\ (\A w \in Worker : QueueContent(w))
  BY DEF ContentInv, RunContent, QueueContent

\* A run reaches its listing only through the upload of the content it lists.
LEMMA RunContentStep ==
  ASSUME TypeOK, RunsAreLoaded, ContentInv, Next, NEW s \in Run
  PROVE  RunContent(s)'
  <1> USE DEF TypeOK, RowTypeOK, RunTypeOK
  <1>0. manifests \subseteq manifests' /\ RunContent(s)
    BY ManifestsStay, ContentParts
  <1>1. CASE pc'[s] = pc[s] /\ rjob'[s] = rjob[s] /\ rnode'[s] = rnode[s] /\ sibs'[s] = sibs[s]
    BY <1>0, <1>1 DEF RunContent, HashOfRun
  <1>2. CASE pc'[s] \notin {"list", "complete"}
    BY <1>2 DEF RunContent
  <1>3. CASE UNCHANGED <<runs, memory>>
    BY <1>1, <1>3 DEF runs
  <1>4. ASSUME NEW r \in Run, AcquireGate(r) \/ Advance(r) \/ NoteFile(r), r # s
        PROVE  RunContent(s)'
    BY <1>1, <1>4 DEF AcquireGate, Advance, NoteFile, TrackIfAbsent, HoldHash, StartDownload, CtxCancelled,
       FetchFails, StartPublish, Upload, ListByInfoHash, Fail, FailActiveSiblings, CompleteRow,
       FailRow, WriteRow, ListRows, ReleaseHash, Untrack, RunEnds, Goto, runs
  <1>5. ASSUME AcquireGate(s) \/ Advance(s) \/ NoteFile(s)
        PROVE  RunContent(s)'
    <2>1. CASE Upload(s)
      BY <2>1, RunHasJob DEF Upload, Goto, RunContent, HashOfRun
    <2>2. CASE ListByInfoHash(s)
      <3>1. pc[s] = "list" /\ rjob' = rjob /\ rnode' = rnode
        BY <2>2 DEF ListByInfoHash, ListRows
      <3>2. sibs'[s] = Completable(HashOfRun(s), rnode[s])
        BY <2>2 DEF ListByInfoHash, ListRows
      <3>3. \A k \in sibs'[s] : HashOf[k] = HashOfRun(s)
        BY <3>2 DEF Completable, RowsOf
      <3> QED
        BY <1>0, <3>1, <3>3 DEF RunContent, HashOfRun
    <2>3. CASE \E k \in Job : CompleteRow(s, k)
      <3>1. pc[s] = "complete" /\ rjob' = rjob /\ rnode' = rnode /\ sibs'[s] \subseteq sibs[s]
        BY <2>3 DEF CompleteRow, WriteRow
      <3> QED
        BY <1>0, <3>1 DEF RunContent, HashOfRun
    <2>4. CASE ~ (Upload(s) \/ ListByInfoHash(s) \/ \E k \in Job : CompleteRow(s, k))
      <3>1. CASE NoteFile(s)
        BY <1>1, <3>1 DEF NoteFile, runs
      <3>2. CASE FailActiveSiblings(s) \/ \E k \in Job : FailRow(s, k)
        BY <1>2, <3>2 DEF FailActiveSiblings, FailRow, ListRows, WriteRow, Goto
      <3>3. CASE TrackIfAbsent(s) \/ HoldHash(s) \/ ReleaseHash(s) \/ Untrack(s)
        BY <1>2, <3>3 DEF TrackIfAbsent, HoldHash, ReleaseHash, Untrack, RunEnds, Goto
      <3>4. CASE \E n \in Node : StartPublish(s, n)
        BY <1>2, <3>4 DEF StartPublish, Goto
      <3>5. CASE AcquireGate(s) \/ StartDownload(s) \/ CtxCancelled(s) \/ FetchFails(s) \/ Fail(s)
        BY <1>2, <3>5 DEF AcquireGate, StartDownload, CtxCancelled, FetchFails, Fail, Goto
      <3> QED
        BY <1>5, <2>4, <3>1, <3>2, <3>3, <3>4, <3>5 DEF Advance
    <2> QED
      BY <2>1, <2>2, <2>3, <2>4
  <1>6. ASSUME NEW r \in Run, NEW j \in Job, NEW n \in Node, Process(r, j, n)
        PROVE  RunContent(s)'
    <2>1. CASE r = s
      BY <1>1, <1>2, <1>6, <2>1 DEF Process, Goto
    <2>2. CASE r # s
      BY <1>1, <1>6, <2>2 DEF Process, Goto
    <2> QED
      BY <2>1, <2>2
  <1>7. ASSUME NEW w \in Worker, NEW j \in Job, Cancel(w, j)
        PROVE  RunContent(s)'
    BY <1>1, <1>7 DEF Cancel
  <1>8. ASSUME NEW w \in Worker, WorkerCrash(w)
        PROVE  RunContent(s)'
    BY <1>1, <1>2, <1>8 DEF WorkerCrash
  <1> QED
    BY <1>3, <1>4, <1>5, <1>6, <1>7, <1>8, OutsideRuns

\* A reconciliation lists rows only of a content it has found.
LEMMA QueueContentStep ==
  ASSUME TypeOK, ContentInv, Next, NEW v \in Worker
  PROVE  QueueContent(v)'
  <1> USE DEF TypeOK, QueueTypeOK
  <1>0. manifests \subseteq manifests' /\ QueueContent(v)
    BY ManifestsStay, ContentParts
  <1>1. CASE qsibs'[v] \subseteq qsibs[v] /\ (qcur'[v] = qcur[v] \/ qsibs'[v] = {})
    BY <1>0, <1>1 DEF QueueContent
  <1>2. CASE UNCHANGED recons
    BY <1>1, <1>2 DEF recons
  <1>3. ASSUME NEW w \in Worker, NEW m \in Job \X Node \X Concurrency, ReconcileJob(w, m)
        PROVE  QueueContent(v)'
    <2>1. CASE UNCHANGED <<qcur, qsibs>>
      BY <1>1, <2>1
    <2>2. CASE /\ qsibs' = [qsibs EXCEPT ![w] = Completable(HashOf[m[1]], m[2])]
               /\ qcur' = [qcur EXCEPT ![w] = IF Completable(HashOf[m[1]], m[2]) = {} THEN NoMsg ELSE <<m[1], m[2]>>]
               /\ <<m[2], HashOf[m[1]]>> \in manifests
      <3>1. \A k \in Completable(HashOf[m[1]], m[2]) : HashOf[k] = HashOf[m[1]]
        BY DEF Completable, RowsOf
      <3>2. CASE v = w
        BY <1>0, <2>2, <3>1, <3>2 DEF QueueContent
      <3>3. CASE v # w
        BY <1>1, <2>2, <3>3
      <3> QED
        BY <3>2, <3>3
    <2> QED
      BY <1>3, <2>1, <2>2 DEF ReconcileJob
  <1>4. ASSUME NEW w \in Worker, NEW k \in Job, ReconcileRow(w, k)
        PROVE  QueueContent(v)'
    BY <1>1, <1>4 DEF ReconcileRow
  <1>5. ASSUME NEW w \in Worker, WorkerCrash(w) \/ \E s \in Concurrency : ReconcileList(w, s)
        PROVE  QueueContent(v)'
    BY <1>1, <1>5 DEF WorkerCrash, ReconcileList
  <1> QED
    BY <1>2, <1>3, <1>4, <1>5, ReconsStep DEF Reconciling

\* Rows are completed with the node their content is on.
LEMMA CompleteStep ==
  ASSUME TypeOK, RunsAreLoaded, ContentInv, CompleteHasContent, Next
  PROVE  CompleteHasContent'
  <1> USE DEF TypeOK, RowTypeOK
  <1>0. manifests \subseteq manifests'
    BY ManifestsStay
  <1>1. CASE UNCHANGED rows
    BY <1>0, <1>1 DEF rows, CompleteHasContent
  <1>2. CASE \E j \in Job, s \in {"pending", "queued", "deleted"} :
               status' = [status EXCEPT ![j] = s] /\ node' = node
    BY <1>0, <1>2 DEF CompleteHasContent
  <1>3. CASE \E j \in Job, s \in Status, n \in Node : RowWrite(j, s, n)
    BY <1>0, <1>3 DEF RowWrite, Update, CompleteHasContent
  <1> QED
    BY <1>1, <1>2, <1>3, RowsStep DEF RowStep

-----------------------------------------------------------------------------
(* The invariant and what follows from it.                                 *)

LEMMA InitInv == Init => DispatchInv
  <1> SUFFICES ASSUME Init PROVE DispatchInv
    OBVIOUS
  <1>1. TypeOK
    BY DEF Init, TypeOK, RowTypeOK, RunTypeOK, QueueTypeOK
  <1>2. RunInv
    BY DEF Init, RunInv, RunsAreLoaded, RegistryInv, HeldInv, AssignInv, DeletedAreGone
  <1>3. ContentInv /\ OneDownloadPerHash /\ CompleteHasContent
    BY DEF Init, ContentInv, OneDownloadPerHash, CompleteHasContent
  <1> QED
    BY <1>1, <1>2, <1>3 DEF DispatchInv

LEMMA StepInv == DispatchInv /\ [Next]_vars => DispatchInv'
  <1> SUFFICES ASSUME DispatchInv, [Next]_vars PROVE DispatchInv'
    OBVIOUS
  <1>1. CASE Next
    <2>1. TypeOK'
      BY <1>1, TypeStep DEF DispatchInv, RunInv
    <2>2. RunsAreLoaded'
      BY <1>1, LoadedStep DEF DispatchInv, RunInv
    <2>3. RegistryInv'
      BY <1>1, RegistryStep DEF DispatchInv, RunInv
    <2>4. HeldInv' /\ OneDownloadPerHash'
      BY <1>1, HeldStep DEF DispatchInv, RunInv
    <2>5. AssignInv' /\ DeletedAreGone'
      BY <1>1, AssignStep, GoneStep DEF DispatchInv, RunInv
    <2>6. \A r \in Run : RunContent(r)'
      BY <1>1, RunContentStep DEF DispatchInv, RunInv
    <2>7. \A w \in Worker : QueueContent(w)'
      BY <1>1, QueueContentStep DEF DispatchInv
    <2>8. ContentInv'
      BY <2>6, <2>7 DEF ContentInv, RunContent, QueueContent
    <2>9. CompleteHasContent'
      BY <1>1, CompleteStep DEF DispatchInv, RunInv
    <2> QED
      BY <2>1, <2>2, <2>3, <2>4, <2>5, <2>8, <2>9 DEF DispatchInv, RunInv
  <1>2. CASE UNCHANGED vars
    BY <1>2 DEF vars, rows, calls, msgs, runs, memory, recons, bounds, DispatchInv, TypeOK, RowTypeOK,
       RunTypeOK, QueueTypeOK, RunInv, RunsAreLoaded, RegistryInv, HeldInv, AssignInv,
       DeletedAreGone, ContentInv, OneDownloadPerHash, CompleteHasContent, Present, Registered,
       HashOfRun
  <1> QED
    BY <1>1, <1>2

\* The invariant of the rows, the registry, the held hashes and the pending writes holds
\* in every state (process, reconcile, complete).
THEOREM DispatchInvariant == Spec => []DispatchInv
  <1> QED
    BY InitInv, StepInv, PTL DEF Spec

\* A worker downloads a content once at a time (holdHash, releaseHash).
THEOREM OneDownloadHolds == Spec => []OneDownloadPerHash
  <1>1. DispatchInv => OneDownloadPerHash
    BY DEF DispatchInv
  <1> QED
    BY <1>1, DispatchInvariant, PTL

\* A run whose row exists is in the registry until it has let its hash go
\* (trackIfAbsent, untrack, cancel).
THEOREM RunsAreRegisteredHolds == Spec => []RunsAreRegistered
  <1>1. DispatchInv => RunsAreRegistered
    BY DEF DispatchInv, RunInv, RegistryInv, RunsAreRegistered
  <1> QED
    BY <1>1, DispatchInvariant, PTL

\* A complete row has its content on its node (complete, CompleteFromCache).
THEOREM CompleteHasContentHolds == Spec => []CompleteHasContent
  <1>1. DispatchInv => CompleteHasContent
    BY DEF DispatchInv
  <1> QED
    BY <1>1, DispatchInvariant, PTL

=============================================================================
