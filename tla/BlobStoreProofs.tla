--------------------------- MODULE BlobStoreProofs --------------------------
(***************************************************************************)
(* The collection's safety, for any number of nodes, contents, workers,    *)
(* requests and evictors: the types, and that a key referenced ever since  *)
(* an evictor looked is never among those it deletes.                      *)
(***************************************************************************)
EXTENDS BlobStore, TLAPS

USE StoreAssumption DEF RowStatus, WorkPc, EnginePc, Engine, NoHit, NoDelete

Typed ==
  /\ StoreTypeOK
  /\ CallerTypeOK
  /\ EngineTypeOK
  /\ published \in 0..MaxPublish
  /\ crashes \in 0..MaxCrash

\* A publication's calls keep the types.
LEMMA PublishTyped ==
  ASSUME Typed, NEW w \in Worker, Publishing(w)
  PROVE  Typed'
  <1>1. CASE LookupBlob(w)
    <2>1. StoreTypeOK'
      BY <1>1 DEF Typed, StoreTypeOK, CallerTypeOK, EngineTypeOK, LookupBlob, WGoto, WHash, WObject, store, tables, workers, asks, engines, bounds
    <2>2. CallerTypeOK'
      BY <1>1 DEF Typed, StoreTypeOK, CallerTypeOK, LookupBlob, WGoto, WHash, WObject, store, tables, workers, asks, engines, bounds
    <2>3. EngineTypeOK'
      BY <1>1 DEF Typed, StoreTypeOK, EngineTypeOK, LookupBlob, WGoto, WHash, WObject, store, tables, workers, asks, engines, bounds
    <2>4. published' \in 0..MaxPublish /\ crashes' \in 0..MaxCrash
      BY <1>1 DEF Typed, LookupBlob, WGoto, WHash, WObject, store, tables, workers, asks, engines, bounds
    <2> QED
      BY <2>1, <2>2, <2>3, <2>4 DEF Typed
  <1>2. CASE Head(w)
    <2>1. StoreTypeOK'
      BY <1>2 DEF Typed, StoreTypeOK, CallerTypeOK, EngineTypeOK, Head, WGoto, WHash, WObject, store, tables, workers, asks, engines, bounds
    <2>2. CallerTypeOK'
      BY <1>2 DEF Typed, StoreTypeOK, CallerTypeOK, Head, WGoto, WHash, WObject, store, tables, workers, asks, engines, bounds
    <2>3. EngineTypeOK'
      BY <1>2 DEF Typed, StoreTypeOK, EngineTypeOK, Head, WGoto, WHash, WObject, store, tables, workers, asks, engines, bounds
    <2>4. published' \in 0..MaxPublish /\ crashes' \in 0..MaxCrash
      BY <1>2 DEF Typed, Head, WGoto, WHash, WObject, store, tables, workers, asks, engines, bounds
    <2> QED
      BY <2>1, <2>2, <2>3, <2>4 DEF Typed
  <1>3. CASE Upload(w)
    <2>1. StoreTypeOK'
      BY <1>3 DEF Typed, StoreTypeOK, CallerTypeOK, EngineTypeOK, Upload, WGoto, WHash, WObject, store, tables, workers, asks, engines, bounds
    <2>2. CallerTypeOK'
      BY <1>3 DEF Typed, StoreTypeOK, CallerTypeOK, Upload, WGoto, WHash, WObject, store, tables, workers, asks, engines, bounds
    <2>3. EngineTypeOK'
      BY <1>3 DEF Typed, StoreTypeOK, EngineTypeOK, Upload, WGoto, WHash, WObject, store, tables, workers, asks, engines, bounds
    <2>4. published' \in 0..MaxPublish /\ crashes' \in 0..MaxCrash
      BY <1>3 DEF Typed, Upload, WGoto, WHash, WObject, store, tables, workers, asks, engines, bounds
    <2> QED
      BY <2>1, <2>2, <2>3, <2>4 DEF Typed
  <1>4. CASE AddBlobRef(w)
    <2>1. StoreTypeOK'
      BY <1>4 DEF Typed, StoreTypeOK, CallerTypeOK, EngineTypeOK, AddBlobRef, WGoto, WHash, WObject, store, tables, workers, asks, engines, bounds
    <2>2. CallerTypeOK'
      BY <1>4 DEF Typed, StoreTypeOK, CallerTypeOK, AddBlobRef, WGoto, WHash, WObject, store, tables, workers, asks, engines, bounds
    <2>3. EngineTypeOK'
      BY <1>4 DEF Typed, StoreTypeOK, EngineTypeOK, AddBlobRef, WGoto, WHash, WObject, store, tables, workers, asks, engines, bounds
    <2>4. published' \in 0..MaxPublish /\ crashes' \in 0..MaxCrash
      BY <1>4 DEF Typed, AddBlobRef, WGoto, WHash, WObject, store, tables, workers, asks, engines, bounds
    <2> QED
      BY <2>1, <2>2, <2>3, <2>4 DEF Typed
  <1>5. CASE PutManifest(w)
    <2>1. StoreTypeOK'
      BY <1>5 DEF Typed, StoreTypeOK, CallerTypeOK, EngineTypeOK, PutManifest, WGoto, WHash, WObject, store, tables, workers, asks, engines, bounds
    <2>2. CallerTypeOK'
      BY <1>5 DEF Typed, StoreTypeOK, CallerTypeOK, PutManifest, WGoto, WHash, WObject, store, tables, workers, asks, engines, bounds
    <2>3. EngineTypeOK'
      BY <1>5 DEF Typed, StoreTypeOK, EngineTypeOK, PutManifest, WGoto, WHash, WObject, store, tables, workers, asks, engines, bounds
    <2>4. published' \in 0..MaxPublish /\ crashes' \in 0..MaxCrash
      BY <1>5 DEF Typed, PutManifest, WGoto, WHash, WObject, store, tables, workers, asks, engines, bounds
    <2> QED
      BY <2>1, <2>2, <2>3, <2>4 DEF Typed
  <1>6. CASE Complete(w)
    <2>1. StoreTypeOK'
      BY <1>6 DEF Typed, StoreTypeOK, CallerTypeOK, EngineTypeOK, Complete, WGoto, WHash, WObject, WorkerIdle, Present, store, tables, workers, asks, engines, bounds
    <2>2. CallerTypeOK'
      BY <1>6 DEF Typed, StoreTypeOK, CallerTypeOK, Complete, WGoto, WHash, WObject, WorkerIdle, Present, store, tables, workers, asks, engines, bounds
    <2>3. EngineTypeOK'
      BY <1>6 DEF Typed, StoreTypeOK, EngineTypeOK, Complete, WGoto, WHash, WObject, WorkerIdle, Present, store, tables, workers, asks, engines, bounds
    <2>4. published' \in 0..MaxPublish /\ crashes' \in 0..MaxCrash
      BY <1>6 DEF Typed, Complete, WGoto, WHash, WObject, WorkerIdle, Present, store, tables, workers, asks, engines, bounds
    <2> QED
      BY <2>1, <2>2, <2>3, <2>4 DEF Typed
  <1>7. CASE ListByInfoHash(w)
    <2>1. StoreTypeOK'
      BY <1>7 DEF Typed, StoreTypeOK, ListByInfoHash, store, tables
    <2>2. CallerTypeOK'
      BY <1>7 DEF Typed, CallerTypeOK, ListByInfoHash, WGoto, RowsOf, asks
    <2>3. EngineTypeOK'
      BY <1>7 DEF Typed, EngineTypeOK, ListByInfoHash, engines
    <2>4. published' \in 0..MaxPublish /\ crashes' \in 0..MaxCrash
      BY <1>7 DEF Typed, ListByInfoHash, bounds
    <2> QED
      BY <2>1, <2>2, <2>3, <2>4 DEF Typed
  <1> QED
    BY <1>1, <1>2, <1>3, <1>4, <1>5, <1>6, <1>7 DEF Publishing

\* So do the steps of an eviction.
LEMMA EvictTyped ==
  ASSUME Typed, NEW g \in Engine, Evicting(g)
  PROVE  Typed'
  <1>1. CASE Candidates(g)
    <2>1. StoreTypeOK'
      BY <1>1 DEF Typed, StoreTypeOK, CallerTypeOK, EngineTypeOK, Candidates, EGoto, CompleteAt, store, tables, workers, asks, engines, bounds
    <2>2. CallerTypeOK'
      BY <1>1 DEF Typed, StoreTypeOK, CallerTypeOK, Candidates, EGoto, CompleteAt, store, tables, workers, asks, engines, bounds
    <2>3. EngineTypeOK'
      BY <1>1 DEF Typed, StoreTypeOK, EngineTypeOK, Candidates, EGoto, CompleteAt, store, tables, workers, asks, engines, bounds
    <2>4. published' \in 0..MaxPublish /\ crashes' \in 0..MaxCrash
      BY <1>1 DEF Typed, Candidates, EGoto, CompleteAt, store, tables, workers, asks, engines, bounds
    <2> QED
      BY <2>1, <2>2, <2>3, <2>4 DEF Typed
  <1>2. CASE \E h \in Hash : EvictList(g, h)
    <2>1. StoreTypeOK'
      BY <1>2 DEF Typed, StoreTypeOK, CallerTypeOK, EngineTypeOK, EvictList, EGoto, RowsOf, Present, store, tables, workers, asks, engines, bounds
    <2>2. CallerTypeOK'
      BY <1>2 DEF Typed, StoreTypeOK, CallerTypeOK, EvictList, EGoto, RowsOf, Present, store, tables, workers, asks, engines, bounds
    <2>3. EngineTypeOK'
      BY <1>2 DEF Typed, StoreTypeOK, EngineTypeOK, EvictList, EGoto, RowsOf, Present, store, tables, workers, asks, engines, bounds
    <2>4. published' \in 0..MaxPublish /\ crashes' \in 0..MaxCrash
      BY <1>2 DEF Typed, EvictList, EGoto, RowsOf, Present, store, tables, workers, asks, engines, bounds
    <2> QED
      BY <2>1, <2>2, <2>3, <2>4 DEF Typed
  <1>3. CASE EvictPrefix(g)
    <2>1. StoreTypeOK'
      BY <1>3 DEF Typed, StoreTypeOK, CallerTypeOK, EngineTypeOK, EvictPrefix, EGoto, store, tables, workers, asks, engines, bounds
    <2>2. CallerTypeOK'
      BY <1>3 DEF Typed, StoreTypeOK, CallerTypeOK, EvictPrefix, EGoto, store, tables, workers, asks, engines, bounds
    <2>3. EngineTypeOK'
      BY <1>3 DEF Typed, StoreTypeOK, EngineTypeOK, EvictPrefix, EGoto, store, tables, workers, asks, engines, bounds
    <2>4. published' \in 0..MaxPublish /\ crashes' \in 0..MaxCrash
      BY <1>3 DEF Typed, EvictPrefix, EGoto, store, tables, workers, asks, engines, bounds
    <2> QED
      BY <2>1, <2>2, <2>3, <2>4 DEF Typed
  <1>4. CASE EvictRefs(g)
    <2>1. StoreTypeOK'
      BY <1>4 DEF Typed, StoreTypeOK, CallerTypeOK, EngineTypeOK, EvictRefs, EGoto, Referenced, store, tables, workers, asks, engines, bounds
    <2>2. CallerTypeOK'
      BY <1>4 DEF Typed, StoreTypeOK, CallerTypeOK, EvictRefs, EGoto, Referenced, store, tables, workers, asks, engines, bounds
    <2>3. EngineTypeOK'
      BY <1>4 DEF Typed, StoreTypeOK, EngineTypeOK, EvictRefs, EGoto, Referenced, store, tables, workers, asks, engines, bounds
    <2>4. published' \in 0..MaxPublish /\ crashes' \in 0..MaxCrash
      BY <1>4 DEF Typed, EvictRefs, EGoto, Referenced, store, tables, workers, asks, engines, bounds
    <2> QED
      BY <2>1, <2>2, <2>3, <2>4 DEF Typed
  <1>5. CASE EvictMark(g)
    <2>1. StoreTypeOK'
      BY <1>5 DEF Typed, StoreTypeOK, CallerTypeOK, EngineTypeOK, EvictMark, EGoto, Present, store, tables, workers, asks, engines, bounds
    <2>2. CallerTypeOK'
      BY <1>5 DEF Typed, StoreTypeOK, CallerTypeOK, EvictMark, EGoto, Present, store, tables, workers, asks, engines, bounds
    <2>3. EngineTypeOK'
      BY <1>5 DEF Typed, StoreTypeOK, EngineTypeOK, EvictMark, EGoto, Present, store, tables, workers, asks, engines, bounds
    <2>4. published' \in 0..MaxPublish /\ crashes' \in 0..MaxCrash
      BY <1>5 DEF Typed, EvictMark, EGoto, Present, store, tables, workers, asks, engines, bounds
    <2> QED
      BY <2>1, <2>2, <2>3, <2>4 DEF Typed
  <1>6. CASE EvictDone(g)
    <2>1. StoreTypeOK'
      BY <1>6 DEF Typed, StoreTypeOK, CallerTypeOK, EngineTypeOK, EvictDone, EGoto, store, tables, workers, asks, engines, bounds
    <2>2. CallerTypeOK'
      BY <1>6 DEF Typed, StoreTypeOK, CallerTypeOK, EvictDone, EGoto, store, tables, workers, asks, engines, bounds
    <2>3. EngineTypeOK'
      BY <1>6 DEF Typed, StoreTypeOK, EngineTypeOK, EvictDone, EGoto, store, tables, workers, asks, engines, bounds
    <2>4. published' \in 0..MaxPublish /\ crashes' \in 0..MaxCrash
      BY <1>6 DEF Typed, EvictDone, EGoto, store, tables, workers, asks, engines, bounds
    <2> QED
      BY <2>1, <2>2, <2>3, <2>4 DEF Typed
  <1> QED
    BY <1>1, <1>2, <1>3, <1>4, <1>5, <1>6 DEF Evicting

\* And those of the collections.
LEMMA CollectTyped ==
  ASSUME Typed, NEW g \in Engine, Collecting(g)
  PROVE  Typed'
  <1>1. CASE DropDanglingRefs(g)
    <2>1. StoreTypeOK'
      BY <1>1 DEF Typed, StoreTypeOK, CallerTypeOK, EngineTypeOK, DropDanglingRefs, RowsOf, Present, EGoto, store, tables, workers, asks, engines, bounds
    <2>2. CallerTypeOK'
      BY <1>1 DEF Typed, StoreTypeOK, CallerTypeOK, DropDanglingRefs, RowsOf, Present, EGoto, store, tables, workers, asks, engines, bounds
    <2>3. EngineTypeOK'
      BY <1>1 DEF Typed, StoreTypeOK, EngineTypeOK, DropDanglingRefs, RowsOf, Present, EGoto, store, tables, workers, asks, engines, bounds
    <2>4. published' \in 0..MaxPublish /\ crashes' \in 0..MaxCrash
      BY <1>1 DEF Typed, DropDanglingRefs, RowsOf, Present, EGoto, store, tables, workers, asks, engines, bounds
    <2> QED
      BY <2>1, <2>2, <2>3, <2>4 DEF Typed
  <1>2. CASE GCList(g)
    <2>1. StoreTypeOK'
      BY <1>2 DEF Typed, StoreTypeOK, CallerTypeOK, EngineTypeOK, GCList, OrphanedBlobs, Referenced, EGoto, store, tables, workers, asks, engines, bounds
    <2>2. CallerTypeOK'
      BY <1>2 DEF Typed, StoreTypeOK, CallerTypeOK, GCList, OrphanedBlobs, Referenced, EGoto, store, tables, workers, asks, engines, bounds
    <2>3. EngineTypeOK'
      BY <1>2 DEF Typed, StoreTypeOK, EngineTypeOK, GCList, OrphanedBlobs, Referenced, EGoto, store, tables, workers, asks, engines, bounds
    <2>4. published' \in 0..MaxPublish /\ crashes' \in 0..MaxCrash
      BY <1>2 DEF Typed, GCList, OrphanedBlobs, Referenced, EGoto, store, tables, workers, asks, engines, bounds
    <2> QED
      BY <2>1, <2>2, <2>3, <2>4 DEF Typed
  <1>3. CASE GCDeleteRow(g)
    <2>1. StoreTypeOK'
      BY <1>3 DEF Typed, StoreTypeOK, CallerTypeOK, EngineTypeOK, GCDeleteRow, DeleteBlobRow, EGoto, store, tables, workers, asks, engines, bounds
    <2>2. CallerTypeOK'
      BY <1>3 DEF Typed, StoreTypeOK, CallerTypeOK, GCDeleteRow, DeleteBlobRow, EGoto, store, tables, workers, asks, engines, bounds
    <2>3. EngineTypeOK'
      BY <1>3 DEF Typed, StoreTypeOK, EngineTypeOK, GCDeleteRow, DeleteBlobRow, EGoto, store, tables, workers, asks, engines, bounds
    <2>4. published' \in 0..MaxPublish /\ crashes' \in 0..MaxCrash
      BY <1>3 DEF Typed, GCDeleteRow, DeleteBlobRow, EGoto, store, tables, workers, asks, engines, bounds
    <2> QED
      BY <2>1, <2>2, <2>3, <2>4 DEF Typed
  <1>4. CASE ReferencedKeys(g)
    <2>1. StoreTypeOK'
      BY <1>4 DEF Typed, StoreTypeOK, CallerTypeOK, EngineTypeOK, ReferencedKeys, Referenced, EGoto, store, tables, workers, asks, engines, bounds
    <2>2. CallerTypeOK'
      BY <1>4 DEF Typed, StoreTypeOK, CallerTypeOK, ReferencedKeys, Referenced, EGoto, store, tables, workers, asks, engines, bounds
    <2>3. EngineTypeOK'
      BY <1>4 DEF Typed, StoreTypeOK, EngineTypeOK, ReferencedKeys, Referenced, EGoto, store, tables, workers, asks, engines, bounds
    <2>4. published' \in 0..MaxPublish /\ crashes' \in 0..MaxCrash
      BY <1>4 DEF Typed, ReferencedKeys, Referenced, EGoto, store, tables, workers, asks, engines, bounds
    <2> QED
      BY <2>1, <2>2, <2>3, <2>4 DEF Typed
  <1>5. CASE ListBlobs(g)
    <2>1. StoreTypeOK'
      BY <1>5 DEF Typed, StoreTypeOK, CallerTypeOK, EngineTypeOK, ListBlobs, EGoto, store, tables, workers, asks, engines, bounds
    <2>2. CallerTypeOK'
      BY <1>5 DEF Typed, StoreTypeOK, CallerTypeOK, ListBlobs, EGoto, store, tables, workers, asks, engines, bounds
    <2>3. EngineTypeOK'
      BY <1>5 DEF Typed, StoreTypeOK, EngineTypeOK, ListBlobs, EGoto, store, tables, workers, asks, engines, bounds
    <2>4. published' \in 0..MaxPublish /\ crashes' \in 0..MaxCrash
      BY <1>5 DEF Typed, ListBlobs, EGoto, store, tables, workers, asks, engines, bounds
    <2> QED
      BY <2>1, <2>2, <2>3, <2>4 DEF Typed
  <1>6. CASE ReconcileDeleteRow(g)
    <2>1. StoreTypeOK'
      BY <1>6 DEF Typed, StoreTypeOK, CallerTypeOK, EngineTypeOK, ReconcileDeleteRow, DeleteBlobRow, EGoto, store, tables, workers, asks, engines, bounds
    <2>2. CallerTypeOK'
      BY <1>6 DEF Typed, StoreTypeOK, CallerTypeOK, ReconcileDeleteRow, DeleteBlobRow, EGoto, store, tables, workers, asks, engines, bounds
    <2>3. EngineTypeOK'
      BY <1>6 DEF Typed, StoreTypeOK, EngineTypeOK, ReconcileDeleteRow, DeleteBlobRow, EGoto, store, tables, workers, asks, engines, bounds
    <2>4. published' \in 0..MaxPublish /\ crashes' \in 0..MaxCrash
      BY <1>6 DEF Typed, ReconcileDeleteRow, DeleteBlobRow, EGoto, store, tables, workers, asks, engines, bounds
    <2> QED
      BY <2>1, <2>2, <2>3, <2>4 DEF Typed
  <1>7. CASE ReconcileDone(g)
    <2>1. StoreTypeOK'
      BY <1>7 DEF Typed, StoreTypeOK, CallerTypeOK, EngineTypeOK, ReconcileDone, EGoto, store, tables, workers, asks, engines, bounds
    <2>2. CallerTypeOK'
      BY <1>7 DEF Typed, StoreTypeOK, CallerTypeOK, ReconcileDone, EGoto, store, tables, workers, asks, engines, bounds
    <2>3. EngineTypeOK'
      BY <1>7 DEF Typed, StoreTypeOK, EngineTypeOK, ReconcileDone, EGoto, store, tables, workers, asks, engines, bounds
    <2>4. published' \in 0..MaxPublish /\ crashes' \in 0..MaxCrash
      BY <1>7 DEF Typed, ReconcileDone, EGoto, store, tables, workers, asks, engines, bounds
    <2> QED
      BY <2>1, <2>2, <2>3, <2>4 DEF Typed
  <1>8. CASE \E k \in Key : GCDelete(g, k)
    <2>0. PICK k \in Key : GCDelete(g, k)
      BY <1>8
    <2>1. StoreTypeOK'
      BY <2>0 DEF Typed, StoreTypeOK, CallerTypeOK, EngineTypeOK, GCDelete, DeleteObject, EGoto, store, tables, workers, asks, engines, bounds
    <2>2. CallerTypeOK'
      BY <2>0 DEF Typed, StoreTypeOK, CallerTypeOK, GCDelete, DeleteObject, EGoto, store, tables, workers, asks, engines, bounds
    <2>3. EngineTypeOK'
      BY <2>0 DEF Typed, StoreTypeOK, EngineTypeOK, GCDelete, DeleteObject, EGoto, store, tables, workers, asks, engines, bounds
    <2>4. published' \in 0..MaxPublish /\ crashes' \in 0..MaxCrash
      BY <2>0 DEF Typed, GCDelete, DeleteObject, EGoto, store, tables, workers, asks, engines, bounds
    <2> QED
      BY <2>1, <2>2, <2>3, <2>4 DEF Typed
  <1>9. CASE \E k \in Key : ReconcileDelete(g, k)
    <2>0. PICK k \in Key : ReconcileDelete(g, k)
      BY <1>9
    <2>1. StoreTypeOK'
      BY <2>0 DEF Typed, StoreTypeOK, CallerTypeOK, EngineTypeOK, ReconcileDelete, DeleteObject, EGoto, store, tables, workers, asks, engines, bounds
    <2>2. CallerTypeOK'
      BY <2>0 DEF Typed, StoreTypeOK, CallerTypeOK, ReconcileDelete, DeleteObject, EGoto, store, tables, workers, asks, engines, bounds
    <2>3. EngineTypeOK'
      BY <2>0 DEF Typed, StoreTypeOK, EngineTypeOK, ReconcileDelete, DeleteObject, EGoto, store, tables, workers, asks, engines, bounds
    <2>4. published' \in 0..MaxPublish /\ crashes' \in 0..MaxCrash
      BY <2>0 DEF Typed, ReconcileDelete, DeleteObject, EGoto, store, tables, workers, asks, engines, bounds
    <2> QED
      BY <2>1, <2>2, <2>3, <2>4 DEF Typed
  <1> QED
    BY <1>1, <1>2, <1>3, <1>4, <1>5, <1>6, <1>7, <1>8, <1>9 DEF Collecting

\* And everything else that happens.
LEMMA RestTyped ==
  ASSUME Typed, Act \/ UNCHANGED vars, ~(\E w \in Worker : Publishing(w)), ~(\E g \in Engine : Evicting(g) \/ Collecting(g))
  PROVE  Typed'
  <1>1. CASE \E w \in Worker, r \in Row, n \in Node : StartPublish(w, r, n)
    <2>1. StoreTypeOK'
      BY <1>1 DEF Typed, StoreTypeOK, CallerTypeOK, EngineTypeOK, StartPublish, WGoto, WHash, WObject, store, tables, workers, asks, engines, bounds
    <2>2. CallerTypeOK'
      BY <1>1 DEF Typed, StoreTypeOK, CallerTypeOK, StartPublish, WGoto, WHash, WObject, store, tables, workers, asks, engines, bounds
    <2>3. EngineTypeOK'
      BY <1>1 DEF Typed, StoreTypeOK, EngineTypeOK, StartPublish, WGoto, WHash, WObject, store, tables, workers, asks, engines, bounds
    <2>4. published' \in 0..MaxPublish /\ crashes' \in 0..MaxCrash
      BY <1>1 DEF Typed, StartPublish, WGoto, WHash, WObject, store, tables, workers, asks, engines, bounds
    <2> QED
      BY <2>1, <2>2, <2>3, <2>4 DEF Typed
  <1>2. CASE \E w \in Worker : Abandon(w)
    <2>1. StoreTypeOK'
      BY <1>2 DEF Typed, StoreTypeOK, CallerTypeOK, EngineTypeOK, Abandon, WorkerIdle, WGoto, WHash, WObject, store, tables, workers, asks, engines, bounds
    <2>2. CallerTypeOK'
      BY <1>2 DEF Typed, StoreTypeOK, CallerTypeOK, Abandon, WorkerIdle, WGoto, WHash, WObject, store, tables, workers, asks, engines, bounds
    <2>3. EngineTypeOK'
      BY <1>2 DEF Typed, StoreTypeOK, EngineTypeOK, Abandon, WorkerIdle, WGoto, WHash, WObject, store, tables, workers, asks, engines, bounds
    <2>4. published' \in 0..MaxPublish /\ crashes' \in 0..MaxCrash
      BY <1>2 DEF Typed, Abandon, WorkerIdle, WGoto, WHash, WObject, store, tables, workers, asks, engines, bounds
    <2> QED
      BY <2>1, <2>2, <2>3, <2>4 DEF Typed
  <1>3. CASE \E p \in Node \X Key : Age(p)
    <2>1. StoreTypeOK'
      BY <1>3 DEF Typed, StoreTypeOK, CallerTypeOK, EngineTypeOK, Age, store, tables, workers, asks, engines, bounds
    <2>2. CallerTypeOK'
      BY <1>3 DEF Typed, StoreTypeOK, CallerTypeOK, Age, store, tables, workers, asks, engines, bounds
    <2>3. EngineTypeOK'
      BY <1>3 DEF Typed, StoreTypeOK, EngineTypeOK, Age, store, tables, workers, asks, engines, bounds
    <2>4. published' \in 0..MaxPublish /\ crashes' \in 0..MaxCrash
      BY <1>3 DEF Typed, Age, store, tables, workers, asks, engines, bounds
    <2> QED
      BY <2>1, <2>2, <2>3, <2>4 DEF Typed
  <1>4. CASE \E q \in Req, n \in Node, h \in Hash : ReadManifest(q, n, h)
    <2>1. StoreTypeOK'
      BY <1>4 DEF Typed, StoreTypeOK, CallerTypeOK, EngineTypeOK, ReadManifest, store, tables, workers, asks, engines, bounds
    <2>2. CallerTypeOK'
      BY <1>4 DEF Typed, StoreTypeOK, CallerTypeOK, ReadManifest, store, tables, workers, asks, engines, bounds
    <2>3. EngineTypeOK'
      BY <1>4 DEF Typed, StoreTypeOK, EngineTypeOK, ReadManifest, store, tables, workers, asks, engines, bounds
    <2>4. published' \in 0..MaxPublish /\ crashes' \in 0..MaxCrash
      BY <1>4 DEF Typed, ReadManifest, store, tables, workers, asks, engines, bounds
    <2> QED
      BY <2>1, <2>2, <2>3, <2>4 DEF Typed
  <1>5. CASE \E q \in Req, r \in Row : CreateCached(q, r)
    <2>1. StoreTypeOK'
      BY <1>5 DEF Typed, StoreTypeOK, CallerTypeOK, EngineTypeOK, CreateCached, store, tables, workers, asks, engines, bounds
    <2>2. CallerTypeOK'
      BY <1>5 DEF Typed, StoreTypeOK, CallerTypeOK, CreateCached, store, tables, workers, asks, engines, bounds
    <2>3. EngineTypeOK'
      BY <1>5 DEF Typed, StoreTypeOK, EngineTypeOK, CreateCached, store, tables, workers, asks, engines, bounds
    <2>4. published' \in 0..MaxPublish /\ crashes' \in 0..MaxCrash
      BY <1>5 DEF Typed, CreateCached, store, tables, workers, asks, engines, bounds
    <2> QED
      BY <2>1, <2>2, <2>3, <2>4 DEF Typed
  <1>6. CASE \E q \in Req, r \in Row : CheckDelete(q, r)
    <2>1. StoreTypeOK'
      BY <1>6 DEF Typed, StoreTypeOK, CallerTypeOK, EngineTypeOK, CheckDelete, Present, store, tables, workers, asks, engines, bounds
    <2>2. CallerTypeOK'
      BY <1>6 DEF Typed, StoreTypeOK, CallerTypeOK, CheckDelete, store, tables, workers, asks, engines, bounds
    <2>3. EngineTypeOK'
      BY <1>6 DEF Typed, StoreTypeOK, EngineTypeOK, CheckDelete, store, tables, workers, asks, engines, bounds
    <2>4. published' \in 0..MaxPublish /\ crashes' \in 0..MaxCrash
      BY <1>6 DEF Typed, CheckDelete, store, tables, workers, asks, engines, bounds
    <2> QED
      BY <2>1, <2>2, <2>3, <2>4 DEF Typed
  <1>7. CASE \E q \in Req : DeleteRow(q)
    <2>1. StoreTypeOK'
      BY <1>7 DEF Typed, StoreTypeOK, CallerTypeOK, EngineTypeOK, DeleteRow, store, tables, workers, asks, engines, bounds
    <2>2. CallerTypeOK'
      BY <1>7 DEF Typed, StoreTypeOK, CallerTypeOK, DeleteRow, store, tables, workers, asks, engines, bounds
    <2>3. EngineTypeOK'
      BY <1>7 DEF Typed, StoreTypeOK, EngineTypeOK, DeleteRow, store, tables, workers, asks, engines, bounds
    <2>4. published' \in 0..MaxPublish /\ crashes' \in 0..MaxCrash
      BY <1>7 DEF Typed, DeleteRow, store, tables, workers, asks, engines, bounds
    <2> QED
      BY <2>1, <2>2, <2>3, <2>4 DEF Typed
  <1>8. CASE \E g \in Engine : StartPass(g)
    <2>1. StoreTypeOK'
      BY <1>8 DEF Typed, StoreTypeOK, CallerTypeOK, EngineTypeOK, StartPass, EGoto, store, tables, workers, asks, engines, bounds
    <2>2. CallerTypeOK'
      BY <1>8 DEF Typed, StoreTypeOK, CallerTypeOK, StartPass, EGoto, store, tables, workers, asks, engines, bounds
    <2>3. EngineTypeOK'
      BY <1>8 DEF Typed, StoreTypeOK, EngineTypeOK, StartPass, EGoto, store, tables, workers, asks, engines, bounds
    <2>4. published' \in 0..MaxPublish /\ crashes' \in 0..MaxCrash
      BY <1>8 DEF Typed, StartPass, EGoto, store, tables, workers, asks, engines, bounds
    <2> QED
      BY <2>1, <2>2, <2>3, <2>4 DEF Typed
  <1>9. CASE \E g \in Engine : Crash(g)
    <2>1. StoreTypeOK'
      BY <1>9 DEF Typed, StoreTypeOK, CallerTypeOK, EngineTypeOK, Crash, Forget, EGoto, store, tables, workers, asks, engines, bounds
    <2>2. CallerTypeOK'
      BY <1>9 DEF Typed, StoreTypeOK, CallerTypeOK, Crash, Forget, EGoto, store, tables, workers, asks, engines, bounds
    <2>3. EngineTypeOK'
      BY <1>9 DEF Typed, StoreTypeOK, EngineTypeOK, Crash, Forget, EGoto, store, tables, workers, asks, engines, bounds
    <2>4. published' \in 0..MaxPublish /\ crashes' \in 0..MaxCrash
      BY <1>9 DEF Typed, Crash, Forget, EGoto, store, tables, workers, asks, engines, bounds
    <2> QED
      BY <2>1, <2>2, <2>3, <2>4 DEF Typed
  <1>10. CASE UNCHANGED vars
    <2>1. StoreTypeOK'
      BY <1>10 DEF Typed, StoreTypeOK, CallerTypeOK, EngineTypeOK, vars, store, tables, workers, asks, engines, bounds
    <2>2. CallerTypeOK'
      BY <1>10 DEF Typed, StoreTypeOK, CallerTypeOK, vars, store, tables, workers, asks, engines, bounds
    <2>3. EngineTypeOK'
      BY <1>10 DEF Typed, StoreTypeOK, EngineTypeOK, vars, store, tables, workers, asks, engines, bounds
    <2>4. published' \in 0..MaxPublish /\ crashes' \in 0..MaxCrash
      BY <1>10 DEF Typed, vars, store, tables, workers, asks, engines, bounds
    <2> QED
      BY <2>1, <2>2, <2>3, <2>4 DEF Typed
  <1>11. CASE \E q \in Req : KeepForSystem(q)
    <2>0. PICK q \in Req : KeepForSystem(q)
      BY <1>11
    <2>1. StoreTypeOK'
      BY <2>0 DEF Typed, StoreTypeOK, CallerTypeOK, KeepForSystem, Present, store, tables, workers, asks, engines, bounds
    <2>2. CallerTypeOK'
      BY <2>0 DEF Typed, CallerTypeOK, KeepForSystem, Present, store, tables, workers, asks, engines, bounds
    <2>3. EngineTypeOK'
      BY <2>0 DEF Typed, EngineTypeOK, KeepForSystem, Present, store, tables, workers, asks, engines, bounds
    <2>4. published' \in 0..MaxPublish /\ crashes' \in 0..MaxCrash
      BY <2>0 DEF Typed, KeepForSystem, Present, store, tables, workers, asks, engines, bounds
    <2> QED
      BY <2>1, <2>2, <2>3, <2>4 DEF Typed
  <1> QED
    BY <1>1, <1>2, <1>3, <1>4, <1>5, <1>6, <1>7, <1>8, <1>9, <1>10, <1>11 DEF Act, Asking

\* Every step keeps the types, the ghost's included.
LEMMA TypeStep ==
  ASSUME TypeOK, [Next]_vars
  PROVE  TypeOK'
  <1>1. Typed /\ steady \in [Engine -> SUBSET Key]
    BY DEF TypeOK, Typed
  <1>2. Typed'
    <2>1. CASE \E w \in Worker : Publishing(w)
      BY <1>1, <2>1, PublishTyped
    <2>2. CASE \E g \in Engine : Evicting(g) \/ Collecting(g)
      BY <1>1, <2>2, EvictTyped, CollectTyped
    <2>3. CASE ~(\E w \in Worker : Publishing(w)) /\ ~(\E g \in Engine : Evicting(g) \/ Collecting(g))
      BY <1>1, <2>3, RestTyped DEF Next
    <2> QED
      BY <2>1, <2>2, <2>3
  <1>3. steady' \in [Engine -> SUBSET Key]
    <2>1. CASE Next
      <3>1. Referenced' \subseteq Key
        BY <1>2 DEF Typed, StoreTypeOK, Referenced
      <3> QED
        BY <1>1, <2>1, <3>1 DEF Next, Watched
    <2> QED
      BY <1>1, <2>1 DEF vars
  <1> QED
    BY <1>2, <1>3 DEF Typed, TypeOK

-----------------------------------------------------------------------------
\* What StoreInv says of one evictor.
EngineInv(g) ==
  /\ epc[g] \in {"gcdel", "gcrow", "list", "recdel", "recrow"} =>
       steady[g] \cap (found[g] \cup {ekey[g]}) = {}
  /\ epc[g] \notin {"gcdel", "gcrow", "recdel", "recrow"} => found[g] = {}
  /\ epc[g] = "list" => steady[g] \subseteq refd[g]

\* The invariant is the types and EngineInv of everyone.
LEMMA InvOfEngines == StoreInv <=> TypeOK /\ \A g \in Engine : EngineInv(g)
  BY DEF StoreInv, SteadyIsKept, EngineInv

\* Steps that do not move an evictor leave what is said of it: its ghost only shrinks.
LEMMA Unmoved ==
  ASSUME TypeOK, NEW g \in Engine, EngineInv(g), Next,
         epc'[g] = epc[g], found'[g] = found[g], refd'[g] = refd[g], ekey'[g] = ekey[g]
  PROVE  EngineInv(g)'
  <1>1. steady'[g] \subseteq steady[g]
    BY DEF Next, Watched
  <1> QED
    BY <1>1 DEF EngineInv, Looks

\* An evictor that moves without looking keeps a ghost no larger than before.
LEMMA NoLook ==
  ASSUME TypeOK, NEW g \in Engine, Next, epc[g] \notin Looks
  PROVE  steady'[g] \subseteq steady[g]
  BY DEF Next, Watched

\* One that looks starts its ghost with what is referenced at that moment.
LEMMA Look ==
  ASSUME TypeOK, NEW g \in Engine, Next, epc[g] \in Looks, epc'[g] # epc[g]
  PROVE  steady'[g] = Referenced'
  BY DEF Next, Watched

\* The evictor's own steps keep its invariant.
LEMMA EvictInv ==
  ASSUME TypeOK, NEW g \in Engine, EngineInv(g), Next, StartPass(g) \/ Evicting(g) \/ Crash(g)
  PROVE  EngineInv(g)'
  <1>1. CASE StartPass(g)
    BY <1>1, NoLook DEF TypeOK, EngineTypeOK, EngineInv, Looks, EGoto, engines, StartPass
  <1>2. CASE Crash(g)
    BY <1>2, NoLook DEF TypeOK, EngineTypeOK, EngineInv, Looks, EGoto, engines, Crash, Forget
  <1>3. CASE Candidates(g)
    BY <1>3, NoLook DEF TypeOK, EngineTypeOK, EngineInv, Looks, EGoto, engines, Candidates
  <1>4. CASE \E h \in Hash : EvictList(g, h)
    BY <1>4, NoLook DEF TypeOK, EngineTypeOK, EngineInv, Looks, EGoto, engines, EvictList
  <1>5. CASE EvictPrefix(g)
    BY <1>5, NoLook DEF TypeOK, EngineTypeOK, EngineInv, Looks, EGoto, engines, EvictPrefix
  <1>6. CASE EvictRefs(g)
    BY <1>6, NoLook DEF TypeOK, EngineTypeOK, EngineInv, Looks, EGoto, engines, EvictRefs
  <1>7. CASE EvictMark(g)
    BY <1>7, NoLook DEF TypeOK, EngineTypeOK, EngineInv, Looks, EGoto, engines, EvictMark
  <1>8. CASE EvictDone(g)
    BY <1>8, NoLook DEF TypeOK, EngineTypeOK, EngineInv, Looks, EGoto, engines, EvictDone
  <1> QED
    BY <1>1, <1>2, <1>3, <1>4, <1>5, <1>6, <1>7, <1>8 DEF Evicting

\* And so do the collections', where the ghost starts and what is listed is deleted.
LEMMA CollectInv ==
  ASSUME TypeOK, NEW g \in Engine, EngineInv(g), Next, Collecting(g), TypeOK'
  PROVE  EngineInv(g)'
  <1>1. CASE DropDanglingRefs(g)
    BY <1>1, NoLook DEF TypeOK, EngineTypeOK, EngineInv, Looks, EGoto, engines, DropDanglingRefs
  <1>2. CASE GCList(g)
    BY <1>2, Look DEF TypeOK, EngineTypeOK, EngineInv, Looks, EGoto, engines, GCList, OrphanedBlobs, Referenced, tables
  <1>3. CASE GCDeleteRow(g)
    BY <1>3, NoLook DEF TypeOK, EngineTypeOK, EngineInv, Looks, EGoto, engines, GCDeleteRow, DeleteBlobRow
  <1>4. CASE ReferencedKeys(g)
    BY <1>4, Look DEF TypeOK, EngineTypeOK, EngineInv, Looks, EGoto, engines, ReferencedKeys, Referenced, tables
  <1>5. CASE ListBlobs(g)
    BY <1>5, NoLook DEF TypeOK, EngineTypeOK, EngineInv, Looks, EGoto, engines, ListBlobs
  <1>6. CASE ReconcileDeleteRow(g)
    BY <1>6, NoLook DEF TypeOK, EngineTypeOK, EngineInv, Looks, EGoto, engines, ReconcileDeleteRow, DeleteBlobRow
  <1>7. CASE ReconcileDone(g)
    BY <1>7, NoLook DEF TypeOK, EngineTypeOK, EngineInv, Looks, EGoto, engines, ReconcileDone
  <1>8. CASE \E k \in Key : GCDelete(g, k)
    BY <1>8, NoLook DEF TypeOK, EngineTypeOK, EngineInv, Looks, EGoto, engines, GCDelete, DeleteObject
  <1>9. CASE \E k \in Key : ReconcileDelete(g, k)
    BY <1>9, NoLook DEF TypeOK, EngineTypeOK, EngineInv, Looks, EGoto, engines, ReconcileDelete, DeleteObject
  <1> QED
    BY <1>1, <1>2, <1>3, <1>4, <1>5, <1>6, <1>7, <1>8, <1>9 DEF Collecting

\* The initial state has no evictor at work.
LEMMA InitInv == Init => StoreInv
  <1> SUFFICES ASSUME Init PROVE StoreInv
    OBVIOUS
  <1>1. StoreTypeOK
    BY DEF Init, StoreTypeOK
  <1>2. CallerTypeOK
    BY DEF Init, CallerTypeOK
  <1>3. EngineTypeOK
    BY DEF Init, EngineTypeOK
  <1>4. published \in 0..MaxPublish /\ crashes \in 0..MaxCrash /\ steady \in [Engine -> SUBSET Key]
    BY DEF Init
  <1>5. ASSUME NEW g \in Engine PROVE EngineInv(g)
    BY DEF Init, EngineInv
  <1> QED
    BY <1>1, <1>2, <1>3, <1>4, <1>5, InvOfEngines DEF TypeOK

\* A step of somebody else leaves an evictor where it is.
LEMMA OthersStep ==
  ASSUME TypeOK, NEW g \in Engine, Act,
         ~(StartPass(g) \/ Evicting(g) \/ Collecting(g) \/ Crash(g))
  PROVE  epc'[g] = epc[g] /\ found'[g] = found[g] /\ refd'[g] = refd[g] /\ ekey'[g] = ekey[g]
  <1>1. CASE UNCHANGED engines
    BY <1>1 DEF engines
  <1>2. CASE \E e \in Engine : StartPass(e) \/ Evicting(e) \/ Collecting(e) \/ Crash(e)
    <2>1. PICK e \in Engine : StartPass(e) \/ Evicting(e) \/ Collecting(e) \/ Crash(e)
      BY <1>2
    <2>2. e # g
      BY <2>1
    <2>3. CASE StartPass(e)
      BY <2>2, <2>3 DEF StartPass, EGoto, TypeOK, EngineTypeOK
    <2>4. CASE Evicting(e)
      BY <2>2, <2>4 DEF Evicting, Candidates, EvictList, EvictPrefix, EvictRefs, EvictMark,
         EvictDone, EGoto, TypeOK, EngineTypeOK
    <2>5. CASE Collecting(e)
      BY <2>2, <2>5 DEF Collecting, DropDanglingRefs, GCList, GCDelete, GCDeleteRow, ReferencedKeys,
         ListBlobs, ReconcileDelete, ReconcileDeleteRow, ReconcileDone, DeleteObject,
         DeleteBlobRow, EGoto, TypeOK, EngineTypeOK
    <2>6. CASE Crash(e)
      BY <2>2, <2>6 DEF Crash, Forget, EGoto, TypeOK, EngineTypeOK
    <2> QED
      BY <2>1, <2>3, <2>4, <2>5, <2>6
  <1>3. UNCHANGED engines \/ \E e \in Engine : StartPass(e) \/ Evicting(e) \/ Collecting(e) \/ Crash(e)
    BY DEF Act, Asking, Publishing, StartPublish, LookupBlob, Head, Upload, AddBlobRef, PutManifest,
       Complete, Abandon, Age, ReadManifest, CreateCached, CheckDelete, DeleteRow,
       KeepForSystem, ListByInfoHash
  <1> QED
    BY <1>1, <1>2, <1>3

\* Every step keeps the invariant.
LEMMA StepInv == StoreInv /\ [Next]_vars => StoreInv'
  <1> SUFFICES ASSUME StoreInv, [Next]_vars PROVE StoreInv'
    OBVIOUS
  <1>1. TypeOK /\ \A g \in Engine : EngineInv(g)
    BY InvOfEngines
  <1>2. TypeOK'
    BY <1>1, TypeStep
  <1>3. ASSUME NEW g \in Engine PROVE EngineInv(g)'
    <2>1. CASE UNCHANGED vars
      BY <1>1, <2>1 DEF vars, engines, EngineInv, Looks
    <2>2. CASE Next
      <3>1. CASE StartPass(g) \/ Evicting(g) \/ Crash(g)
        BY <1>1, <2>2, <3>1, EvictInv
      <3>2. CASE Collecting(g)
        BY <1>1, <1>2, <2>2, <3>2, CollectInv
      <3>3. CASE ~(StartPass(g) \/ Evicting(g) \/ Collecting(g) \/ Crash(g))
        BY <1>1, <2>2, <3>3, OthersStep, Unmoved DEF Next
      <3> QED
        BY <3>1, <3>2, <3>3
    <2> QED
      BY <2>1, <2>2
  <1>4. StoreInv' <=> TypeOK' /\ \A g \in Engine : EngineInv(g)'
    BY DEF StoreInv, SteadyIsKept, EngineInv
  <1> QED
    BY <1>2, <1>3, <1>4

\* The evictors' invariant holds in every state: see StoreInv (RunGC, runReconcile).
THEOREM StoreInvariant == Spec => []StoreInv
  <1> QED
    BY InitInv, StepInv, PTL DEF Spec

\* No pass deletes what has been referenced ever since it looked, for any number of
\* nodes, evictors, publications and requests (RunGC, runReconcile).
THEOREM SteadyIsKeptHolds == Spec => []SteadyIsKept
  <1>1. StoreInv => SteadyIsKept
    BY DEF StoreInv
  <1> QED
    BY <1>1, StoreInvariant, PTL

=============================================================================
