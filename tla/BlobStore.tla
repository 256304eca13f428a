------------------------------ MODULE BlobStore -----------------------------
(***************************************************************************)
(* The content-addressed store: uploads that reuse blobs (shared/          *)
(* blobstore), the reference index (shared/jobs/blobs.go), and the         *)
(* evictors that drop references and collect what nobody references        *)
(* (shared/eviction), together with the requests that add and remove rows  *)
(* of the jobs table underneath them.                                      *)
(*                                                                         *)
(* Every node keeps its own objects; blobs, blob_refs and jobs are one     *)
(* database for all of them, and neither blobs nor blob_refs says on which *)
(* node an object is.  Every statement and every store call is a step.     *)
(*                                                                         *)
(* Abstractions: a download has one file, so KeyOf[h] is its content key;  *)
(* an object is absent, older than the reconcile grace, or fresh; which    *)
(* candidates are cold is left open; seeds, which evict refuses to touch,  *)
(* are not in the table.  The store's calls succeed, and a failure between *)
(* two calls is a crash of the process that makes them.                    *)
(***************************************************************************)
EXTENDS Integers, FiniteSets

CONSTANTS
  Node, Hash, Key, Row,
  KeyOf,          \* content key of the hash's file
  HashOf,         \* jobs.info_hash
  Worker, Req,    \* publications and API requests in progress
  Daily, Watch,   \* the evictors' two goroutines: StartSchedule, StartDiskWatch
  NodeOf,         \* the node an evictor goroutine works on
  Seeded,         \* rows complete at the start, each on its HomeOf node
  HomeOf,
  NoHash, NoKey, NoRow, NoNode,
  MaxPublish,     \* bound on the publications started
  MaxCrash        \* bound on the crashes of evictors and workers

Engine == Daily \cup Watch

ASSUME StoreAssumption ==
  /\ KeyOf \in [Hash -> Key]
  /\ HashOf \in [Row -> Hash]
  /\ NodeOf \in [Engine -> Node]
  /\ HomeOf \in [Seeded -> Node]
  /\ Seeded \subseteq Row
  /\ NoHash \notin Hash /\ NoKey \notin Key /\ NoRow \notin Row /\ NoNode \notin Node
  /\ MaxPublish \in Nat /\ MaxCrash \in Nat

RowStatus == {"none", "active", "complete", "failed", "evicted", "deleted"}
WorkPc == {"idle", "lookup", "head", "upload", "ref", "manifest", "complete", "update"}
EnginePc == {"idle", "cands", "evict", "prefix", "refs", "mark", "dangling",
             "gclist", "gcdel", "gcrow", "refkeys", "list", "recdel", "recrow"}

VARIABLES
  object,     \* the blobs in each node's store
  manifests,  \* <<node, hash>> of the manifests in the stores
  blobs,      \* table blobs
  refs,       \* table blob_refs: the hashes that have their reference
  row, node,  \* jobs.status and jobs.node
  wpc, wrow, wnode,     \* a publication: its next call, its row, its target
  wsibs,                \* and the rows it has listed to complete
  hit, del,             \* a request about to insert a cached row, or to delete one
  epc, stage, cands,    \* an evictor: next call, which pass, the candidates left
  ehash, sibs, ekey,    \* the hash it evicts, its listed rows, the key it deletes
  found, refd,          \* the keys it has listed, and those it read as referenced
  published, crashes,   \* how far the bounds are used
  steady                \* ghost: keys referenced ever since the evictor's last look

store   == <<object, manifests>>
tables  == <<blobs, refs, row, node>>
workers == <<wpc, wrow, wnode, wsibs>>
asks    == <<hit, del>>
engines == <<epc, stage, cands, ehash, sibs, ekey, found, refd>>
bounds  == <<published, crashes>>
vars    == <<store, tables, workers, asks, engines, bounds, steady>>

-----------------------------------------------------------------------------
Present(r)    == row[r] \notin {"none", "deleted"}
RowsOf(h)     == {r \in Row : HashOf[r] = h /\ Present(r)}
CompleteAt(n) == {r \in Row : row[r] = "complete" /\ node[r] = n}
Referenced    == {KeyOf[h] : h \in refs}
OrphanedBlobs == blobs \ Referenced

NoHit    == <<NoNode, NoHash>>
NoDelete == <<"none", NoRow, NoNode>>

Init ==
  /\ object = [p \in Node \X Key |->
                 IF \E r \in Seeded : p = <<HomeOf[r], KeyOf[HashOf[r]]>>
                 THEN "old" ELSE "none"]
  /\ manifests = {<<HomeOf[r], HashOf[r]>> : r \in Seeded}
  /\ blobs = {KeyOf[HashOf[r]] : r \in Seeded}
  /\ refs = {HashOf[r] : r \in Seeded}
  /\ row = [r \in Row |-> IF r \in Seeded THEN "complete" ELSE "none"]
  /\ node = [r \in Row |-> IF r \in Seeded THEN HomeOf[r] ELSE NoNode]
  /\ wpc = [w \in Worker |-> "idle"]
  /\ wrow = [w \in Worker |-> NoRow]
  /\ wnode = [w \in Worker |-> NoNode]
  /\ wsibs = [w \in Worker |-> {}]
  /\ hit = [q \in Req |-> NoHit]
  /\ del = [q \in Req |-> NoDelete]
  /\ epc = [g \in Engine |-> "idle"]
  /\ stage = [g \in Engine |-> "ttl"]
  /\ cands = [g \in Engine |-> {}]
  /\ ehash = [g \in Engine |-> NoHash]
  /\ sibs = [g \in Engine |-> {}]
  /\ ekey = [g \in Engine |-> NoKey]
  /\ found = [g \in Engine |-> {}]
  /\ refd = [g \in Engine |-> {}]
  /\ published = 0
  /\ crashes = 0
  /\ steady = [g \in Engine |-> {}]

-----------------------------------------------------------------------------
(* A publication: Publish, and the Put it calls for each file.             *)

WGoto(w, label) == wpc' = [wpc EXCEPT ![w] = label]
WHash(w)        == HashOf[wrow[w]]
WObject(w)      == <<wnode[w], KeyOf[WHash(w)]>>

\* One publication of a hash at a time: the queue claims a hash once.
StartPublish(w, r, n) ==
  /\ wpc[w] = "idle"
  /\ row[r] \in {"none", "failed", "evicted"}
  /\ \A v \in Worker : wpc[v] # "idle" => WHash(v) # HashOf[r]
  /\ published < MaxPublish
  /\ published' = published + 1
  /\ row' = [row EXCEPT ![r] = "active"]
  /\ node' = [node EXCEPT ![r] = n]
  /\ wrow' = [wrow EXCEPT ![w] = r]
  /\ wnode' = [wnode EXCEPT ![w] = n]
  /\ WGoto(w, "lookup")
  /\ UNCHANGED <<store, blobs, refs, wsibs, asks, engines, crashes>>

LookupBlob(w) ==
  /\ wpc[w] = "lookup"
  /\ WGoto(w, IF KeyOf[WHash(w)] \in blobs THEN "head" ELSE "upload")
  /\ UNCHANGED <<store, tables, wrow, wnode, wsibs, asks, engines, bounds>>

\* The blob is reused when the target's store has it too.
Head(w) ==
  /\ wpc[w] = "head"
  /\ WGoto(w, IF object[WObject(w)] # "none" THEN "ref" ELSE "upload")
  /\ UNCHANGED <<store, tables, wrow, wnode, wsibs, asks, engines, bounds>>

Upload(w) ==
  /\ wpc[w] = "upload"
  /\ object' = [object EXCEPT ![WObject(w)] = "fresh"]
  /\ WGoto(w, "ref")
  /\ UNCHANGED <<manifests, tables, wrow, wnode, wsibs, asks, engines, bounds>>

AddBlobRef(w) ==
  /\ wpc[w] = "ref"
  /\ blobs' = blobs \cup {KeyOf[WHash(w)]}
  /\ refs' = refs \cup {WHash(w)}
  /\ WGoto(w, "manifest")
  /\ UNCHANGED <<store, row, node, wrow, wnode, wsibs, asks, engines, bounds>>

PutManifest(w) ==
  /\ wpc[w] = "manifest"
  /\ manifests' = manifests \cup {<<wnode[w], WHash(w)>>}
  /\ WGoto(w, "complete")
  /\ UNCHANGED <<object, tables, wrow, wnode, wsibs, asks, engines, bounds>>

WorkerIdle(w) ==
  /\ WGoto(w, "idle")
  /\ wrow' = [wrow EXCEPT ![w] = NoRow]
  /\ wnode' = [wnode EXCEPT ![w] = NoNode]
  /\ wsibs' = [wsibs EXCEPT ![w] = {}]

\* Every row of the content on that node is to be complete, failed and evicted ones
\* excepted ...
ListByInfoHash(w) ==
  /\ wpc[w] = "complete"
  /\ wsibs' = [wsibs EXCEPT ![w] =
       {r \in RowsOf(WHash(w)) : node[r] = wnode[w] /\ row[r] \notin {"failed", "evicted"}}]
  /\ WGoto(w, "update")
  /\ UNCHANGED <<store, tables, wrow, wnode, asks, engines, bounds>>

\* ... and is written back so, whatever has become of it, unless it is gone.
Complete(w) ==
  /\ wpc[w] = "update"
  /\ LET written == {r \in wsibs[w] : Present(r)} IN
       /\ row' = [r \in Row |-> IF r \in written THEN "complete" ELSE row[r]]
       /\ node' = [r \in Row |-> IF r \in written THEN wnode[w] ELSE node[r]]
  /\ WorkerIdle(w)
  /\ UNCHANGED <<store, blobs, refs, asks, engines, bounds>>

\* A call fails, or the worker dies, between any two calls.
Abandon(w) ==
  /\ wpc[w] # "idle"
  /\ crashes < MaxCrash
  /\ crashes' = crashes + 1
  /\ row' = IF row[wrow[w]] = "active" THEN [row EXCEPT ![wrow[w]] = "failed"] ELSE row
  /\ WorkerIdle(w)
  /\ UNCHANGED <<store, blobs, refs, node, asks, engines, published>>

\* The grace is a day: no upload waits that long for its reference.
Age(p) ==
  /\ object[p] = "fresh"
  /\ \A w \in Worker : wpc[w] = "ref" => WObject(w) # p
  /\ object' = [object EXCEPT ![p] = "old"]
  /\ UNCHANGED <<manifests, tables, workers, asks, engines, bounds>>

-----------------------------------------------------------------------------
(* Requests on the same rows.                                              *)

\* A request answered from the cache: it reads the manifest, then inserts a
\* complete row for its account.
ReadManifest(q, n, h) ==
  /\ hit[q] = NoHit /\ del[q] = NoDelete
  /\ <<n, h>> \in manifests
  /\ hit' = [hit EXCEPT ![q] = <<n, h>>]
  /\ UNCHANGED <<store, tables, workers, del, engines, bounds>>

CreateCached(q, r) ==
  /\ hit[q][2] = HashOf[r]
  /\ row[r] = "none"
  /\ row' = [row EXCEPT ![r] = "complete"]
  /\ node' = [node EXCEPT ![r] = hit[q][1]]
  /\ hit' = [hit EXCEPT ![q] = NoHit]
  /\ UNCHANGED <<store, blobs, refs, workers, del, engines, bounds>>

\* The last row of a content, if complete, is to be kept for the system, any other is
\* to be deleted; by the time that happens the rows may be different ones.
CheckDelete(q, r) ==
  /\ hit[q] = NoHit /\ del[q] = NoDelete
  /\ Present(r)
  /\ LET last == row[r] = "complete" /\ RowsOf(HashOf[r]) = {r}
     IN  del' = [del EXCEPT ![q] = <<IF last THEN "keep" ELSE "delete", r, node[r]>>]
  /\ UNCHANGED <<store, tables, workers, hit, engines, bounds>>

DeleteRow(q) ==
  /\ del[q][1] = "delete"
  /\ row' = [row EXCEPT ![del[q][2]] = "deleted"]
  /\ del' = [del EXCEPT ![q] = NoDelete]
  /\ UNCHANGED <<store, blobs, refs, node, workers, hit, engines, bounds>>

\* The row is written back as it was read, complete, under the system's name.
KeepForSystem(q) ==
  /\ del[q][1] = "keep"
  /\ LET r == del[q][2] IN
       /\ row' = IF Present(r) THEN [row EXCEPT ![r] = "complete"] ELSE row
       /\ node' = IF Present(r) THEN [node EXCEPT ![r] = del[q][3]] ELSE node
  /\ del' = [del EXCEPT ![q] = NoDelete]
  /\ UNCHANGED <<store, blobs, refs, workers, hit, engines, bounds>>

-----------------------------------------------------------------------------
(* The evictor.                                                            *)

EGoto(g, label) == epc' = [epc EXCEPT ![g] = label]

Forget(g) ==
  /\ cands' = [cands EXCEPT ![g] = {}]
  /\ found' = [found EXCEPT ![g] = {}]
  /\ refd' = [refd EXCEPT ![g] = {}]
  /\ ehash' = [ehash EXCEPT ![g] = NoHash]
  /\ sibs' = [sibs EXCEPT ![g] = {}]
  /\ ekey' = [ekey EXCEPT ![g] = NoKey]

\* RunDaily starts with the candidates, reclaimToFree with the collection.
StartPass(g) ==
  /\ epc[g] = "idle"
  /\ EGoto(g, IF g \in Daily THEN "cands" ELSE "gclist")
  /\ stage' = [stage EXCEPT ![g] = "ttl"]
  /\ UNCHANGED <<store, tables, workers, asks, cands, ehash, sibs, ekey, found, refd, bounds>>

Candidates(g) ==
  /\ epc[g] = "cands"
  /\ cands' = [cands EXCEPT ![g] = {HashOf[r] : r \in CompleteAt(NodeOf[g])}]
  /\ EGoto(g, "evict")
  /\ UNCHANGED <<store, tables, workers, asks, stage, ehash, sibs, ekey, found, refd, bounds>>

\* The next cold candidate: its rows are listed before anything is deleted.
EvictList(g, h) ==
  /\ epc[g] = "evict"
  /\ h \in cands[g]
  /\ cands' = [cands EXCEPT ![g] = @ \ {h}]
  /\ ehash' = [ehash EXCEPT ![g] = h]
  /\ sibs' = [sibs EXCEPT ![g] = {r \in RowsOf(h) : node[r] = NodeOf[g]}]
  /\ EGoto(g, "prefix")
  /\ UNCHANGED <<store, tables, workers, asks, stage, ekey, found, refd, bounds>>

EvictPrefix(g) ==
  /\ epc[g] = "prefix"
  /\ manifests' = manifests \ {<<NodeOf[g], ehash[g]>>}
  /\ EGoto(g, "refs")
  /\ UNCHANGED <<object, tables, workers, asks, stage, cands, ehash, sibs, ekey, found, refd, bounds>>

\* DELETE ... RETURNING and the SELECT that looks for keys without a reference are
\* one statement, and see the same snapshot: the references being deleted are
\* still there for the SELECT.
EvictRefs(g) ==
  /\ epc[g] = "refs"
  /\ LET removed  == {ehash[g]} \cap refs
         orphaned == {KeyOf[h] : h \in removed} \ Referenced
     IN  /\ refs' = refs \ removed
         /\ object' = [p \in Node \X Key |->
              IF p[1] = NodeOf[g] /\ p[2] \in orphaned THEN "none" ELSE object[p]]
         /\ blobs' = blobs \ orphaned
  /\ EGoto(g, "mark")
  /\ UNCHANGED <<manifests, row, node, workers, asks, stage, cands, ehash, sibs, ekey, found, refd, bounds>>

\* Each listed row of this node is written back, evicted, unless it is gone.
EvictMark(g) ==
  /\ epc[g] = "mark"
  /\ LET marked == {r \in sibs[g] : Present(r)} IN
       /\ row' = [r \in Row |-> IF r \in marked THEN "evicted" ELSE row[r]]
       /\ node' = [r \in Row |-> IF r \in marked THEN NodeOf[g] ELSE node[r]]
  /\ ehash' = [ehash EXCEPT ![g] = NoHash]
  /\ sibs' = [sibs EXCEPT ![g] = {}]
  /\ EGoto(g, "evict")
  /\ UNCHANGED <<store, blobs, refs, workers, asks, stage, cands, ekey, found, refd, bounds>>

\* The candidates that are left are not cold, or enough has been freed.
EvictDone(g) ==
  /\ epc[g] = "evict"
  /\ cands' = [cands EXCEPT ![g] = {}]
  /\ EGoto(g, IF g \in Daily /\ stage[g] = "ttl" THEN "dangling" ELSE "idle")
  /\ UNCHANGED <<store, tables, workers, asks, stage, ehash, sibs, ekey, found, refd, bounds>>

\* Bug: a reference is kept while a manifest of its content is in the store.
DropUnlistedRefs(g) ==
  /\ epc[g] = "dangling"
  /\ refs' = {h \in refs : RowsOf(h) # {} \/ <<NodeOf[g], h>> \in manifests}
  /\ EGoto(g, "gclist")
  /\ UNCHANGED <<store, blobs, row, node, workers, asks, stage, cands, ehash, sibs, ekey, found, refd, bounds>>

DropDanglingRefs(g) ==
  /\ epc[g] = "dangling"
  /\ refs' = {h \in refs : RowsOf(h) # {}}
  /\ EGoto(g, "gclist")
  /\ UNCHANGED <<store, blobs, row, node, workers, asks, stage, cands, ehash, sibs, ekey, found, refd, bounds>>

\* RunGC: list, delete each, list again until nothing is left.
GCList(g) ==
  /\ epc[g] = "gclist"
  /\ found' = [found EXCEPT ![g] = OrphanedBlobs]
  /\ EGoto(g, IF OrphanedBlobs # {} THEN "gcdel"
              ELSE IF g \in Daily THEN "refkeys" ELSE "cands")
  /\ UNCHANGED <<store, tables, workers, asks, stage, cands, ehash, sibs, ekey, refd, bounds>>

\* An object goes before its row: GC and reconcile alike.
DeleteObject(g, k, from, to) ==
  /\ epc[g] = from
  /\ k \in found[g]
  /\ object' = [object EXCEPT ![<<NodeOf[g], k>>] = "none"]
  /\ found' = [found EXCEPT ![g] = @ \ {k}]
  /\ ekey' = [ekey EXCEPT ![g] = k]
  /\ EGoto(g, to)
  /\ UNCHANGED <<manifests, tables, workers, asks, stage, cands, ehash, sibs, refd, bounds>>

DeleteBlobRow(g, from, to) ==
  /\ epc[g] = from
  /\ blobs' = blobs \ {ekey[g]}
  /\ ekey' = [ekey EXCEPT ![g] = NoKey]
  /\ EGoto(g, to)
  /\ UNCHANGED <<store, refs, row, node, workers, asks, stage, cands, ehash, sibs, found, refd, bounds>>

GCDelete(g, k) == DeleteObject(g, k, "gcdel", "gcrow")
GCDeleteRow(g) == DeleteBlobRow(g, "gcrow", IF found[g] = {} THEN "gclist" ELSE "gcdel")

\* Bug: a reference counts only where the evictor's own node serves the content.
ReferencedKeysHere(g) ==
  /\ epc[g] = "refkeys"
  /\ refd' = [refd EXCEPT ![g] =
       {KeyOf[h] : h \in {i \in refs : \E r \in CompleteAt(NodeOf[g]) : HashOf[r] = i}}]
  /\ EGoto(g, "list")
  /\ UNCHANGED <<store, tables, workers, asks, stage, cands, ehash, sibs, ekey, found, bounds>>

ReferencedKeys(g) ==
  /\ epc[g] = "refkeys"
  /\ refd' = [refd EXCEPT ![g] = Referenced]
  /\ EGoto(g, "list")
  /\ UNCHANGED <<store, tables, workers, asks, stage, cands, ehash, sibs, ekey, found, bounds>>

\* Bug: only blobs the index knows are looked at.
ListBlobsIndexed(g) ==
  /\ epc[g] = "list"
  /\ found' = [found EXCEPT ![g] =
       {k \in blobs : object[<<NodeOf[g], k>>] = "old"} \ refd[g]]
  /\ EGoto(g, "recdel")
  /\ UNCHANGED <<store, tables, workers, asks, stage, cands, ehash, sibs, ekey, refd, bounds>>

ListBlobs(g) ==
  /\ epc[g] = "list"
  /\ found' = [found EXCEPT ![g] =
       {k \in Key : object[<<NodeOf[g], k>>] = "old"} \ refd[g]]
  /\ EGoto(g, "recdel")
  /\ UNCHANGED <<store, tables, workers, asks, stage, cands, ehash, sibs, ekey, refd, bounds>>

ReconcileDelete(g, k) == DeleteObject(g, k, "recdel", "recrow")
ReconcileDeleteRow(g) == DeleteBlobRow(g, "recrow", "recdel")

\* The budget pass looks for candidates again, when the node is over its cap.
ReconcileDone(g) ==
  /\ epc[g] = "recdel"
  /\ found[g] = {}
  /\ refd' = [refd EXCEPT ![g] = {}]
  /\ stage' = [stage EXCEPT ![g] = "budget"]
  /\ \/ EGoto(g, "cands")
     \/ EGoto(g, "idle")
  /\ UNCHANGED <<store, tables, workers, asks, cands, ehash, sibs, ekey, found, bounds>>

\* Bug: an interrupted pass is resumed with the key it was deleting.
CrashKeepingKey(g) ==
  /\ epc[g] # "idle"
  /\ crashes < MaxCrash
  /\ crashes' = crashes + 1
  /\ EGoto(g, "idle")
  /\ UNCHANGED <<store, tables, workers, asks, stage, cands, ehash, sibs, ekey, found, refd, published>>

Crash(g) ==
  /\ epc[g] # "idle"
  /\ crashes < MaxCrash
  /\ crashes' = crashes + 1
  /\ EGoto(g, "idle")
  /\ Forget(g)
  /\ UNCHANGED <<store, tables, workers, asks, stage, published>>

-----------------------------------------------------------------------------
Publishing(w) ==
  \/ LookupBlob(w) \/ Head(w) \/ Upload(w) \/ AddBlobRef(w) \/ PutManifest(w)
  \/ ListByInfoHash(w) \/ Complete(w)

Evicting(g) ==
  \/ Candidates(g) \/ (\E h \in Hash : EvictList(g, h))
  \/ EvictPrefix(g) \/ EvictRefs(g) \/ EvictMark(g) \/ EvictDone(g)

Collecting(g) ==
  \/ DropDanglingRefs(g) \/ GCList(g) \/ GCDeleteRow(g)
  \/ ReferencedKeys(g) \/ ListBlobs(g) \/ ReconcileDeleteRow(g) \/ ReconcileDone(g)
  \/ \E k \in Key : GCDelete(g, k) \/ ReconcileDelete(g, k)

Asking ==
  \/ \E q \in Req, n \in Node, h \in Hash : ReadManifest(q, n, h)
  \/ \E q \in Req, r \in Row : CreateCached(q, r) \/ CheckDelete(q, r)
  \/ \E q \in Req : DeleteRow(q) \/ KeepForSystem(q)

Act ==
  \/ \E w \in Worker, r \in Row, n \in Node : StartPublish(w, r, n)
  \/ \E w \in Worker : Publishing(w) \/ Abandon(w)
  \/ \E p \in Node \X Key : Age(p)
  \/ Asking
  \/ \E g \in Engine : StartPass(g) \/ Evicting(g) \/ Collecting(g) \/ Crash(g)

\* What an evictor reads as unreferenced it reads when it leaves one of these.
Looks == {"gclist", "refkeys"}

Watched ==
  steady' = [g \in Engine |->
    IF epc[g] \in Looks /\ epc'[g] # epc[g] THEN Referenced' ELSE steady[g] \cap Referenced']

Next == Act /\ Watched

Spec == Init /\ [][Next]_vars

\* The daily pass is started every day and each of its calls returns, a publication
\* goes on until it ends, and time passes.
Fairness ==
  /\ \A g \in Engine : WF_vars((StartPass(g) \/ Evicting(g) \/ Collecting(g)) /\ Watched)
  /\ \A w \in Worker : WF_vars(Publishing(w) /\ Watched)
  /\ \A p \in Node \X Key : WF_vars(Age(p) /\ Watched)

FairSpec == Spec /\ Fairness

-----------------------------------------------------------------------------
(* Properties.                                                             *)

StoreTypeOK ==
  /\ object \in [Node \X Key -> {"none", "old", "fresh"}]
  /\ manifests \subseteq Node \X Hash
  /\ blobs \subseteq Key
  /\ refs \subseteq Hash
  /\ row \in [Row -> RowStatus]
  /\ node \in [Row -> Node \cup {NoNode}]

CallerTypeOK ==
  /\ wpc \in [Worker -> WorkPc]
  /\ wrow \in [Worker -> Row \cup {NoRow}]
  /\ wnode \in [Worker -> Node \cup {NoNode}]
  /\ \A w \in Worker : /\ wpc[w] = "idle" <=> wrow[w] = NoRow
                       /\ wpc[w] = "idle" <=> wnode[w] = NoNode
  /\ hit \in [Req -> (Node \cup {NoNode}) \X (Hash \cup {NoHash})]
  /\ wsibs \in [Worker -> SUBSET Row]
  /\ del \in [Req -> {"none", "keep", "delete"} \X (Row \cup {NoRow}) \X (Node \cup {NoNode})]
  /\ \A q \in Req : del[q][1] = "none" <=> del[q][2] = NoRow

EngineTypeOK ==
  /\ epc \in [Engine -> EnginePc]
  /\ stage \in [Engine -> {"ttl", "budget"}]
  /\ cands \in [Engine -> SUBSET Hash]
  /\ sibs \in [Engine -> SUBSET Row]
  /\ ehash \in [Engine -> Hash \cup {NoHash}]
  /\ ekey \in [Engine -> Key \cup {NoKey}]
  /\ found \in [Engine -> SUBSET Key]
  /\ refd \in [Engine -> SUBSET Key]
  /\ \A g \in Engine : /\ epc[g] \in {"prefix", "refs", "mark"} <=> ehash[g] # NoHash
                       /\ epc[g] \in {"gcrow", "recrow"} <=> ekey[g] # NoKey

\* Rows, references, listings and the registers of every actor keep their types; a
\* hash being evicted, a key being deleted and a row being published are named
\* exactly while they are.
TypeOK ==
  /\ StoreTypeOK
  /\ CallerTypeOK
  /\ EngineTypeOK
  /\ published \in 0..MaxPublish
  /\ crashes \in 0..MaxCrash
  /\ steady \in [Engine -> SUBSET Key]

Holds(p) == object[p] # "none"

\* A pass of an evictor never deletes a blob that has been referenced ever since the
\* pass read which blobs are referenced: what nobody touches is safe, however long
\* the pass takes and whatever the others delete meanwhile.
SteadyIsKept ==
  \A g \in Engine :
    epc[g] \in {"gcdel", "gcrow", "list", "recdel", "recrow"} =>
      steady[g] \cap (found[g] \cup {ekey[g]}) = {}

\* The inductive invariant: between reading the references and using them an evictor
\* knows of every key that has stayed referenced, and starts a listing empty-handed.
StoreInv ==
  /\ TypeOK
  /\ SteadyIsKept
  /\ \A g \in Engine :
       /\ epc[g] \notin {"gcdel", "gcrow", "recdel", "recrow"} => found[g] = {}
       /\ epc[g] = "list" => steady[g] \subseteq refd[g]

\* What is stored and stays unreferenced is deleted in the end, by the collection of
\* the node it is on or, once another node's collection has removed its row, by the
\* reconciliation of its own.
Collected ==
  \A n \in Node, k \in Key :
    Holds(<<n, k>>) /\ k \notin Referenced ~> ~Holds(<<n, k>>) \/ k \in Referenced

\* A content that no row of the jobs table is left of leaves nothing behind: its
\* references dangle and are dropped, then the index row and the objects on every
\* node go, although only one node's collection finds the index row.
ContentForgotten ==
  \A k \in Key :
    (\A h \in Hash : KeyOf[h] = k => RowsOf(h) = {}) ~>
      \/ k \notin blobs /\ \A n \in Node : ~Holds(<<n, k>>)
      \/ \E h \in Hash : KeyOf[h] = k /\ RowsOf(h) # {}

\* "other-node job must NOT be marked evicted (that node still has the content)"
\* (eviction_test.go:117): evicting a download on one node leaves a complete row of
\* another node its content.
OtherNodeKeepsContent ==
  \A r \in Row : row[r] = "complete" /\ <<node[r], HashOf[r]>> \in manifests
    => Holds(<<node[r], KeyOf[HashOf[r]]>>)
=============================================================================
