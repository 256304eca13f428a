---------------------------- MODULE StreamServer ----------------------------
(***************************************************************************)
(* The stream server (stream/internal/server, stream/cmd): the requests in *)
(* flight, the two guards that bound them, the cache of the node a release *)
(* is on, and the workers a zip starts to warm the disk cache.             *)
(*                                                                         *)
(* A request is a slot of Reading that goes from "idle" through the stages *)
(* of its handler back to "idle".  What the client sends and what storage, *)
(* the archive, the rclone remote and the news servers answer are          *)
(* nondeterministic; what a request reads of the state it reads in a step  *)
(* of its own.  A request serve refuses for its method, path, expiry or    *)
(* signature leaves no trace and is not a step.                            *)
(***************************************************************************)
EXTENDS Naturals, FiniteSets

CONSTANTS
    Reading,       \* slots for requests that are being served
    Viewer,        \* who a link was signed for
    Anyone,        \* the user of a link that names none
    Content,       \* info hashes
    Place,         \* storage nodes
    Nowhere,       \* the node of a hash no job row has
    Total,         \* CAIRN_STREAM / USENET_MAXCONNS: streams of the archive
    StreamsPerUser,       \* CAIRN_STREAM_MAX_PER_USER
    ZipsPerUser,   \* maxZipsPerUser
    Warmers,       \* zipPrefetchWorkers
    ZipFiles       \* files of a release

ASSUME StreamAssumption ==
    /\ IsFiniteSet(Reading) /\ Anyone \in Viewer /\ Place # {} /\ Nowhere \notin Place
    /\ {Total, StreamsPerUser, ZipsPerUser, Warmers, ZipFiles} \subseteq Nat

VARIABLES
    served,    \* served[r]: the request in slot r, or NoRequest
    step,     \* step[r]: where its handler is
    found,    \* found[r]: the node nodeFor has found for it
    nodeSeen,     \* nodeSeen: what nodeFor remembers of a hash
    rowNode,  \* the node of the job row of a hash
    slots,    \* cairnSlots.inflight
    streaming,    \* cairnSlots.total
    zips,     \* zips.inflight
    warm,     \* warm[r]: prewarm goroutines of r that still run
    index     \* index[r]: the counter they share

requestVars == <<served, step, found>>
guardVars   == <<slots, streaming, zips>>
warmVars    == <<warm, index>>
nodeVars    == <<nodeSeen, rowNode>>
streamVars  == <<requestVars, guardVars, warmVars, nodeVars>>

NoRequest == [kind |-> "none"]
Unseen    == "unseen"
Served    == {"file", "enc", "cairn", "zip", "zipstream", "usenet", "byos"}
StreamRequest == [kind : Served, user : Viewer, hash : Content, get : BOOLEAN, ranged : BOOLEAN]

(* Whether a range is asked for makes a difference to a seekable zip only. *)
StreamRequests == {q \in StreamRequest : q.ranged => q.kind = "zip" /\ q.get}

(* newStreamGuard's limits: at least one stream, nobody more than all.     *)
AtMost(a, b) == IF a > b THEN b ELSE a
GuardTotal   == IF Total < 1 THEN 1 ELSE Total
GuardPerUser == AtMost(IF StreamsPerUser < 1 THEN 1 ELSE StreamsPerUser, GuardTotal)

StreamInit ==
    /\ served = [r \in Reading |-> NoRequest]
    /\ step = [r \in Reading |-> "idle"]
    /\ found = [r \in Reading |-> Nowhere]
    /\ nodeSeen = [h \in Content |-> Unseen]
    /\ rowNode = [h \in Content |-> CHOOSE n \in Place : TRUE]
    /\ slots = [u \in Viewer |-> 0]
    /\ streaming = 0
    /\ zips = [u \in Viewer |-> 0]
    /\ warm = [r \in Reading |-> 0]
    /\ index = [r \in Reading |-> 0]

ServeStep(r, s)  == step' = [step EXCEPT ![r] = s]
Answered(r) == ServeStep(r, "idle") /\ served' = [served EXCEPT ![r] = NoRequest]

(* The first stage of the handler of a kind: the archive and the news      *)
(* servers are not asked for by node.                                      *)
StageOf(kind) == CASE kind = "byos"   -> "remote"
                   [] kind = "cairn"  -> "guard"
                   [] kind = "usenet" -> "nzb"
                   [] OTHER           -> "node"

ServeRequest(r, q) ==
    /\ step[r] = "idle" /\ warm[r] = 0
    /\ served' = [served EXCEPT ![r] = q]
    /\ ServeStep(r, StageOf(q.kind))
    /\ UNCHANGED <<found, guardVars, warmVars, nodeVars>>

(***************************************************************************)
(* nodeFor: the cache, else the row, which is then remembered for good.    *)
(***************************************************************************)
NodeLookUp(r) ==
    /\ step[r] = "node"
    /\ LET h == served[r].hash IN
       IF nodeSeen[h] # Unseen
         THEN /\ found' = [found EXCEPT ![r] = nodeSeen[h]]
              /\ ServeStep(r, "object")
         ELSE /\ found' = [found EXCEPT ![r] = rowNode[h]]
              /\ ServeStep(r, "remember")
    /\ UNCHANGED <<served, guardVars, warmVars, nodeVars>>

NodeRemember(r) ==
    /\ step[r] = "remember"
    /\ nodeSeen' = [nodeSeen EXCEPT ![served[r].hash] = found[r]]
    /\ ServeStep(r, "object")
    /\ UNCHANGED <<served, found, guardVars, warmVars, rowNode>>

(* The release is evicted, or downloaded again by another node's worker.   *)
RowMoves(h) ==
    /\ \E n \in (Place \cup {Nowhere}) \ {rowNode[h]} : rowNode' = [rowNode EXCEPT ![h] = n]
    /\ UNCHANGED <<requestVars, guardVars, warmVars, nodeSeen>>

(***************************************************************************)
(* Files: serveHead, serveFile, serveFileEnc; serveBYOS before them.       *)
(***************************************************************************)
ServeFile(r) ==
    /\ step[r] = "object" /\ served[r].kind \in {"file", "enc", "byos"}
    /\ \/ Answered(r)                                  \* not there, or no body is wanted
       \/ served[r].get /\ ServeStep(r, "body") /\ UNCHANGED served
    /\ found' = [found EXCEPT ![r] = Nowhere]
    /\ UNCHANGED <<guardVars, warmVars, nodeVars>>

(* Without an enabled remote, an object there or an answer below 500 the   *)
(* request is served from the node; nothing has been written by then.      *)
ServeBYOS(r) ==
    /\ step[r] = "remote"
    /\ \/ ServeStep(r, "node") /\ UNCHANGED served
       \/ served[r].user # Anyone
          /\ IF served[r].get THEN ServeStep(r, "body") /\ UNCHANGED served ELSE Answered(r)
    /\ UNCHANGED <<found, guardVars, warmVars, nodeVars>>

(***************************************************************************)
(* The archive: serveCairn under the guard streamGuard.                    *)
(***************************************************************************)
Holding(r) == step[r] \in {"archive", "body"} /\ served[r].kind = "cairn" /\ served[r].get
GuardFull(u) == slots[u] >= GuardPerUser \/ streaming >= GuardTotal

CairnAcquire(r) ==
    /\ step[r] = "guard"
    /\ LET u == served[r].user IN
       \/ ~served[r].get /\ ServeStep(r, "archive") /\ UNCHANGED <<served, slots, streaming>>
       \/ served[r].get /\ GuardFull(u) /\ Answered(r) /\ UNCHANGED <<slots, streaming>>
       \/ /\ served[r].get /\ ~GuardFull(u)
          /\ slots' = [slots EXCEPT ![u] = @ + 1]
          /\ streaming' = streaming + 1
          /\ ServeStep(r, "archive") /\ UNCHANGED served
    /\ UNCHANGED <<found, zips, warmVars, nodeVars>>

(* streamGuard.release: a slot that is not held is not given back.         *)
CairnRelease(u) ==
    IF slots[u] = 0 THEN UNCHANGED <<slots, streaming>>
    ELSE slots' = [slots EXCEPT ![u] = @ - 1] /\ streaming' = streaming - 1

\* Bug: a failure after the slot is taken does not give it back.
CairnOpenKeeps(r) ==
    /\ step[r] = "archive"
    /\ \/ Answered(r) /\ UNCHANGED <<slots, streaming>>
       \/ served[r].get /\ ServeStep(r, "body") /\ UNCHANGED <<served, slots, streaming>>
    /\ UNCHANGED <<found, zips, warmVars, nodeVars>>

(* Everything that can fail once the slot is held: the nzb, the file       *)
(* index, its name, the key, the first article; HEAD ends here too.        *)
CairnOpen(r) ==
    /\ step[r] = "archive"
    /\ \/ /\ Answered(r)
          /\ IF served[r].get THEN CairnRelease(served[r].user) ELSE UNCHANGED <<slots, streaming>>
       \/ served[r].get /\ ServeStep(r, "body") /\ UNCHANGED <<served, slots, streaming>>
    /\ UNCHANGED <<found, zips, warmVars, nodeVars>>

(***************************************************************************)
(* serveUsenetStream: any failure up to the range answers, HEAD too.       *)
(***************************************************************************)
UsenetOpen(r) ==
    /\ step[r] = "nzb"
    /\ \/ Answered(r)
       \/ served[r].get /\ ServeStep(r, "body") /\ UNCHANGED served
    /\ UNCHANGED <<found, guardVars, warmVars, nodeVars>>

(***************************************************************************)
(* Zips: serveZip and streamZip under the guard zipGuard.                  *)
(***************************************************************************)
ZipFree(u) == u = Anyone \/ ZipsPerUser <= 0
ZipFull(u) == ~ZipFree(u) /\ zips[u] >= ZipsPerUser

(* A seekable zip is guarded only when all of it is asked for.             *)
Guarded(q) == q.kind = "zipstream" \/ (q.kind = "zip" /\ ~q.ranged)

ServeZip(r) ==
    /\ step[r] = "object" /\ served[r].kind \in {"zip", "zipstream"}
    /\ \/ Answered(r)                                  \* no manifest, a bad range, HEAD
       \/ served[r].get /\ ~Guarded(served[r]) /\ ServeStep(r, "body") /\ UNCHANGED served
       \/ served[r].get /\ Guarded(served[r]) /\ ServeStep(r, "zipguard") /\ UNCHANGED served
    /\ found' = [found EXCEPT ![r] = Nowhere]
    /\ UNCHANGED <<guardVars, warmVars, nodeVars>>

ZipAcquire(r) ==
    /\ step[r] = "zipguard"
    /\ LET u == served[r].user IN
       IF ZipFull(u)
         THEN Answered(r) /\ UNCHANGED <<zips, warmVars>>
         ELSE /\ zips' = IF ZipFree(u) THEN zips ELSE [zips EXCEPT ![u] = @ + 1]
              /\ ServeStep(r, "body") /\ UNCHANGED served
              /\ IF served[r].kind = "zipstream"
                   THEN warm' = [warm EXCEPT ![r] = Warmers] /\ UNCHANGED index
                   ELSE UNCHANGED warmVars
    /\ UNCHANGED <<found, slots, streaming, nodeVars>>

ZipRelease(u) == IF ZipFree(u) THEN zips ELSE [zips EXCEPT ![u] = @ - 1]

\* Bug: a goroutine without a file left waits for another.
PrewarmWaits(r) ==
    /\ warm[r] > 0 /\ step[r] = "body" /\ index[r] < ZipFiles
    /\ index' = [index EXCEPT ![r] = @ + 1]
    /\ UNCHANGED <<warm, requestVars, guardVars, nodeVars>>

(* A prewarm goroutine takes the next file, or ends: no file is left, or   *)
(* the request is over, which cancels its context.                         *)
Prewarm(r) ==
    /\ warm[r] > 0
    /\ IF index[r] >= ZipFiles \/ step[r] # "body"
         THEN /\ warm' = [warm EXCEPT ![r] = @ - 1]
              /\ index' = [index EXCEPT ![r] = IF warm[r] = 1 THEN 0 ELSE @]
         ELSE index' = [index EXCEPT ![r] = @ + 1] /\ UNCHANGED warm
    /\ UNCHANGED <<requestVars, guardVars, nodeVars>>

(* The body is over: sent, cut short, or the client has gone.  There is no *)
(* write timeout, so a client that neither reads nor leaves keeps it.      *)
BodyOver(r) ==
    /\ step[r] = "body"
    /\ Answered(r)
    /\ LET q == served[r] IN
       /\ IF q.kind = "cairn" THEN CairnRelease(q.user) ELSE UNCHANGED <<slots, streaming>>
       /\ zips' = IF Guarded(q) THEN ZipRelease(q.user) ELSE zips
    /\ UNCHANGED <<found, warmVars, nodeVars>>

StreamStep(r) ==
    \/ NodeLookUp(r) \/ NodeRemember(r) \/ ServeFile(r) \/ ServeBYOS(r)
    \/ CairnAcquire(r) \/ CairnOpen(r) \/ UsenetOpen(r)
    \/ ServeZip(r) \/ ZipAcquire(r)

StreamNext ==
    \/ \E r \in Reading : \/ \E q \in StreamRequests : ServeRequest(r, q)
                          \/ StreamStep(r) \/ Prewarm(r) \/ BodyOver(r)
    \/ \E h \in Content : RowMoves(h)

(* Every goroutine runs; a client may stay for ever, so BodyOver need not. *)
StreamFairness == \A r \in Reading : WF_streamVars(StreamStep(r)) /\ WF_streamVars(Prewarm(r))

StreamSpec == StreamInit /\ [][StreamNext]_streamVars /\ StreamFairness

-----------------------------------------------------------------------------
(* The types of the variables; a slot is idle exactly without a request.   *)
StreamTypeOK ==
    /\ served \in [Reading -> StreamRequests \cup {NoRequest}]
    /\ step \in [Reading -> {"idle", "node", "remember", "object", "remote", "guard", "archive",
                             "nzb", "zipguard", "body"}]
    /\ found \in [Reading -> Place \cup {Nowhere}]
    /\ nodeSeen \in [Content -> Place \cup {Nowhere, Unseen}]
    /\ rowNode \in [Content -> Place \cup {Nowhere}]
    /\ slots \in [Viewer -> Nat] /\ streaming \in Nat
    /\ zips \in [Viewer -> Nat]
    /\ warm \in [Reading -> 0..Warmers] /\ index \in [Reading -> 0..ZipFiles]
    /\ \A r \in Reading : (step[r] = "idle") <=> (served[r] = NoRequest)

Archived(u) == {r \in Reading : Holding(r) /\ served[r].user = u}
Zipping(u)  == {r \in Reading : step[r] = "body" /\ Guarded(served[r]) /\ served[r].user = u}

(* The books of the two guards are the requests being served, whichever of *)
(* the many exits of serveCairn, serveZip and streamZip each one took: no  *)
(* slot is lost or given back twice, and nobody is over a limit.           *)
GuardsBalance ==
    /\ \A u \in Viewer : slots[u] = Cardinality(Archived(u)) /\ slots[u] <= GuardPerUser
    /\ streaming = Cardinality({r \in Reading : Holding(r)}) /\ streaming <= GuardTotal
    /\ \A u \in Viewer : ~ZipFree(u) =>
          zips[u] = Cardinality(Zipping(u)) /\ zips[u] <= ZipsPerUser

(* The goroutines prewarmZip starts read whole files and nothing waits for *)
(* them: they end all the same, with the files or with the request.        *)
PrewarmEnds == \A r \in Reading : warm[r] > 0 ~> warm[r] = 0

=============================================================================
