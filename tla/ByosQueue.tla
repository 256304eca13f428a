----------------------------- MODULE ByosQueue -----------------------------
(***************************************************************************)
(* Mirroring finished releases to the users' own storage: the byos worker  *)
(* (byos/cmd, byos/internal/mirror), its queue and its object marks        *)
(* (shared/jobs/byos.go), and the user's storage row (shared/auth/         *)
(* storage*.go) as far as the worker reads and writes it.                  *)
(*                                                                         *)
(* A round of runQueue lists the queue and submits every item to the       *)
(* dispatcher, which refuses it at once when the job is in flight, its     *)
(* user has PerUser transfers or all Parallel are taken; a refused item    *)
(* waits for the next round.                                               *)
(*                                                                         *)
(* Abstractions: one cache node, another one is "elsewhere"; the files of  *)
(* a release are one transfer, its outcome is chosen; a storage is none,   *)
(* off or on; dates and sizes are nobody's business but the eviction's,    *)
(* which may take any object; the six tries are MaxTry.                    *)
(***************************************************************************)
EXTENDS Integers, FiniteSets

CONSTANTS
  Item,        \* jobs of users, each with its release
  Customer,    \* their users
  OwnerOf,     \* Item -> Customer
  Go,          \* goroutines of the worker
  NoItem,
  Parallel,    \* BYOS_PARALLEL
  PerUser,     \* BYOS_PER_USER
  MaxTry,      \* the failures after which an item is dropped (6)
  MaxUpset     \* bound: changes from outside, restarts of the worker among them

ASSUME ByosAssumption ==
  /\ OwnerOf \in [Item -> Customer] /\ NoItem \notin Item
  /\ IsFiniteSet(Go)
  /\ Parallel \in Nat \ {0} /\ PerUser \in Nat \ {0}
  /\ MaxTry \in Nat \ {0} /\ MaxUpset \in Nat

VARIABLES
  place,       \* Item -> where the complete job is: "here", "elsewhere", "deleted"
  stocked,      \* items whose release is in the node's store
  storage,     \* Customer -> "none", "off", "on"
  queued,      \* Item -> attempts of its byos_queue row, -1 without a row
  marked,      \* byos_objects: items mirrored
  batch,      \* what runQueue has still to submit of its last listing
  carried,     \* Go -> the item it works on, or NoItem
  stage,       \* Go -> how far it is
  taken,       \* tokens in the dispatcher's semaphore
  ofUser,      \* groupN
  inFlight,    \* the dispatcher's set of job ids
  upset        \* bound on the environment

byosRows == <<place, stocked, storage, queued, marked>>
dispatcher == <<taken, ofUser, inFlight>>
byosVars == <<byosRows, batch, carried, stage, dispatcher, upset>>

ByosInit ==
  /\ place = [j \in Item |-> "here"] /\ stocked = Item
  /\ storage = [u \in Customer |-> "on"]
  /\ queued = [j \in Item |-> -1] /\ marked = {}
  /\ batch = {} /\ carried = [g \in Go |-> NoItem] /\ stage = [g \in Go |-> "idle"]
  /\ taken = 0 /\ ofUser = [u \in Customer |-> 0] /\ inFlight = {}
  /\ upset = 0

InQueue(j) == queued[j] >= 0

\* enqueueJob: on JobComplete, or from the reconciliation at the start of the worker.  A
\* failed look at the store counts as present.
EnqueueJob(j) ==
  /\ place[j] = "here" /\ j \notin marked /\ storage[OwnerOf[j]] = "on"
  /\ ~InQueue(j) /\ upset < MaxUpset
  /\ queued' = [queued EXCEPT ![j] = 0] /\ upset' = upset + 1
  /\ UNCHANGED <<place, stocked, storage, marked, batch, carried, stage, dispatcher>>

\* A tick of runQueue.  What it listed may have left the queue when it is submitted.
ListQueue ==
  /\ batch = {}
  /\ batch' = {j \in Item : InQueue(j) /\ place[j] = "here"} /\ batch' # {}
  /\ UNCHANGED <<byosRows, carried, stage, dispatcher, upset>>

\* Bug: nobody looks whether the job is in flight.
AdmittedTwice(j) == ofUser[OwnerOf[j]] < PerUser /\ taken < Parallel

\* dispatcher.submit: the reservations of a refused item are given back at once.
Admitted(j) == /\ j \notin inFlight
               /\ ofUser[OwnerOf[j]] < PerUser
               /\ taken < Parallel

SubmitItem(j, g) ==
  /\ j \in batch /\ Admitted(j) /\ stage[g] = "idle"
  /\ batch' = batch \ {j}
  /\ taken' = taken + 1 /\ inFlight' = inFlight \union {j}
  /\ ofUser' = [ofUser EXCEPT ![OwnerOf[j]] = @ + 1]
  /\ carried' = [carried EXCEPT ![g] = j] /\ stage' = [stage EXCEPT ![g] = "picked"]
  /\ UNCHANGED <<byosRows, upset>>

\* Bug: an item refused for want of a token leaves its mark and its reservation.
RefuseLeaks(j) ==
  /\ j \in batch /\ ~Admitted(j)
  /\ batch' = batch \ {j}
  /\ IF j \notin inFlight /\ ofUser[OwnerOf[j]] < PerUser
     THEN /\ inFlight' = inFlight \union {j} /\ ofUser' = [ofUser EXCEPT ![OwnerOf[j]] = @ + 1]
     ELSE UNCHANGED <<inFlight, ofUser>>
  /\ UNCHANGED <<byosRows, carried, stage, taken, upset>>

RefuseItem(j) ==
  /\ j \in batch /\ ~Admitted(j)
  /\ batch' = batch \ {j}
  /\ UNCHANGED <<byosRows, carried, stage, dispatcher, upset>>

Onto(g, s) == stage' = [stage EXCEPT ![g] = s]
DropItem(j) == queued' = [queued EXCEPT ![j] = -1]

\* processItem up to the transfer: queueActionFor on the job as it is now, then the storage.
PickItem(g) ==
  LET j == carried[g] IN
  /\ stage[g] = "picked"
  /\ \/ /\ place[j] = "deleted" \/ j \in marked
        /\ DropItem(j) /\ Onto(g, "over")
     \/ /\ place[j] = "elsewhere" /\ j \notin marked
        /\ Onto(g, "over") /\ UNCHANGED queued
     \/ /\ place[j] = "here" /\ j \notin marked /\ storage[OwnerOf[j]] # "on"
        /\ DropItem(j) /\ Onto(g, "over")
     \/ /\ place[j] = "here" /\ j \notin marked /\ storage[OwnerOf[j]] = "on"
        /\ Onto(g, "sending") /\ UNCHANGED queued
  /\ UNCHANGED <<place, stocked, storage, marked, batch, carried, dispatcher, upset>>

\* Mirror and MirrorRclone, and what processItem makes of their error.  The storage that is
\* disabled is the user's of now, not the one the transfer went to.
SendOk(g) ==
  /\ stage[g] = "sending" /\ carried[g] \in stocked
  /\ Onto(g, "sent")
  /\ UNCHANGED <<byosRows, batch, carried, dispatcher, upset>>

SendRefused(g) ==
  LET u == OwnerOf[carried[g]] IN
  /\ stage[g] = "sending"
  /\ storage' = [storage EXCEPT ![u] = IF @ = "on" THEN "off" ELSE @]
  /\ DropItem(carried[g]) /\ Onto(g, "over")
  /\ UNCHANGED <<place, stocked, marked, batch, carried, dispatcher, upset>>

\* The release has left the node's store, or a permanent failure.
SendHopeless(g) ==
  /\ stage[g] = "sending"
  /\ DropItem(carried[g]) /\ Onto(g, "over")
  /\ UNCHANGED <<place, stocked, storage, marked, batch, carried, dispatcher, upset>>

\* Bug: the failures are not counted.
SendUncounted(g) ==
  /\ stage[g] = "sending"
  /\ Onto(g, "over")
  /\ UNCHANGED <<byosRows, batch, carried, dispatcher, upset>>

\* A stall, the time limit, an error of the moment; IncrementBYOSAttempt of a row that is no
\* longer there returns 0.
SendFails(g) ==
  LET j == carried[g]
      n == IF InQueue(j) THEN queued[j] + 1 ELSE 0 IN
  /\ stage[g] = "sending"
  /\ queued' = [queued EXCEPT ![j] = IF InQueue(j) /\ n < MaxTry THEN n ELSE -1]
  /\ Onto(g, "over")
  /\ UNCHANGED <<place, stocked, storage, marked, batch, carried, dispatcher, upset>>

\* MarkBYOSObject, then DeleteBYOSQueue.
MarkObject(g) ==
  /\ stage[g] = "sent"
  /\ marked' = marked \union {carried[g]} /\ Onto(g, "marked")
  /\ UNCHANGED <<place, stocked, storage, queued, batch, carried, dispatcher, upset>>

DeleteItem(g) ==
  /\ stage[g] = "marked"
  /\ DropItem(carried[g]) /\ Onto(g, "over")
  /\ UNCHANGED <<place, stocked, storage, marked, batch, carried, dispatcher, upset>>

\* The deferred function of a submitted goroutine, one step after the other.
GiveToken(g) ==
  /\ stage[g] = "over"
  /\ taken' = taken - 1 /\ Onto(g, "no token")
  /\ UNCHANGED <<byosRows, batch, carried, ofUser, inFlight, upset>>

ReleaseGroup(g) ==
  /\ stage[g] = "no token"
  /\ ofUser' = [ofUser EXCEPT ![OwnerOf[carried[g]]] = @ - 1] /\ Onto(g, "no group")
  /\ UNCHANGED <<byosRows, batch, carried, taken, inFlight, upset>>

LeaveFlight(g) ==
  /\ stage[g] = "no group"
  /\ inFlight' = inFlight \ {carried[g]}
  /\ carried' = [carried EXCEPT ![g] = NoItem] /\ Onto(g, "idle")
  /\ UNCHANGED <<byosRows, batch, taken, ofUser, upset>>

GoStep(g) == \/ PickItem(g) \/ SendOk(g) \/ SendRefused(g) \/ SendHopeless(g) \/ SendFails(g)
             \/ MarkObject(g) \/ DeleteItem(g)
             \/ GiveToken(g) \/ ReleaseGroup(g) \/ LeaveFlight(g)

----------------------------------------------------------------------------
\* From outside: a job is deleted or taken to another node, a release evicted, a storage
\* connected, disabled or removed, an object evicted from it (evictUserStorage,
\* evictOwnStorage: purged, then unmarked), or brought back from it (rehydrate).
Upset(j) ==
  LET u == OwnerOf[j] IN
  /\ upset < MaxUpset /\ upset' = upset + 1
  /\ \/ \E p \in {"elsewhere", "deleted"} :
           /\ place[j] # "deleted" /\ place' = [place EXCEPT ![j] = p]
           /\ UNCHANGED <<stocked, storage, queued, marked>>
     \/ /\ stocked' = stocked \ {j}
        /\ UNCHANGED <<place, storage, queued, marked>>
     \/ \E s \in {"none", "on"} :
           /\ storage' = [storage EXCEPT ![u] = s]
           /\ UNCHANGED <<place, stocked, queued, marked>>
  /\ UNCHANGED <<batch, carried, stage, dispatcher>>

EvictObject(j) ==
  /\ j \in marked /\ storage[OwnerOf[j]] = "on" /\ place[j] # "deleted"
  /\ upset < MaxUpset /\ upset' = upset + 1
  /\ marked' = marked \ {j}
  /\ UNCHANGED <<place, stocked, storage, queued, batch, carried, stage, dispatcher>>

Rehydrate(j) ==
  /\ place[j] = "here" /\ j \in marked \ stocked /\ storage[OwnerOf[j]] = "on"
  /\ stocked' = stocked \union {j}
  /\ UNCHANGED <<place, storage, queued, marked, batch, carried, stage, dispatcher, upset>>

\* The worker is restarted: its goroutines and its dispatcher are gone.
ByosRestart ==
  /\ upset < MaxUpset /\ upset' = upset + 1
  /\ batch' = {} /\ carried' = [g \in Go |-> NoItem] /\ stage' = [g \in Go |-> "idle"]
  /\ taken' = 0 /\ ofUser' = [u \in Customer |-> 0] /\ inFlight' = {}
  /\ UNCHANGED byosRows

ByosNext ==
  \/ \E j \in Item : EnqueueJob(j) \/ Upset(j) \/ EvictObject(j) \/ Rehydrate(j)
  \/ ListQueue
  \/ \E j \in Item : RefuseItem(j) \/ \E g \in Go : SubmitItem(j, g)
  \/ \E g \in Go : GoStep(g)
  \/ ByosRestart

\* runQueue ticks for ever and a transfer ends: it has a time limit.  Strong fairness of a
\* submission: the queue is listed oldest first, so an item is not overtaken for ever.
ByosFairness ==
  /\ \A g \in Go : WF_byosVars(GoStep(g))
  /\ WF_byosVars(ListQueue) /\ \A j \in Item : WF_byosVars(RefuseItem(j))
  /\ \A j \in Item : SF_byosVars(\E g \in Go : SubmitItem(j, g))
ByosSpec == ByosInit /\ [][ByosNext]_byosVars /\ ByosFairness

----------------------------------------------------------------------------
Carriers == {g \in Go : carried[g] # NoItem}
CarryStages == {"idle", "picked", "sending", "sent", "marked", "over", "no token", "no group"}

\* The variables have the types the code gives them.
ByosTypeOK ==
  /\ place \in [Item -> {"here", "elsewhere", "deleted"}]
  /\ stocked \subseteq Item /\ marked \subseteq Item
  /\ storage \in [Customer -> {"none", "off", "on"}]
  /\ queued \in [Item -> -1 .. MaxTry - 1]
  /\ carried \in [Go -> Item \union {NoItem}] /\ stage \in [Go -> CarryStages]
  /\ taken \in 0 .. Parallel /\ ofUser \in [Customer -> 0 .. PerUser]
  /\ inFlight \subseteq Item /\ batch \subseteq Item /\ upset \in 0 .. MaxUpset

\* Two goroutines never carry the same job, whatever is queued again while one of them
\* works (dispatcher.inFlight: a second transfer would overwrite the first one's files).
OneTransfer == \A g, h \in Carriers : carried[g] = carried[h] => g = h

\* The dispatcher's three books agree with what is running: no token, reservation or mark
\* is left behind by a refused item or an ended goroutine, in whatever order the steps of
\* the deferred release meet a submission (pool.go).
BooksBalance ==
  /\ inFlight = {carried[g] : g \in Carriers}
  /\ taken = Cardinality({g \in Carriers : stage[g] \notin {"no token", "no group"}})
  /\ \A u \in Customer :
       ofUser[u] = Cardinality({g \in Carriers : OwnerOf[carried[g]] = u /\ stage[g] # "no group"})

\* A queued item of a job that stays on the node leaves the queue: mirrored, dropped, or given
\* up after its tries (processItem); it is not retried for ever and not starved.
ItemsEnd == \A j \in Item : InQueue(j) ~> ~InQueue(j) \/ place[j] # "here"
=============================================================================
