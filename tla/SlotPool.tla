------------------------------ MODULE SlotPool ------------------------------
(***************************************************************************)
(* What the download queue promises, with no locks, rows or sessions: a    *)
(* job runs only in a free slot of its account and only if nobody runs the *)
(* same content, it starts without queueing only if its account has        *)
(* nothing queued, and an account's queue is bounded.  JobQueue implements *)
(* this specification.                                                     *)
(***************************************************************************)
EXTENDS Integers, FiniteSets

CONSTANTS JobId, User, Hash, Owner, HashOf, MaxConcurrent, MaxQueued

VARIABLES running, waiting

Of(S, u) == {j \in S : Owner[j] = u}
Slots(u) == IF MaxConcurrent[u] < 1 THEN 1 ELSE MaxConcurrent[u]

Init == running = {} /\ waiting = {}

Start(j) ==
  /\ j \notin running
  /\ Cardinality(Of(running, Owner[j])) < Slots(Owner[j])
  /\ \A k \in running : HashOf[k] # HashOf[j]
  /\ j \in waiting \/ Of(waiting, Owner[j]) = {}
  /\ running' = running \cup {j}
  /\ waiting' = waiting \ {j}

Enqueue(j) ==
  /\ j \notin running \cup waiting
  /\ MaxQueued > 0 => Cardinality(Of(waiting, Owner[j])) < MaxQueued
  /\ waiting' = waiting \cup {j}
  /\ UNCHANGED running

Leave(j) ==
  /\ running' = running \ {j}
  /\ waiting' = waiting \ {j}

Next == \E j \in JobId : Start(j) \/ Enqueue(j) \/ Leave(j)

Spec == Init /\ [][Next]_<<running, waiting>>
=============================================================================
