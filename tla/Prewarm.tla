------------------------------- MODULE Prewarm -------------------------------
(***************************************************************************)
(* Titles fetched before anybody asks for them (handlers/prewarm.go,       *)
(* prewarmRetry in api/cmd/workers.go). A request names releases of a      *)
(* title, best first; the first one nothing speaks against is downloaded   *)
(* and the others are kept as its fallback. Every API process goes         *)
(* through the fallbacks again and again: when the download has failed or  *)
(* was evicted the next release takes its place, in several statements     *)
(* with no transaction around them.                                        *)
(*                                                                         *)
(* Abstractions: a row is active from its creation to its end, and its     *)
(* end is one step (the runners are modelled elsewhere); releases are      *)
(* numbered by preference and belong to one title; the size cap on what is *)
(* cached is a request that is not made.                                   *)
(***************************************************************************)
EXTENDS Integers, Sequences, FiniteSets, FiniteSetsExt

CONSTANTS
  Title, Releases,   \* titles, and how many releases a request for each names
  Unwanted,          \* title -> the releases the content screen refuses
  Retrier, Caller,   \* API processes, and request handlers
  MaxActive,         \* prewarm downloads at once
  MaxAsked,          \* bound: rows there may be when a request is made
  MaxRows,           \* bound: rows ever made
  MaxMishap          \* bound: crashes and failed look-ups

ASSUME PrewarmAssumption ==
  /\ Releases \in [Title -> Nat \ {0}] /\ Unwanted \in [Title -> SUBSET Nat]
  /\ Retrier \intersect Caller = {}
  /\ {MaxActive, MaxAsked, MaxRows} \subseteq Nat \ {0} /\ MaxMishap \in Nat

VARIABLES
  warmRows,   \* the rows ever made: [title, nr, state, gone]
  fallback,   \* row -> the releases left for it, a partial function
  turn,       \* actor -> the candidate it goes on with, and the rows it makes and replaces
  agenda,     \* retrier -> the fallbacks as it listed them and has not looked at
  warmMishaps

prewarmVars == <<warmRows, fallback, turn, agenda, warmMishaps>>

Actor   == Retrier \union Caller
WarmIdle == [step |-> "idle", title |-> "none", left |-> <<>>, made |-> 0, from |-> 0]
State   == {"active", "failed", "complete", "evicted"}

PrewarmInit ==
  /\ warmRows = <<>> /\ fallback = [i \in {} |-> <<>>]
  /\ turn = [a \in Actor |-> WarmIdle] /\ agenda = [r \in Retrier |-> {}]
  /\ warmMishaps = 0

Present(i) == i \in DOMAIN warmRows /\ ~warmRows[i].gone
Busy       == Cardinality({i \in DOMAIN warmRows : Present(i) /\ warmRows[i].state = "active"}) >= MaxActive
From(t, n) == [k \in 1 .. Releases[t] - n + 1 |-> n + k - 1]

----------------------------------------------------------------------------
\* GetByInfoHash answers with the youngest row of a release.
StateOf(t, n) ==
  LET rows == {i \in DOMAIN warmRows : Present(i) /\ warmRows[i].title = t /\ warmRows[i].nr = n}
  IN IF rows = {} THEN "none" ELSE warmRows[Max(rows)].state

\* Refused and failed releases are passed over; one that is there, or on its way, ends the search.
Candidates(t) == {n \in 1 .. Releases[t] : n \notin Unwanted[t] /\ StateOf(t, n) # "failed"}

Chosen(t) ==
  IF Candidates(t) = {} \/ StateOf(t, Min(Candidates(t))) \in {"active", "complete"}
  THEN <<>> ELSE From(t, Min(Candidates(t)))

\* A request; what stays of its list is not screened.
AskPrewarm(q, t) ==
  /\ turn[q].step = "idle" /\ ~Busy /\ Chosen(t) # <<>> /\ Len(warmRows) < MaxAsked
  /\ turn' = [turn EXCEPT ![q] = [WarmIdle EXCEPT !.step = "chosen", !.title = t, !.left = Chosen(t)]]
  /\ UNCHANGED <<warmRows, fallback, agenda, warmMishaps>>

CreateWarm(a) ==
  /\ turn[a].step = "chosen" /\ Len(warmRows) < MaxRows
  /\ warmRows' = Append(warmRows, [title |-> turn[a].title, nr |-> Head(turn[a].left),
                           state |-> "active", gone |-> FALSE])
  /\ turn' = [turn EXCEPT ![a].step = "created", ![a].made = Len(warmRows'), ![a].left = Tail(@)]
  /\ UNCHANGED <<fallback, agenda, warmMishaps>>

\* Bug: the list stays under the id of the row that is replaced.
StoredUnderOld(a) ==
  LET i == IF turn[a].from = 0 THEN turn[a].made ELSE turn[a].from
  IN IF turn[a].left = <<>> THEN fallback
     ELSE [j \in DOMAIN fallback \union {i} |-> IF j = i THEN turn[a].left ELSE fallback[j]]

\* An empty list is not stored.
StoredFallback(a) ==
  LET i == turn[a].made
  IN IF turn[a].left = <<>> THEN fallback
     ELSE [j \in DOMAIN fallback \union {i} |-> IF j = i THEN turn[a].left ELSE fallback[j]]

StorePrewarmFallback(a) ==
  /\ turn[a].step = "created"
  /\ fallback' = StoredFallback(a)
  /\ turn' = IF turn[a].from = 0 THEN [turn EXCEPT ![a] = WarmIdle] ELSE [turn EXCEPT ![a].step = "stored"]
  /\ UNCHANGED <<warmRows, agenda, warmMishaps>>

----------------------------------------------------------------------------
\* prewarmRetry: every process, every two minutes.
ListPrewarmFallbacks(r) ==
  /\ turn[r].step = "idle" /\ agenda[r] = {} /\ DOMAIN fallback # {}
  /\ agenda' = [agenda EXCEPT ![r] = {[row |-> i, left |-> fallback[i]] : i \in DOMAIN fallback}]
  /\ UNCHANGED <<warmRows, fallback, turn, warmMishaps>>

Drop(i) == [j \in DOMAIN fallback \ {i} |-> fallback[j]]

\* Bug: what is left is taken from the second release on.
AdvancedByTwo(r, f) ==
  [WarmIdle EXCEPT !.step = "chosen", !.title = warmRows[f.row].title, !.from = f.row,
                  !.left = IF Len(f.left) > 1 THEN Tail(f.left) ELSE f.left]

\* Bug: a row that failed is left alone.
NotAdvanced(r, f) == WarmIdle

Advanced(r, f) ==
  [WarmIdle EXCEPT !.step = "chosen", !.title = warmRows[f.row].title, !.from = f.row, !.left = f.left]

\* A row that is gone, or that could not be read (lost), counts as one that failed.
LookAt(r, f, lost) ==
  /\ turn[r].step = "idle" /\ f \in agenda[r]
  /\ lost => warmMishaps < MaxMishap
  /\ warmMishaps' = IF lost THEN warmMishaps + 1 ELSE warmMishaps
  /\ agenda' = [agenda EXCEPT ![r] = @ \ {f}]
  /\ LET state == IF lost \/ ~Present(f.row) THEN "none" ELSE warmRows[f.row].state
     IN /\ fallback' = IF state = "complete" THEN Drop(f.row) ELSE fallback
        /\ turn' = IF state \in {"active", "complete"} \/ Busy THEN turn
                   ELSE [turn EXCEPT ![r] = Advanced(r, f)]
  /\ UNCHANGED warmRows

Replaced(r) == turn[r].from

DeletePrewarmFallback(r) ==
  /\ turn[r].step = "stored"
  /\ fallback' = Drop(Replaced(r))
  /\ turn' = [turn EXCEPT ![r].step = "dropped"]
  /\ UNCHANGED <<warmRows, agenda, warmMishaps>>

DeleteReplaced(r) ==
  /\ turn[r].step = "dropped"
  /\ warmRows' = [warmRows EXCEPT ![turn[r].from].gone = TRUE]
  /\ turn' = [turn EXCEPT ![r] = WarmIdle]
  /\ UNCHANGED <<fallback, agenda, warmMishaps>>

----------------------------------------------------------------------------
\* The download ends; complete content may be evicted.
WarmEnds(i, state) ==
  /\ Present(i)
  /\ \/ warmRows[i].state = "active" /\ state \in {"failed", "complete"}
     \/ warmRows[i].state = "complete" /\ state = "evicted"
  /\ warmRows' = [warmRows EXCEPT ![i].state = state]
  /\ UNCHANGED <<fallback, turn, agenda, warmMishaps>>

\* The process of the actor ends between two statements; a restarted retrier begins anew.
PrewarmCrash(a) ==
  /\ warmMishaps < MaxMishap /\ turn[a].step # "idle"
  /\ warmMishaps' = warmMishaps + 1
  /\ turn' = [turn EXCEPT ![a] = WarmIdle]
  /\ agenda' = IF a \in Retrier THEN [agenda EXCEPT ![a] = {}] ELSE agenda
  /\ UNCHANGED <<warmRows, fallback>>

ActorStep(a)   == CreateWarm(a) \/ StorePrewarmFallback(a)
RetrierStep(r) == \/ ActorStep(r) \/ ListPrewarmFallbacks(r) \/ DeletePrewarmFallback(r) \/ DeleteReplaced(r)
                  \/ \E f \in agenda[r] : LookAt(r, f, FALSE)

PrewarmNext ==
  \/ \E q \in Caller : (\E t \in Title : AskPrewarm(q, t)) \/ ActorStep(q)
  \/ \E r \in Retrier : RetrierStep(r) \/ \E f \in agenda[r] : LookAt(r, f, TRUE)
  \/ \E i \in DOMAIN warmRows, s \in {"failed", "complete", "evicted"} : WarmEnds(i, s)
  \/ \E a \in Actor : PrewarmCrash(a)

----------------------------------------------------------------------------
\* The rows, the lists and the turns have the types of the tables and of the code's variables.
PrewarmTypeOK ==
  /\ \A i \in DOMAIN warmRows : /\ warmRows[i].title \in Title /\ warmRows[i].nr \in 1 .. Releases[warmRows[i].title]
                            /\ warmRows[i].state \in State /\ warmRows[i].gone \in BOOLEAN
  /\ DOMAIN fallback \subseteq DOMAIN warmRows /\ \A i \in DOMAIN fallback : fallback[i] # <<>>
  /\ \A a \in Actor : turn[a].step \in {"idle", "chosen", "created", "stored", "dropped"}
  /\ warmMishaps \in 0 .. MaxMishap

\* A release is fetched only after every better one the screen lets pass was
\* fetched and, as long as every look-up is answered and no process ends in
\* between, ended without being kept: however many processes go through the
\* fallbacks, none is passed over.
BetterWereTried ==
  \A i \in DOMAIN warmRows : \A n \in (1 .. warmRows[i].nr - 1) \ Unwanted[warmRows[i].title] :
    \E j \in 1 .. i - 1 : /\ warmRows[j].title = warmRows[i].title /\ warmRows[j].nr = n
                          /\ warmMishaps = 0 => warmRows[j].state \in {"failed", "evicted"}

\* A release that failed leaves its title with somebody who goes on: its list,
\* or the process that is storing it or putting the next release in its place.
\* (A crash between the statements loses the list: prewarm.go:107, workers.go:236.)
NothingForgotten ==
  warmMishaps = 0 =>
    \A i \in DOMAIN warmRows :
      Present(i) /\ warmRows[i].state = "failed" /\ warmRows[i].nr < Releases[warmRows[i].title] =>
        i \in DOMAIN fallback \/ \E a \in Actor : i \in {turn[a].made, turn[a].from}

\* A list is not kept for ever: its row completes, or the next release replaces it.
TitleEnds == \A i \in 1 .. MaxRows : i \in DOMAIN fallback ~> i \notin DOMAIN fallback
=============================================================================
