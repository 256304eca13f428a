--------------------------- MODULE IndexerSearch ---------------------------
(***************************************************************************)
(* A search over a user's Usenet indexers (shared/usenet/indexer): every   *)
(* source is asked in a goroutine of its own, SearchSlots at a time, each  *)
(* waited for so long and no longer, behind a cache of answers that all    *)
(* searches share; what came in time is merged, twins are folded and what  *)
(* is not the film asked for is left out.                                  *)
(*                                                                         *)
(* The cache hands out the slice itself: FanOut labels it with the id of   *)
(* its own source while another search may be labelling the same slice,    *)
(* and only the merge copies.                                              *)
(*                                                                         *)
(* Abstractions: one set of parameters, so that the cache is keyed by the  *)
(* indexer; what an indexer answers, its retries and the query by title    *)
(* behind the one by number, is a choice among lists; a fetch is named by  *)
(* who made it; what a goroutine does on its own takes no time.            *)
(***************************************************************************)
EXTENDS Integers, Sequences, FiniteSets

CONSTANTS
  Search,         \* searches
  Sources,        \* for each search its sources: a sequence of [id, base]
  Answers,        \* for each indexer the lists it may give: sequences of results
  SearchSlots,    \* sources waited for at once (4)
  CacheTTL,       \* how long an answer is used again
  PerSource       \* how long a source is waited for

ASSUME SearchAssumption ==
  /\ DOMAIN Sources = Search
  /\ \A q \in Search : \A i \in DOMAIN Sources[q] : Sources[q][i].base \in DOMAIN Answers
  /\ SearchSlots \in Nat \ {0} /\ CacheTTL \in Nat \ {0}
  /\ PerSource \in Nat \ {0}
  /\ \A b \in DOMAIN Answers : \A list \in Answers[b] :
       list \in Seq({list[k] : k \in DOMAIN list}) /\ \A k \in DOMAIN list : list[k].grabs \in Int

VARIABLES
  phase,      \* <<q, i>> -> "idle", "waiting", "got", "labelled", "merged", "dropped"
  inner,      \* <<q, i>> -> the call itself: "off", "out", "done"
  waited,     \* <<q, i>> -> how long it has had its slot
  slice,      \* <<q, i>> -> the fetch whose slice its call returned, or NoFetch
  fetched,    \* fetch -> [list, age, label]: the slices
  cached,     \* indexer -> the fetch kept for it, or NoFetch
  merged,     \* search -> the copies, [r, label, base, age]
  answers      \* search -> <<what it answers>>, or NoAnswer

searchVars == <<phase, inner, waited, slice, fetched, cached, merged, answers>>

Asking     == UNION {{<<q, i>> : i \in DOMAIN Sources[q]} : q \in Search}
NoFetch  == <<"no", 0>>
NoAnswer == <<>>
SourceAt(c) == Sources[c[1]][c[2]]
AskingFor(q) == {c \in Asking : c[1] = q}

SearchInit ==
  /\ fetched = <<>>
  /\ phase = [c \in Asking |-> "idle"] /\ inner = [c \in Asking |-> "off"]
  /\ waited = [c \in Asking |-> 0] /\ slice = [c \in Asking |-> NoFetch]
  /\ cached = [b \in DOMAIN Answers |-> NoFetch]
  /\ merged = [q \in Search |-> <<>>] /\ answers = [q \in Search |-> NoAnswer]

HoldsSlot(c) == phase[c] \in {"waiting", "got", "labelled"}
AddTo(f, k, v) == [x \in DOMAIN f \union {k} |-> IF x = k THEN v ELSE f[x]]

\* Bug: an entry is used whatever its age.
CacheGetStale(b) == IF cached[b] = NoFetch THEN NoFetch ELSE cached[b]
\* searchCacheGet: the kept slice itself, unless it has expired.
CacheGet(b) ==
  IF cached[b] # NoFetch /\ fetched[cached[b]].age <= CacheTTL THEN cached[b] ELSE NoFetch

\* A slot of the four, then the call begins in a goroutine of its own; what the cache has is
\* there at once.
Enter(c) ==
  /\ phase[c] = "idle" /\ Cardinality({d \in AskingFor(c[1]) : HoldsSlot(d)}) < SearchSlots
  /\ waited' = [waited EXCEPT ![c] = 0]
  /\ LET hit == CacheGet(SourceAt(c).base)
     IN IF hit # NoFetch
        THEN /\ phase' = [phase EXCEPT ![c] = "got"] /\ inner' = [inner EXCEPT ![c] = "done"]
             /\ slice' = [slice EXCEPT ![c] = hit] /\ UNCHANGED cached
        ELSE /\ phase' = [phase EXCEPT ![c] = "waiting"] /\ inner' = [inner EXCEPT ![c] = "out"]
             /\ cached' = [cached EXCEPT ![SourceAt(c).base] = NoFetch] /\ UNCHANGED slice
  /\ UNCHANGED <<fetched, merged, answers>>

\* searchOne: the list is kept for the others and returned, the same slice; a search that no
\* longer waits gets nothing, but the cache does.
Arrives(c) ==
  /\ inner[c] = "out" /\ inner' = [inner EXCEPT ![c] = "done"]
  /\ \E list \in Answers[SourceAt(c).base] :
       fetched' = AddTo(fetched, c, [list |-> list, age |-> 0, label |-> "none"])
  /\ cached' = [cached EXCEPT ![SourceAt(c).base] = c]
  /\ IF phase[c] = "waiting"
     THEN phase' = [phase EXCEPT ![c] = "got"] /\ slice' = [slice EXCEPT ![c] = c]
     ELSE UNCHANGED <<phase, slice>>
  /\ UNCHANGED <<waited, merged, answers>>

\* The indexer refuses, or get has tried three times: nothing is kept.
CallRefused(c) ==
  /\ inner[c] = "out" /\ inner' = [inner EXCEPT ![c] = "done"]
  /\ phase' = IF phase[c] = "waiting" THEN [phase EXCEPT ![c] = "dropped"] ELSE phase
  /\ UNCHANGED <<waited, slice, fetched, cached, merged, answers>>

\* Bug: a source is waited for as long as it takes.
TimesOutNever(c) == FALSE /\ UNCHANGED searchVars
\* The slot is given back while the call goes on.
TimesOut(c) ==
  /\ phase[c] = "waiting" /\ waited[c] >= PerSource
  /\ phase' = [phase EXCEPT ![c] = "dropped"]
  /\ UNCHANGED <<inner, waited, slice, fetched, cached, merged, answers>>

\* Bug: every goroutine labels with the last source of the loop.
LabelLast(c) ==
  /\ phase[c] = "got" /\ phase' = [phase EXCEPT ![c] = "labelled"]
  /\ fetched' = [fetched EXCEPT ![slice[c]].label = Sources[c[1]][Len(Sources[c[1]])].id]
  /\ UNCHANGED <<inner, waited, slice, cached, merged, answers>>
\* res[i].Source = src.ID, in the slice that was returned.
Label(c) ==
  /\ phase[c] = "got" /\ phase' = [phase EXCEPT ![c] = "labelled"]
  /\ fetched' = [fetched EXCEPT ![slice[c]].label = SourceAt(c).id]
  /\ UNCHANGED <<inner, waited, slice, cached, merged, answers>>

\* merged = append(merged, res...): copied under the lock.
MergeIn(c) ==
  /\ phase[c] = "labelled" /\ phase' = [phase EXCEPT ![c] = "merged"]
  /\ LET f == fetched[slice[c]]
         copied == [k \in DOMAIN f.list |->
           [r |-> f.list[k], label |-> f.label, base |-> SourceAt(c).base, age |-> f.age]]
     IN merged' = [merged EXCEPT ![c[1]] = @ \o copied]
  /\ UNCHANGED <<inner, waited, slice, fetched, cached, answers>>

\* normalizeTitle and the size; more grabs win.
Twins(a, b) == a.r.title = b.r.title /\ a.r.size = b.r.size
\* Bug: the first of the twins stays.
DedupFirst(s) ==
  LET keep == {k \in DOMAIN s : \A j \in DOMAIN s : Twins(s[k], s[j]) => k <= j}
  IN {s[k] : k \in keep}
Dedup(s) ==
  LET best(k) == \A j \in DOMAIN s : Twins(s[k], s[j]) =>
                   \/ s[k].r.grabs > s[j].r.grabs
                   \/ s[k].r.grabs = s[j].r.grabs /\ k <= j
  IN {s[k] : k \in {k \in DOMAIN s : best(k)}}
\* The number, when the indexer gives one, and the title and episode.
Verify(S) == {x \in S : x.r.fits}

SearchAnswered(q) ==
  /\ answers[q] = NoAnswer /\ \A c \in AskingFor(q) : phase[c] \in {"merged", "dropped"}
  /\ answers' = [answers EXCEPT ![q] = <<Verify(Dedup(merged[q]))>>]
  /\ UNCHANGED <<phase, inner, waited, slice, fetched, cached, merged>>

\* Time, counted as far as anything depends on it.
Later(n) == IF n > CacheTTL + PerSource THEN n ELSE n + 1
SearchTick ==
  /\ \A c \in Asking : phase[c] \notin {"got", "labelled"}
  /\ waited' = [c \in Asking |-> IF phase[c] = "waiting" THEN Later(waited[c]) ELSE 0]
  /\ fetched' = [c \in DOMAIN fetched |-> [fetched[c] EXCEPT !.age = Later(@)]]
  /\ UNCHANGED <<phase, inner, slice, cached, merged, answers>>

SearchStep(q) ==
  \/ SearchAnswered(q)
  \/ \E c \in AskingFor(q) : Enter(c) \/ TimesOut(c) \/ Label(c) \/ MergeIn(c)
SearchNext ==
  \/ SearchTick \/ \E q \in Search : SearchStep(q)
  \/ \E c \in Asking : Arrives(c) \/ CallRefused(c)
SearchSpec == SearchInit /\ [][SearchNext]_searchVars

\* The runtime runs the goroutines and the timer; no indexer has to answer.
SearchFairness == WF_searchVars(SearchTick) /\ \A q \in Search : WF_searchVars(SearchStep(q))
LiveSearchSpec == SearchSpec /\ SearchFairness

----------------------------------------------------------------------------
\* The variables have the types the code gives them.
SearchTypeOK ==
  /\ DOMAIN fetched \subseteq Asking
  /\ \A c \in Asking : slice[c] \in DOMAIN fetched \union {NoFetch}
  /\ \A b \in DOMAIN Answers : cached[b] \in DOMAIN fetched \union {NoFetch}
  /\ \A q \in Search : Cardinality({c \in AskingFor(q) : HoldsSlot(c)}) <= SearchSlots

\* What a search merges was listed by the indexer no longer ago than the cache keeps answers
\* and a source is waited for, also when a late call of another search has filled the cache.
AnswersAreFresh ==
  \A q \in Search : \A k \in DOMAIN merged[q] : merged[q][k].age <= CacheTTL + PerSource

\* A result's label names a source of the searching user's own, at the indexer that listed it,
\* so that a grab of it asks there; only an indexer that two users have entered under ids of
\* their own may carry the other's label (the slice of the cache is labelled in place).
LabelNamesIndexer ==
  \A q \in Search : \A k \in DOMAIN merged[q] :
    LET x == merged[q][k]
        sharing == {c \in Asking : SourceAt(c).base = x.base}
    IN \E c \in sharing :
         SourceAt(c).id = x.label /\ ((\A d \in sharing : d[1] = q) => c[1] = q)

\* An answer shows one of each release, the one with the most grabs of all sources that
\* answered in time.
BestOfTwins ==
  \A q \in Search : answers[q] # NoAnswer =>
    \A x, y \in answers[q][1] : Twins(x, y) =>
      x = y /\ \A k \in DOMAIN merged[q] : Twins(x, merged[q][k]) => merged[q][k].r.grabs <= x.r.grabs

\* A search answers, also when an indexer never does.
SearchAnswers ==
  \A q \in Search : (\E c \in AskingFor(q) : phase[c] # "idle") ~> answers[q] # NoAnswer
=============================================================================
