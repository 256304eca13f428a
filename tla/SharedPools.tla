---------------------------- MODULE SharedPools ----------------------------
(***************************************************************************)
(* The NNTP pools that usenet jobs and streams share                       *)
(* (shared/usenet/download/pool.go), and how a reader waits for one of     *)
(* their connections (getPoolConn in download.go).                         *)
(*                                                                         *)
(* The entry of an account's pool counts its users; the last release       *)
(* starts a timer that closes the pool after poolLinger unless it has been *)
(* acquired again.  Stopping a timer does not stop its function once it    *)
(* has fired and waits for the mutex.                                      *)
(*                                                                         *)
(* nntpPool closes a pool whose Get is cancelled, so getPoolConn leaves    *)
(* Get to a goroutine of its own, which gives the connection back when     *)
(* nobody waits for it any more.                                           *)
(*                                                                         *)
(* Abstractions: one account; entries and timers are taken from finite     *)
(* sets; a user has one request at a time, but leaves any number behind    *)
(* that the pool's MaxConns allows.                                        *)
(***************************************************************************)
EXTENDS Integers, FiniteSets

CONSTANTS
  Reader,      \* jobs and streams
  PoolEntry,       \* sharedEntry values
  NoEntry,
  Timer,       \* AfterFunc timers
  NoTimer,
  MaxConns

ASSUME PoolAssumption ==
  /\ NoEntry \notin PoolEntry /\ NoTimer \notin Timer
  /\ IsFiniteSet(Reader) /\ MaxConns \in Nat \ {0}

VARIABLES
  pools,       \* Entry -> "new", "open", "closed"
  shared,      \* the entry in sharedPools, or NoEntry
  refs,        \* Entry -> e.refs
  using,       \* Reader -> entry it has acquired and not released
  linger,      \* Entry -> e.timer
  clock,       \* Timer -> "new", "set", "stopped", "fired", "over"
  closes,      \* Timer -> the entry its function closes
  request,     \* Reader -> its getPoolConn: "none", "asked", "offered", "held"
  leftBehind,     \* Entry -> abandoned requests, [asked, offered]
  lent         \* Entry -> connections the pool has given out

sharing == <<pools, shared, refs, using, linger, clock, closes>>
lending == <<request, leftBehind, lent>>
poolVars == <<sharing, lending>>

PoolInit ==
  /\ pools = [e \in PoolEntry |-> "new"] /\ shared = NoEntry
  /\ refs = [e \in PoolEntry |-> 0] /\ using = [r \in Reader |-> NoEntry]
  /\ linger = [e \in PoolEntry |-> NoTimer]
  /\ clock = [t \in Timer |-> "new"] /\ closes = [t \in Timer |-> NoEntry]
  /\ request = [r \in Reader |-> "none"]
  /\ leftBehind = [e \in PoolEntry |-> [asked |-> 0, offered |-> 0]]
  /\ lent = [e \in PoolEntry |-> 0]

\* AcquireShared: the registered pool, or a new one.
Acquire(r, e) ==
  /\ using[r] = NoEntry
  /\ \/ shared = e /\ UNCHANGED <<pools, shared>>
     \/ /\ shared = NoEntry /\ pools[e] = "new"
        /\ pools' = [pools EXCEPT ![e] = "open"] /\ shared' = e
  /\ clock' = IF linger[e] # NoTimer /\ clock[linger[e]] = "set"
              THEN [clock EXCEPT ![linger[e]] = "stopped"] ELSE clock
  /\ linger' = [linger EXCEPT ![e] = NoTimer]
  /\ refs' = [refs EXCEPT ![e] = @ + 1] /\ using' = [using EXCEPT ![r] = e]
  /\ UNCHANGED <<closes, lending>>

\* Bug: an entry that has had a timer is not given another one.
ReleaseOnceTimed(r, t) ==
  LET e == using[r] IN
  /\ e # NoEntry /\ request[r] \in {"none"} /\ clock[t] = "new"
  /\ using' = [using EXCEPT ![r] = NoEntry]
  /\ refs' = [refs EXCEPT ![e] = @ - 1]
  /\ IF refs[e] = 1 /\ e \notin {closes[x] : x \in Timer}
     THEN /\ clock' = [clock EXCEPT ![t] = "set"] /\ closes' = [closes EXCEPT ![t] = e]
          /\ linger' = [linger EXCEPT ![e] = t]
     ELSE UNCHANGED <<clock, closes, linger>>
  /\ UNCHANGED <<pools, shared, lending>>

\* release, which a sync.Once calls once.
Release(r, t) ==
  LET e == using[r] IN
  /\ e # NoEntry /\ request[r] = "none" /\ clock[t] = "new"
  /\ using' = [using EXCEPT ![r] = NoEntry]
  /\ refs' = [refs EXCEPT ![e] = @ - 1]
  /\ IF refs[e] = 1
     THEN /\ clock' = [clock EXCEPT ![t] = "set"] /\ closes' = [closes EXCEPT ![t] = e]
          /\ linger' = [linger EXCEPT ![e] = t]
     ELSE UNCHANGED <<clock, closes, linger>>
  /\ UNCHANGED <<pools, shared, lending>>

TimerFires(t) ==
  /\ clock[t] = "set" /\ clock' = [clock EXCEPT ![t] = "fired"]
  /\ UNCHANGED <<pools, shared, refs, using, linger, closes, lending>>

\* Bug: the function trusts its timer to have been stopped in time.
LingerOverBlind(t) ==
  /\ clock[t] = "fired" /\ clock' = [clock EXCEPT ![t] = "over"]
  /\ pools' = [pools EXCEPT ![closes[t]] = "closed"] /\ shared' = NoEntry
  /\ UNCHANGED <<refs, using, linger, closes, lending>>

\* Bug: the closed pool stays registered.
LingerOverKept(t) ==
  /\ clock[t] = "fired" /\ clock' = [clock EXCEPT ![t] = "over"]
  /\ pools' = IF refs[closes[t]] = 0 THEN [pools EXCEPT ![closes[t]] = "closed"] ELSE pools
  /\ UNCHANGED <<shared, refs, using, linger, closes, lending>>

\* The function of a fired timer.  A second timer of the same entry finds it closed, and
\* unregisters whatever entry has its key by then.
LingerOver(t) ==
  /\ clock[t] = "fired" /\ clock' = [clock EXCEPT ![t] = "over"]
  /\ IF refs[closes[t]] = 0
     THEN pools' = [pools EXCEPT ![closes[t]] = "closed"] /\ shared' = NoEntry
     ELSE UNCHANGED <<pools, shared>>
  /\ UNCHANGED <<refs, using, linger, closes, lending>>

----------------------------------------------------------------------------
Ask(r, to) == request' = [request EXCEPT ![r] = to]
Orphan(e, what, n) == leftBehind' = [leftBehind EXCEPT ![e][what] = @ + n]

ConnAsked(r) ==
  /\ using[r] # NoEntry /\ request[r] = "none" /\ Ask(r, "asked")
  /\ UNCHANGED <<sharing, leftBehind, lent>>

\* pool.Get returns a connection to the goroutine.
ConnOffered(r) ==
  LET e == using[r] IN
  /\ request[r] = "asked" /\ lent[e] < MaxConns
  /\ Ask(r, "offered") /\ lent' = [lent EXCEPT ![e] = @ + 1]
  /\ UNCHANGED <<sharing, leftBehind>>

ConnTaken(r) ==
  /\ request[r] = "offered" /\ Ask(r, "held")
  /\ UNCHANGED <<sharing, leftBehind, lent>>

\* The context of the reader ends while it waits, offered or not.
ConnAbandoned(r) ==
  LET e == using[r] IN
  /\ request[r] \in {"asked", "offered"} /\ Ask(r, "none")
  /\ leftBehind[e].asked + leftBehind[e].offered < MaxConns
  /\ Orphan(e, request[r], 1)
  /\ UNCHANGED <<sharing, lent>>

\* The segment is read or has failed (fetchFromPool, statFromPool).
ConnPut(r) ==
  /\ request[r] = "held" /\ Ask(r, "none")
  /\ lent' = [lent EXCEPT ![using[r]] = @ - 1]
  /\ UNCHANGED <<sharing, leftBehind>>

OrphanOffered(e) ==
  /\ leftBehind[e].asked > 0 /\ lent[e] < MaxConns
  /\ leftBehind' = [leftBehind EXCEPT ![e] = [asked |-> @.asked - 1, offered |-> @.offered + 1]]
  /\ lent' = [lent EXCEPT ![e] = @ + 1]
  /\ UNCHANGED <<sharing, request>>

\* Bug: the goroutine nobody waits for ends with its connection.
OrphanPutNever(e) ==
  /\ leftBehind[e].offered > 0 /\ Orphan(e, "offered", -1)
  /\ UNCHANGED <<sharing, request, lent>>

OrphanPut(e) ==
  /\ leftBehind[e].offered > 0 /\ Orphan(e, "offered", -1)
  /\ lent' = [lent EXCEPT ![e] = @ - 1]
  /\ UNCHANGED <<sharing, request>>

\* A closed pool answers Get with an error.
OrphanRefused(e) ==
  /\ leftBehind[e].asked > 0 /\ pools[e] = "closed" /\ Orphan(e, "asked", -1)
  /\ UNCHANGED <<sharing, request, lent>>

PoolNext ==
  \/ \E r \in Reader :
       \/ \E e \in PoolEntry : Acquire(r, e)
       \/ \E t \in Timer : Release(r, t)
       \/ ConnAsked(r) \/ ConnOffered(r) \/ ConnTaken(r) \/ ConnAbandoned(r) \/ ConnPut(r)
  \/ \E t \in Timer : TimerFires(t) \/ LingerOver(t)
  \/ \E e \in PoolEntry : OrphanOffered(e) \/ OrphanPut(e) \/ OrphanRefused(e)

\* Timers fire and their functions get the mutex; goroutines run.
PoolFairness ==
  /\ \A t \in Timer : WF_poolVars(TimerFires(t)) /\ WF_poolVars(LingerOver(t))
  /\ \A e \in PoolEntry : WF_poolVars(OrphanOffered(e)) /\ WF_poolVars(OrphanPut(e))
PoolSpec == PoolInit /\ [][PoolNext]_poolVars /\ PoolFairness

----------------------------------------------------------------------------
HasUsers(e) == \E r \in Reader : using[r] = e

\* The variables have the types the code gives them.
PoolTypeOK ==
  /\ pools \in [PoolEntry -> {"new", "open", "closed"}] /\ shared \in PoolEntry \union {NoEntry}
  /\ refs \in [PoolEntry -> Nat] /\ using \in [Reader -> PoolEntry \union {NoEntry}]
  /\ linger \in [PoolEntry -> Timer \union {NoTimer}]
  /\ clock \in [Timer -> {"new", "set", "stopped", "fired", "over"}]
  /\ closes \in [Timer -> PoolEntry \union {NoEntry}]
  /\ request \in [Reader -> {"none", "asked", "offered", "held"}]
  /\ leftBehind \in [PoolEntry -> [asked : Nat, offered : Nat]] /\ lent \in [PoolEntry -> Nat]

\* No pool is closed under a reader, whatever timers fired before it was acquired again
\* (a stream that is cut, or a usenet job that fails, for a timer's sake).
OpenWhileUsed == \A e \in PoolEntry : HasUsers(e) => pools[e] = "open"

\* A closed pool is not handed out: every Get of it fails until a restart.
SharedIsOpen == shared # NoEntry => pools[shared] = "open"

\* Every connection a pool has given out is in somebody's hands, an abandoned request's
\* included: with MaxConns of them lost the pool would wait for ever (getPoolConn).
LentAccounted ==
  \A e \in PoolEntry :
    lent[e] = leftBehind[e].offered
              + Cardinality({r \in Reader : using[r] = e /\ request[r] \in {"offered", "held"}})

\* A pool nobody uses is closed in the end, if it is not acquired again.
IdleCloses == \A e \in PoolEntry : pools[e] = "open" ~> pools[e] = "closed" \/ HasUsers(e)
=============================================================================
