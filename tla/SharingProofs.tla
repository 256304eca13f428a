--------------------------- MODULE SharingProofs ---------------------------
(***************************************************************************)
(* The services, for any number of who uses them.  What is shared is       *)
(* counted: the dispatcher of the mirror queue, the NNTP pools, the guards *)
(* of the stream server, the budget of its speed test.  What a row says is *)
(* stored can be reached: the archive of a release, a user's remotes.      *)
(* What is added, answered or fetched ahead is what the rules choose: a    *)
(* feed's items, a search's answer, a title's releases.  Money is counted  *)
(* once.  Each component has an inductive invariant of its own.            *)
(***************************************************************************)
EXTENDS MCServices, FiniteSetTheorems, SequenceTheorems, WellFoundedInduction, TLAPS

-----------------------------------------------------------------------------
(* Counting: a set that gains or loses one element.                        *)

LEMMA CountUp ==
  ASSUME NEW S, NEW x, IsFiniteSet(S), x \notin S
  PROVE  Cardinality(S \cup {x}) = Cardinality(S) + 1 /\ Cardinality(S) \in Nat
  BY FS_AddElement, FS_CardinalityType

LEMMA CountDown ==
  ASSUME NEW S, NEW x, IsFiniteSet(S), x \in S
  PROVE  /\ Cardinality(S \ {x}) = Cardinality(S) - 1
         /\ Cardinality(S) \in Nat \ {0} /\ Cardinality(S) - 1 \in Nat
  <1>1. Cardinality(S \ {x}) = Cardinality(S) - 1 /\ Cardinality(S) \in Nat
    BY FS_RemoveElement, FS_CardinalityType
  <1>2. Cardinality(S) # 0
    BY FS_EmptySet
  <1> QED
    BY <1>1, <1>2

LEMMA CountType ==
  ASSUME NEW S, NEW T, IsFiniteSet(S), T \subseteq S
  PROVE  IsFiniteSet(T) /\ Cardinality(T) \in Nat
  BY FS_Subset, FS_CardinalityType

-----------------------------------------------------------------------------
(* The pools.                                                              *)

UsersOf(e)   == {r \in Reader : using[r] = e}
HoldersOf(e) == {r \in Reader : using[r] = e /\ request[r] \in {"offered", "held"}}

\* The count of an entry is its users, a timer that has been set closes an entry, and who
\* uses none has asked it for nothing.
SharingInv ==
  /\ \A e \in PoolEntry : refs[e] = Cardinality(UsersOf(e))
  /\ \A t \in Timer : clock[t] # "new" => closes[t] \in PoolEntry
  /\ \A r \in Reader : using[r] = NoEntry => request[r] = "none"

PoolIInv == PoolTypeOK /\ SharingInv /\ OpenWhileUsed /\ SharedIsOpen /\ LentAccounted

LentByHolders ==
  LentAccounted <=> \A e \in PoolEntry : lent[e] = leftBehind[e].offered + Cardinality(HoldersOf(e))

LEMMA LentCounts == LentByHolders /\ LentByHolders'
  BY DEF LentByHolders, LentAccounted, HoldersOf

LEMMA PoolSetsFinite ==
  ASSUME NEW e
  PROVE  /\ IsFiniteSet(UsersOf(e)) /\ Cardinality(UsersOf(e)) \in Nat
         /\ IsFiniteSet(HoldersOf(e)) /\ Cardinality(HoldersOf(e)) \in Nat
  BY CountType, PoolAssumption DEF UsersOf, HoldersOf

LEMMA PoolInitially == PoolInit => PoolIInv
  <1> SUFFICES ASSUME PoolInit PROVE PoolIInv
    OBVIOUS
  <1>1. \A e \in PoolEntry : UsersOf(e) = {} /\ HoldersOf(e) = {}
    BY PoolAssumption DEF PoolInit, UsersOf, HoldersOf
  <1>2. \A e \in PoolEntry : Cardinality(UsersOf(e)) = 0 /\ Cardinality(HoldersOf(e)) = 0
    BY <1>1, FS_EmptySet
  <1>3. PoolTypeOK
    BY DEF PoolInit, PoolTypeOK
  <1>4. LentAccounted
    BY <1>2, LentCounts DEF PoolInit, LentByHolders
  <1> QED
    BY <1>2, <1>3, <1>4, PoolAssumption
    DEF PoolIInv, SharingInv, OpenWhileUsed, HasUsers, SharedIsOpen, PoolInit

\* A user more: the entry is open, registered, and no timer's to close while it is counted.
LEMMA AcquireKeeps ==
  ASSUME PoolIInv, NEW r \in Reader, NEW e \in PoolEntry, Acquire(r, e)
  PROVE  PoolIInv'
  <1> USE DEF PoolIInv
  <1>1. r \notin UsersOf(e) /\ r \notin HoldersOf(e)
    BY PoolAssumption DEF Acquire, UsersOf, HoldersOf
  <1>2. UsersOf(e)' = UsersOf(e) \cup {r} /\ \A d \in PoolEntry \ {e} : UsersOf(d)' = UsersOf(d)
    BY PoolAssumption DEF Acquire, UsersOf, PoolTypeOK
  <1>3. \A d \in PoolEntry : HoldersOf(d)' = HoldersOf(d)
    BY PoolAssumption DEF Acquire, HoldersOf, PoolTypeOK, SharingInv, lending
  <1>4. refs'[e] = Cardinality(UsersOf(e)') /\ refs'[e] \in Nat
    BY <1>1, <1>2, PoolSetsFinite, CountUp DEF Acquire, SharingInv, PoolTypeOK
  <1>5. PoolTypeOK'
    BY <1>4 DEF Acquire, PoolTypeOK, lending
  <1>6. SharingInv'
    <2>1. \A d \in PoolEntry : refs'[d] = Cardinality(UsersOf(d)')
      BY <1>2, <1>4 DEF Acquire, SharingInv, PoolTypeOK
    <2>2. \A t \in Timer : clock'[t] # "new" => closes'[t] \in PoolEntry
      BY DEF Acquire, SharingInv, PoolTypeOK
    <2>3. \A q \in Reader : using'[q] = NoEntry => request'[q] = "none"
      BY PoolAssumption DEF Acquire, SharingInv, PoolTypeOK, lending
    <2> QED
      BY <2>1, <2>2, <2>3 DEF SharingInv, UsersOf
  <1>7. OpenWhileUsed' /\ SharedIsOpen'
    BY DEF Acquire, OpenWhileUsed, SharedIsOpen, HasUsers, PoolTypeOK
  <1>8. LentAccounted'
    BY <1>3, LentCounts DEF Acquire, lending, LentByHolders
  <1> QED
    BY <1>5, <1>6, <1>7, <1>8
\* A user less: it had asked for nothing, and the timer it may set closes its entry.
LEMMA ReleaseKeeps ==
  ASSUME PoolIInv, NEW r \in Reader, NEW t \in Timer, Release(r, t)
  PROVE  PoolIInv'
  <1> USE DEF PoolIInv
  <1>0. PICK e \in PoolEntry : e = using[r] /\ r \in UsersOf(e)
    BY DEF Release, PoolTypeOK, UsersOf
  <1>1. UsersOf(e)' = UsersOf(e) \ {r} /\ \A d \in PoolEntry \ {e} : UsersOf(d)' = UsersOf(d)
    BY <1>0, PoolAssumption DEF Release, UsersOf, PoolTypeOK
  <1>2. \A d \in PoolEntry : HoldersOf(d)' = HoldersOf(d)
    BY PoolAssumption DEF Release, HoldersOf, PoolTypeOK, lending
  <1>3. refs'[e] = Cardinality(UsersOf(e)') /\ refs'[e] \in Nat
    <2>1. refs'[e] = refs[e] - 1 /\ refs[e] = Cardinality(UsersOf(e))
      BY <1>0 DEF Release, SharingInv, PoolTypeOK
    <2>2. Cardinality(UsersOf(e) \ {r}) = Cardinality(UsersOf(e)) - 1
          /\ Cardinality(UsersOf(e)) - 1 \in Nat
      BY <1>0, PoolSetsFinite, CountDown
    <2> QED
      BY <2>1, <2>2, <1>1
  <1>4. PoolTypeOK'
    BY <1>0, <1>3 DEF Release, PoolTypeOK, lending
  <1>5. SharingInv'
    <2>1. \A d \in PoolEntry : refs'[d] = Cardinality(UsersOf(d)')
      BY <1>0, <1>1, <1>3 DEF Release, SharingInv, PoolTypeOK
    <2>2. \A x \in Timer : clock'[x] # "new" => closes'[x] \in PoolEntry
      BY <1>0 DEF Release, SharingInv, PoolTypeOK
    <2>3. \A q \in Reader : using'[q] = NoEntry => request'[q] = "none"
      BY PoolAssumption DEF Release, SharingInv, PoolTypeOK, lending
    <2> QED
      BY <2>1, <2>2, <2>3 DEF SharingInv, UsersOf
  <1>6. OpenWhileUsed' /\ SharedIsOpen'
    BY PoolAssumption DEF Release, OpenWhileUsed, SharedIsOpen, HasUsers, PoolTypeOK
  <1>7. LentAccounted'
    BY <1>2, LentCounts DEF Release, lending, LentByHolders
  <1> QED
    BY <1>4, <1>5, <1>6, <1>7

LEMMA TimerFiresKeeps ==
  ASSUME PoolIInv, NEW t \in Timer, TimerFires(t)
  PROVE  PoolIInv'
  <1> USE DEF PoolIInv
  <1>1. PoolTypeOK' /\ OpenWhileUsed' /\ SharedIsOpen'
    BY DEF TimerFires, PoolTypeOK, lending, OpenWhileUsed, SharedIsOpen, HasUsers
  <1>2. \A e \in PoolEntry : UsersOf(e)' = UsersOf(e) /\ HoldersOf(e)' = HoldersOf(e)
    BY DEF TimerFires, lending, UsersOf, HoldersOf
  <1>3. SharingInv'
    BY <1>2 DEF TimerFires, SharingInv, PoolTypeOK, lending
  <1>4. LentAccounted'
    BY <1>2, LentCounts DEF TimerFires, lending, LentByHolders
  <1> QED
    BY <1>1, <1>3, <1>4

\* The close of an entry, late or not, finds its users counted.
LEMMA LingerOverKeeps ==
  ASSUME PoolIInv, NEW t \in Timer, LingerOver(t)
  PROVE  PoolIInv'
  <1> USE DEF PoolIInv
  <1>1. closes[t] \in PoolEntry
    BY DEF LingerOver, SharingInv
  <1>2. refs[closes[t]] = 0 => UsersOf(closes[t]) = {}
    BY <1>1, PoolSetsFinite, FS_EmptySet DEF SharingInv
  <1>3. PoolTypeOK'
    BY <1>1 DEF LingerOver, PoolTypeOK, lending
  <1>4. \A e \in PoolEntry : UsersOf(e)' = UsersOf(e) /\ HoldersOf(e)' = HoldersOf(e)
    BY DEF LingerOver, lending, UsersOf, HoldersOf
  <1>5. SharingInv'
    BY <1>4 DEF LingerOver, SharingInv, PoolTypeOK, lending
  <1>6. OpenWhileUsed'
    BY <1>1, <1>2 DEF LingerOver, OpenWhileUsed, HasUsers, UsersOf, PoolTypeOK
  <1>7. SharedIsOpen'
    BY <1>1 DEF LingerOver, SharedIsOpen, PoolTypeOK
  <1>8. LentAccounted'
    BY <1>4, LentCounts DEF LingerOver, lending, LentByHolders
  <1> QED
    BY <1>3, <1>5, <1>6, <1>7, <1>8

\* What a reader does with its request leaves the pools alone.
LEMMA SharingStays ==
  ASSUME PoolIInv, UNCHANGED sharing,
         \A r \in Reader : using[r] = NoEntry => request'[r] = "none"
  PROVE  SharingInv' /\ OpenWhileUsed' /\ SharedIsOpen'
  <1>1. \A e \in PoolEntry : UsersOf(e)' = UsersOf(e)
    BY DEF sharing, UsersOf
  <1> QED
    BY <1>1 DEF PoolIInv, SharingInv, sharing, OpenWhileUsed, SharedIsOpen, HasUsers

\* A connection changes hands: of those of an entry, the reader r alone may come or go.
LEMMA HoldersMove ==
  ASSUME PoolIInv, UNCHANGED sharing, NEW r \in Reader, NEW e \in PoolEntry, e = using[r],
         NEW a \in {"none", "asked", "offered", "held"}, Ask(r, a)
  PROVE  /\ request' \in [Reader -> {"none", "asked", "offered", "held"}]
         /\ HoldersOf(e)' = IF a \in {"offered", "held"} THEN HoldersOf(e) \cup {r}
                            ELSE HoldersOf(e) \ {r}
         /\ \A d \in PoolEntry \ {e} : HoldersOf(d)' = HoldersOf(d)
         /\ IF request[r] \in {"offered", "held"}
            THEN r \in HoldersOf(e) /\ HoldersOf(e) \cup {r} = HoldersOf(e)
            ELSE r \notin HoldersOf(e) /\ HoldersOf(e) \ {r} = HoldersOf(e)
         /\ \A q \in Reader : using[q] = NoEntry => request'[q] = "none"
  BY PoolAssumption DEF PoolIInv, PoolTypeOK, SharingInv, sharing, Ask, HoldersOf

\* A goroutine nobody waits for comes or goes.
LEMMA OrphanMoves ==
  ASSUME leftBehind \in [PoolEntry -> [asked : Nat, offered : Nat]], NEW e \in PoolEntry,
         NEW what \in {"asked", "offered"}, NEW n \in Int, leftBehind[e][what] + n \in Nat,
         Orphan(e, what, n)
  PROVE  /\ leftBehind' \in [PoolEntry -> [asked : Nat, offered : Nat]]
         /\ leftBehind'[e].offered =
              IF what = "offered" THEN leftBehind[e].offered + n ELSE leftBehind[e].offered
         /\ \A d \in PoolEntry \ {e} : leftBehind'[d] = leftBehind[d]
  <1>1. leftBehind[e] \in [asked : Nat, offered : Nat]
    OBVIOUS
  <1>2. CASE what = "asked"
    <2> DEFINE m == [leftBehind[e] EXCEPT !["asked"] = @ + n]
    <2>1. m \in [asked : Nat, offered : Nat] /\ m.offered = leftBehind[e].offered
      BY <1>1, <1>2
    <2>2. leftBehind' = [leftBehind EXCEPT ![e] = m]
      BY <1>2 DEF Orphan
    <2> HIDE DEF m
    <2> QED
      BY <1>2, <2>1, <2>2
  <1>3. CASE what = "offered"
    <2> DEFINE m == [leftBehind[e] EXCEPT !["offered"] = @ + n]
    <2>1. m \in [asked : Nat, offered : Nat] /\ m.offered = leftBehind[e].offered + n
      BY <1>1, <1>3
    <2>2. leftBehind' = [leftBehind EXCEPT ![e] = m]
      BY <1>3 DEF Orphan
    <2> HIDE DEF m
    <2> QED
      BY <1>3, <2>1, <2>2
  <1> QED
    BY <1>2, <1>3

\* Between a reader and the pool: what is lent goes up with an offer and down with a return.
LEMMA ConnStepKeeps ==
  ASSUME PoolIInv, NEW r \in Reader,
         ConnAsked(r) \/ ConnOffered(r) \/ ConnTaken(r) \/ ConnAbandoned(r) \/ ConnPut(r)
  PROVE  PoolIInv'
  <1> USE DEF PoolIInv
  <1>1. UNCHANGED sharing /\ using[r] # NoEntry
    BY DEF ConnAsked, ConnOffered, ConnTaken, ConnAbandoned, ConnPut, SharingInv
  <1>2. PICK e \in PoolEntry : e = using[r]
    BY <1>1 DEF PoolTypeOK
  <1>3. IsFiniteSet(HoldersOf(e)) /\ Cardinality(HoldersOf(e)) \in Nat
    BY PoolSetsFinite
  <1>4. lent[e] = leftBehind[e].offered + Cardinality(HoldersOf(e))
        /\ lent[e] \in Nat /\ leftBehind[e] \in [asked : Nat, offered : Nat]
    BY LentCounts DEF LentByHolders, PoolTypeOK
  <1>5. ASSUME NEW a \in {"none", "asked", "offered", "held"}, Ask(r, a),
               PoolTypeOK',
               \A d \in PoolEntry \ {e} : lent'[d] = lent[d] /\ leftBehind'[d] = leftBehind[d],
               lent'[e] = leftBehind'[e].offered + Cardinality(HoldersOf(e)')
        PROVE  PoolIInv'
    <2>1. SharingInv' /\ OpenWhileUsed' /\ SharedIsOpen'
      BY <1>1, <1>2, <1>5, HoldersMove, SharingStays
    <2>2. \A d \in PoolEntry \ {e} : HoldersOf(d)' = HoldersOf(d)
      BY <1>1, <1>2, <1>5, HoldersMove
    <2>3. LentAccounted'
      BY <1>5, <2>2, LentCounts DEF LentByHolders
    <2> QED
      BY <1>5, <2>1, <2>3
  <1>6. CASE ConnAsked(r)
    <2>1. Ask(r, "asked") /\ lent' = lent /\ leftBehind' = leftBehind /\ request[r] = "none"
      BY <1>6 DEF ConnAsked
    <2>2. HoldersOf(e)' = HoldersOf(e)
      BY <1>1, <1>2, <2>1, HoldersMove
    <2>3. PoolTypeOK'
      BY <1>1, <2>1 DEF PoolTypeOK, Ask, sharing
    <2> QED
      BY <1>4, <1>5, <2>1, <2>2, <2>3
  <1>7. CASE ConnOffered(r)
    <2>1. Ask(r, "offered") /\ leftBehind' = leftBehind /\ request[r] = "asked"
          /\ lent' = [lent EXCEPT ![e] = @ + 1]
      BY <1>2, <1>7 DEF ConnOffered
    <2>2. HoldersOf(e)' = HoldersOf(e) \cup {r} /\ r \notin HoldersOf(e)
      BY <1>1, <1>2, <2>1, HoldersMove
    <2>3. PoolTypeOK'
      BY <1>1, <2>1 DEF PoolTypeOK, Ask, sharing
    <2>4. lent'[e] = leftBehind'[e].offered + Cardinality(HoldersOf(e)')
      BY <1>3, <1>4, <2>1, <2>2, CountUp DEF PoolTypeOK
    <2> QED
      BY <1>5, <2>1, <2>3, <2>4 DEF PoolTypeOK
  <1>8. CASE ConnTaken(r)
    <2>1. Ask(r, "held") /\ lent' = lent /\ leftBehind' = leftBehind /\ request[r] = "offered"
      BY <1>8 DEF ConnTaken
    <2>2. HoldersOf(e)' = HoldersOf(e)
      BY <1>1, <1>2, <2>1, HoldersMove
    <2>3. PoolTypeOK'
      BY <1>1, <2>1 DEF PoolTypeOK, Ask, sharing
    <2> QED
      BY <1>4, <1>5, <2>1, <2>2, <2>3
  <1>9. CASE ConnAbandoned(r)
    <2>1. Ask(r, "none") /\ lent' = lent /\ Orphan(e, request[r], 1)
          /\ request[r] \in {"asked", "offered"}
      BY <1>2, <1>9 DEF ConnAbandoned
    <2>2. HoldersOf(e)' = HoldersOf(e) \ {r} /\ (r \in HoldersOf(e) <=> request[r] = "offered")
      BY <1>1, <1>2, <2>1, HoldersMove
    <2>3. leftBehind' \in [PoolEntry -> [asked : Nat, offered : Nat]]
          /\ leftBehind'[e].offered =
               IF request[r] = "offered" THEN leftBehind[e].offered + 1 ELSE leftBehind[e].offered
      <3>1. leftBehind[e][request[r]] + 1 \in Nat
        BY <1>4, <2>1
      <3> QED
        BY <2>1, <3>1, OrphanMoves DEF PoolTypeOK
    <2>4. PoolTypeOK'
      BY <1>1, <2>1, <2>3 DEF PoolTypeOK, Ask, sharing
    <2>5. Cardinality(HoldersOf(e)') = IF request[r] = "offered" THEN Cardinality(HoldersOf(e)) - 1
                                       ELSE Cardinality(HoldersOf(e))
      BY <1>3, <2>2, FS_RemoveElement
    <2>6. lent'[e] = leftBehind'[e].offered + Cardinality(HoldersOf(e)')
      BY <1>3, <1>4, <2>1, <2>3, <2>5
    <2>7. \A d \in PoolEntry \ {e} : leftBehind'[d] = leftBehind[d]
      BY <2>1 DEF Orphan, PoolTypeOK
    <2> QED
      BY <1>5, <2>1, <2>4, <2>6, <2>7
  <1>10. CASE ConnPut(r)
    <2>1. Ask(r, "none") /\ leftBehind' = leftBehind /\ request[r] = "held"
          /\ lent' = [lent EXCEPT ![e] = @ - 1]
      BY <1>2, <1>10 DEF ConnPut
    <2>2. HoldersOf(e)' = HoldersOf(e) \ {r} /\ r \in HoldersOf(e)
      BY <1>1, <1>2, <2>1, HoldersMove
    <2>3. Cardinality(HoldersOf(e)') = Cardinality(HoldersOf(e)) - 1
          /\ Cardinality(HoldersOf(e)) - 1 \in Nat
      BY <1>3, <2>2, CountDown
    <2>4. lent'[e] = lent[e] - 1 /\ lent'[e] = leftBehind'[e].offered + Cardinality(HoldersOf(e)')
          /\ lent'[e] \in Nat
      BY <1>3, <1>4, <2>1, <2>3 DEF PoolTypeOK
    <2>5. PoolTypeOK'
      BY <1>1, <2>1, <2>4 DEF PoolTypeOK, Ask, sharing
    <2> QED
      BY <1>5, <2>1, <2>4, <2>5 DEF PoolTypeOK
  <1> QED
    BY <1>6, <1>7, <1>8, <1>9, <1>10

\* Between the goroutines nobody waits for and the pool.
LEMMA OrphanStepKeeps ==
  ASSUME PoolIInv, NEW e \in PoolEntry, OrphanOffered(e) \/ OrphanPut(e) \/ OrphanRefused(e)
  PROVE  PoolIInv'
  <1> USE DEF PoolIInv
  <1>1. UNCHANGED <<sharing, request>>
    BY DEF OrphanOffered, OrphanPut, OrphanRefused
  <1>2. \A d \in PoolEntry : HoldersOf(d)' = HoldersOf(d) /\ Cardinality(HoldersOf(d)) \in Nat
    BY <1>1, PoolSetsFinite DEF HoldersOf, sharing
  <1>3. SharingInv' /\ OpenWhileUsed' /\ SharedIsOpen'
    BY <1>1, SharingStays DEF SharingInv
  <1>4. \A d \in PoolEntry : lent[d] = leftBehind[d].offered + Cardinality(HoldersOf(d))
        /\ lent[d] \in Nat /\ leftBehind[d] \in [asked : Nat, offered : Nat]
    BY LentCounts DEF LentByHolders, PoolTypeOK
  <1>5. /\ lent' \in [PoolEntry -> Nat] /\ leftBehind' \in [PoolEntry -> [asked : Nat, offered : Nat]]
        /\ \A d \in PoolEntry : lent'[d] - leftBehind'[d].offered = lent[d] - leftBehind[d].offered
    <2>1. CASE OrphanOffered(e)
      <3> DEFINE m == [asked |-> leftBehind[e].asked - 1, offered |-> leftBehind[e].offered + 1]
      <3>1. m \in [asked : Nat, offered : Nat] /\ m.offered = leftBehind[e].offered + 1
        BY <1>4, <2>1 DEF OrphanOffered
      <3>2. leftBehind' = [leftBehind EXCEPT ![e] = m] /\ lent' = [lent EXCEPT ![e] = @ + 1]
        BY <2>1 DEF OrphanOffered
      <3> HIDE DEF m
      <3>3. leftBehind'[e] = m /\ lent'[e] = lent[e] + 1
            /\ \A d \in PoolEntry \ {e} : leftBehind'[d] = leftBehind[d] /\ lent'[d] = lent[d]
        BY <3>2 DEF PoolTypeOK
      <3>4. lent' \in [PoolEntry -> Nat] /\ leftBehind' \in [PoolEntry -> [asked : Nat, offered : Nat]]
        BY <1>4, <3>1, <3>2 DEF PoolTypeOK
      <3> QED
        BY <1>4, <3>1, <3>3, <3>4
    <2>2. CASE OrphanPut(e)
      <3>1. leftBehind[e]["offered"] + (-1) \in Nat /\ Orphan(e, "offered", -1)
        BY <1>4, <2>2 DEF OrphanPut
      <3>2. /\ leftBehind' \in [PoolEntry -> [asked : Nat, offered : Nat]]
            /\ leftBehind'[e].offered = leftBehind[e].offered + (-1)
            /\ \A d \in PoolEntry \ {e} : leftBehind'[d] = leftBehind[d]
        BY <3>1, OrphanMoves DEF PoolTypeOK
      <3>3. lent' = [lent EXCEPT ![e] = @ - 1] /\ lent[e] - 1 \in Nat
        BY <1>2, <1>4, <2>2 DEF OrphanPut
      <3> QED
        BY <1>4, <3>2, <3>3 DEF PoolTypeOK
    <2>3. CASE OrphanRefused(e)
      <3>1. leftBehind[e]["asked"] + (-1) \in Nat /\ Orphan(e, "asked", -1) /\ lent' = lent
        BY <1>4, <2>3 DEF OrphanRefused
      <3>2. /\ leftBehind' \in [PoolEntry -> [asked : Nat, offered : Nat]]
            /\ leftBehind'[e].offered = leftBehind[e].offered
            /\ \A d \in PoolEntry \ {e} : leftBehind'[d] = leftBehind[d]
        BY <3>1, OrphanMoves DEF PoolTypeOK
      <3> QED
        BY <1>4, <3>1, <3>2 DEF PoolTypeOK
    <2> QED
      BY <2>1, <2>2, <2>3
  <1>6. PoolTypeOK'
    BY <1>1, <1>5 DEF PoolTypeOK, sharing
  <1>7. LentAccounted'
    BY <1>2, <1>4, <1>5, LentCounts DEF LentByHolders
  <1> QED
    BY <1>3, <1>6, <1>7

\* No step of the pools closes one under a user, hands out a closed one, or loses a
\* connection (pool.go, getPoolConn).
LEMMA PoolStepKeeps == PoolIInv /\ [PoolNext]_poolVars => PoolIInv'
  <1>1. ASSUME PoolIInv, UNCHANGED poolVars PROVE PoolIInv'
    BY <1>1 DEF poolVars, sharing, lending, PoolIInv, PoolTypeOK, SharingInv, UsersOf,
                OpenWhileUsed, HasUsers, SharedIsOpen, LentAccounted
  <1> QED
    BY <1>1, AcquireKeeps, ReleaseKeeps, TimerFiresKeeps, LingerOverKeeps, ConnStepKeeps,
       OrphanStepKeeps DEF PoolNext

-----------------------------------------------------------------------------
(* The mirror queue's dispatcher.                                          *)

HoldToken  == {g \in Carriers : stage[g] \notin {"no token", "no group"}}
GroupOf(u) == {g \in Carriers : OwnerOf[carried[g]] = u /\ stage[g] # "no group"}

\* Who carries an item is not idle, and the other way round.
CarryInv == \A g \in Go : carried[g] = NoItem <=> stage[g] = "idle"

ByosIInv == ByosTypeOK /\ CarryInv /\ OneTransfer /\ BooksBalance

BooksCount ==
  BooksBalance <=>
    /\ inFlight = {carried[g] : g \in Carriers}
    /\ taken = Cardinality(HoldToken)
    /\ \A u \in Customer : ofUser[u] = Cardinality(GroupOf(u))

LEMMA BooksCounted == BooksCount /\ BooksCount'
  BY DEF BooksCount, BooksBalance, HoldToken, GroupOf

LEMMA ByosSetsFinite ==
  ASSUME NEW u
  PROVE  /\ IsFiniteSet(HoldToken) /\ Cardinality(HoldToken) \in Nat
         /\ IsFiniteSet(GroupOf(u)) /\ Cardinality(GroupOf(u)) \in Nat
  BY CountType, ByosAssumption DEF HoldToken, GroupOf, Carriers

LEMMA BooksEmpty ==
  ASSUME carried = [g \in Go |-> NoItem], taken = 0, ofUser = [u \in Customer |-> 0], inFlight = {}
  PROVE  BooksBalance /\ OneTransfer
  <1>1. Carriers = {}
    BY DEF Carriers
  <1>2. HoldToken = {} /\ \A u \in Customer : GroupOf(u) = {}
    BY <1>1 DEF HoldToken, GroupOf
  <1> QED
    BY <1>1, <1>2, FS_EmptySet, BooksCounted DEF BooksCount, OneTransfer

LEMMA ByosInitially == ByosInit => ByosIInv
  <1> SUFFICES ASSUME ByosInit PROVE ByosIInv
    OBVIOUS
  <1>1. ByosTypeOK
    BY ByosAssumption DEF ByosInit, ByosTypeOK, CarryStages
  <1>2. CarryInv
    BY DEF ByosInit, CarryInv
  <1> QED
    BY <1>1, <1>2, BooksEmpty DEF ByosInit, ByosIInv

\* The books do not move with what does not touch them.
LEMMA BooksStay ==
  ASSUME ByosIInv, UNCHANGED <<carried, stage, dispatcher>>
  PROVE  CarryInv' /\ OneTransfer' /\ BooksBalance'
  BY DEF ByosIInv, CarryInv, OneTransfer, BooksBalance, Carriers, dispatcher

\* A goroutine on its way to the end of its item keeps its token and its reservation.
LEMMA CarryOn ==
  ASSUME ByosIInv, NEW g \in Go, NEW s \in {"sending", "sent", "marked", "over"},
         stage[g] \in {"picked", "sending", "sent", "marked"}, Onto(g, s),
         UNCHANGED <<carried, dispatcher>>
  PROVE  /\ CarryInv' /\ OneTransfer' /\ BooksBalance'
         /\ stage' \in [Go -> CarryStages] /\ carried[g] \in Item
  <1> USE DEF ByosIInv
  <1>1. stage' \in [Go -> CarryStages] /\ carried[g] \in Item
    BY DEF Onto, ByosTypeOK, CarryStages, CarryInv
  <1>2. CarryInv'
    BY DEF Onto, ByosTypeOK, CarryInv
  <1>3. Carriers' = Carriers /\ HoldToken' = HoldToken
        /\ \A u \in Customer : GroupOf(u)' = GroupOf(u)
    BY DEF Onto, ByosTypeOK, Carriers, HoldToken, GroupOf
  <1>4. OneTransfer'
    BY <1>3 DEF OneTransfer
  <1>5. BooksBalance'
    BY <1>3, BooksCounted DEF BooksCount, dispatcher
  <1> QED
    BY <1>1, <1>2, <1>4, <1>5

\* The listing, the refusals and the world outside move no book.
LEMMA OutsideKeeps ==
  ASSUME ByosIInv,
         \/ ListQueue
         \/ \E j \in Item : EnqueueJob(j) \/ Upset(j) \/ EvictObject(j) \/ Rehydrate(j) \/ RefuseItem(j)
  PROVE  ByosIInv'
  <1>1. UNCHANGED <<carried, stage, dispatcher>>
    BY DEF ListQueue, EnqueueJob, Upset, EvictObject, Rehydrate, RefuseItem
  <1>2. ByosTypeOK'
    <2> USE DEF ByosIInv, ByosTypeOK
    <2>1. CASE ListQueue
      BY <2>1 DEF ListQueue, byosRows, dispatcher
    <2>2. ASSUME NEW j \in Item, EnqueueJob(j) PROVE ByosTypeOK'
      BY <2>2, ByosAssumption DEF EnqueueJob, dispatcher
    <2>3. ASSUME NEW j \in Item, Upset(j) PROVE ByosTypeOK'
      <3>1. upset' \in 0 .. MaxUpset /\ batch' = batch /\ UNCHANGED <<carried, stage, dispatcher, queued, marked>>
        BY <2>3, ByosAssumption DEF Upset
      <3>2. place' \in [Item -> {"here", "elsewhere", "deleted"}]
            /\ stocked' \subseteq Item /\ storage' \in [Customer -> {"none", "off", "on"}]
        BY <2>3 DEF Upset
      <3> QED
        BY <3>1, <3>2 DEF dispatcher
    <2>4. ASSUME NEW j \in Item, EvictObject(j) PROVE ByosTypeOK'
      BY <2>4, ByosAssumption DEF EvictObject, dispatcher
    <2>5. ASSUME NEW j \in Item, Rehydrate(j) PROVE ByosTypeOK'
      BY <2>5 DEF Rehydrate, dispatcher
    <2>6. ASSUME NEW j \in Item, RefuseItem(j) PROVE ByosTypeOK'
      BY <2>6 DEF RefuseItem, byosRows, dispatcher
    <2> QED
      BY <2>1, <2>2, <2>3, <2>4, <2>5, <2>6
  <1> QED
    BY <1>1, <1>2, BooksStay DEF ByosIInv

\* An item that is submitted is in nobody's hands and takes one of each book.
LEMMA SubmitKeeps ==
  ASSUME ByosIInv, NEW j \in Item, NEW g \in Go, SubmitItem(j, g)
  PROVE  ByosIInv'
  <1> USE DEF ByosIInv
  <1> DEFINE u == OwnerOf[j]
  <1>1. u \in Customer /\ g \notin Carriers /\ j \notin {carried[x] : x \in Carriers} /\ j # NoItem
    BY ByosAssumption, BooksCounted DEF SubmitItem, Admitted, Carriers, CarryInv, BooksCount
  <1>2. /\ carried' = [carried EXCEPT ![g] = j] /\ stage' = [stage EXCEPT ![g] = "picked"]
        /\ carried \in [Go -> Item \cup {NoItem}] /\ stage \in [Go -> CarryStages]
    BY DEF SubmitItem, ByosTypeOK
  <1>3. Carriers' = Carriers \cup {g} /\ \A x \in Carriers : carried'[x] = carried[x] /\ stage'[x] = stage[x]
    BY <1>1, <1>2 DEF Carriers
  <1>4. HoldToken' = HoldToken \cup {g} /\ g \notin HoldToken
    BY <1>1, <1>2, <1>3 DEF HoldToken
  <1>5. GroupOf(u)' = GroupOf(u) \cup {g} /\ g \notin GroupOf(u)
    BY <1>1, <1>2, <1>3 DEF GroupOf
  <1>6. \A v \in Customer \ {u} : GroupOf(v)' = GroupOf(v)
    BY <1>1, <1>2, <1>3 DEF GroupOf
  <1>7. taken' = Cardinality(HoldToken') /\ taken' \in 0 .. Parallel
    BY <1>4, ByosSetsFinite, CountUp, BooksCounted, ByosAssumption
    DEF SubmitItem, BooksCount, ByosTypeOK, Admitted
  <1>8. ofUser'[u] = Cardinality(GroupOf(u)') /\ ofUser'[u] \in 0 .. PerUser
    BY <1>1, <1>5, ByosSetsFinite, CountUp, BooksCounted, ByosAssumption
    DEF SubmitItem, BooksCount, ByosTypeOK, Admitted
  <1>9. ofUser' \in [Customer -> 0 .. PerUser] /\ \A v \in Customer \ {u} : ofUser'[v] = ofUser[v]
    BY <1>1, <1>8 DEF SubmitItem, ByosTypeOK
  <1>10. inFlight' = {carried'[x] : x \in Carriers'}
    BY <1>1, <1>2, <1>3, BooksCounted DEF SubmitItem, BooksCount
  <1>11. BooksBalance'
    BY <1>6, <1>7, <1>8, <1>9, <1>10, BooksCounted DEF BooksCount
  <1>12. OneTransfer'
    BY <1>1, <1>2, <1>3 DEF OneTransfer, Carriers
  <1>13. CarryInv'
    BY <1>1, <1>2 DEF CarryInv
  <1>14. ByosTypeOK'
    BY <1>7, <1>9 DEF SubmitItem, ByosTypeOK, byosRows, CarryStages
  <1> QED
    BY <1>11, <1>12, <1>13, <1>14

\* The work on an item up to its end.
LEMMA WorkKeeps ==
  ASSUME ByosIInv, NEW g \in Go,
         PickItem(g) \/ SendOk(g) \/ SendRefused(g) \/ SendHopeless(g) \/ SendFails(g)
           \/ MarkObject(g) \/ DeleteItem(g)
  PROVE  ByosIInv'
  <1>1. /\ stage[g] \in {"picked", "sending", "sent", "marked"}
        /\ \E s \in {"sending", "sent", "marked", "over"} : Onto(g, s)
        /\ UNCHANGED <<carried, dispatcher, batch, place, stocked, upset>>
    BY DEF PickItem, SendOk, SendRefused, SendHopeless, SendFails, MarkObject, DeleteItem, byosRows
  <1>2. /\ CarryInv' /\ OneTransfer' /\ BooksBalance'
        /\ stage' \in [Go -> CarryStages] /\ carried[g] \in Item
    BY <1>1, CarryOn
  <1>3. queued' \in [Item -> -1 .. MaxTry - 1]
    <2> USE DEF ByosIInv, ByosTypeOK
    <2>1. ASSUME queued' = queued \/ DropItem(carried[g]) PROVE queued' \in [Item -> -1 .. MaxTry - 1]
      BY <1>2, <2>1, ByosAssumption DEF DropItem
    <2>2. CASE SendFails(g)
      BY <1>2, <2>2, ByosAssumption DEF SendFails, InQueue
    <2> QED
      BY <2>1, <2>2 DEF PickItem, SendOk, SendRefused, SendHopeless, MarkObject, DeleteItem, byosRows
  <1>4. marked' \subseteq Item
    BY <1>2 DEF ByosIInv, ByosTypeOK, PickItem, SendOk, SendRefused, SendHopeless, SendFails,
                MarkObject, DeleteItem, byosRows
  <1>5. storage' \in [Customer -> {"none", "off", "on"}]
    BY <1>2, ByosAssumption DEF ByosIInv, ByosTypeOK, PickItem, SendOk, SendRefused, SendHopeless,
                SendFails, MarkObject, DeleteItem, byosRows
  <1>6. ByosTypeOK'
    BY <1>1, <1>2, <1>3, <1>4, <1>5 DEF ByosIInv, ByosTypeOK, dispatcher
  <1> QED
    BY <1>2, <1>6 DEF ByosIInv

\* The deferred release gives back what the item took, one book after the other.
LEMMA GiveTokenKeeps ==
  ASSUME ByosIInv, NEW g \in Go, GiveToken(g)
  PROVE  ByosIInv'
  <1> USE DEF ByosIInv
  <1>1. carried[g] \in Item /\ g \in HoldToken /\ g \in Carriers
    BY ByosAssumption DEF GiveToken, CarryInv, ByosTypeOK, HoldToken, Carriers
  <1>2. /\ Carriers' = Carriers /\ HoldToken' = HoldToken \ {g}
        /\ \A u \in Customer : GroupOf(u)' = GroupOf(u)
    BY <1>1 DEF GiveToken, Onto, ByosTypeOK, Carriers, HoldToken, GroupOf
  <1>3. taken' = Cardinality(HoldToken') /\ taken' \in 0 .. Parallel
    <2>1. taken' = taken - 1 /\ taken = Cardinality(HoldToken) /\ taken \in 0 .. Parallel
      BY BooksCounted DEF GiveToken, BooksCount, ByosTypeOK
    <2>2. Cardinality(HoldToken \ {g}) = Cardinality(HoldToken) - 1
          /\ Cardinality(HoldToken) - 1 \in Nat
      BY <1>1, ByosSetsFinite, CountDown
    <2> QED
      BY <1>2, <2>1, <2>2, ByosAssumption
  <1>4. BooksBalance' /\ OneTransfer'
    BY <1>2, <1>3, BooksCounted DEF GiveToken, BooksCount, OneTransfer
  <1>5. CarryInv' /\ ByosTypeOK'
    BY <1>3 DEF GiveToken, Onto, CarryInv, ByosTypeOK, CarryStages, byosRows
  <1> QED
    BY <1>4, <1>5

LEMMA ReleaseGroupKeeps ==
  ASSUME ByosIInv, NEW g \in Go, ReleaseGroup(g)
  PROVE  ByosIInv'
  <1> USE DEF ByosIInv
  <1>1. PICK u \in Customer : u = OwnerOf[carried[g]] /\ g \in GroupOf(u)
    BY ByosAssumption DEF ReleaseGroup, CarryInv, ByosTypeOK, GroupOf, Carriers
  <1>2. /\ Carriers' = Carriers /\ HoldToken' = HoldToken
        /\ GroupOf(u)' = GroupOf(u) \ {g} /\ \A v \in Customer \ {u} : GroupOf(v)' = GroupOf(v)
    BY <1>1 DEF ReleaseGroup, Onto, ByosTypeOK, Carriers, HoldToken, GroupOf
  <1>3. Cardinality(GroupOf(u)') = ofUser[u] - 1 /\ ofUser[u] - 1 \in 0 .. PerUser
    <2>1. ofUser[u] = Cardinality(GroupOf(u)) /\ ofUser[u] \in 0 .. PerUser
      BY BooksCounted DEF BooksCount, ByosTypeOK
    <2>2. Cardinality(GroupOf(u) \ {g}) = Cardinality(GroupOf(u)) - 1
          /\ Cardinality(GroupOf(u)) - 1 \in Nat
      BY <1>1, ByosSetsFinite, CountDown
    <2> QED
      BY <1>2, <2>1, <2>2, ByosAssumption
  <1>4. ofUser' = [ofUser EXCEPT ![u] = ofUser[u] - 1]
    BY <1>1 DEF ReleaseGroup
  <1>5. BooksBalance' /\ OneTransfer'
    <2>1. \A v \in Customer : ofUser'[v] = Cardinality(GroupOf(v)')
      <3>1. ofUser'[u] = Cardinality(GroupOf(u)')
        BY <1>3, <1>4 DEF ByosTypeOK
      <3>2. ASSUME NEW v \in Customer \ {u} PROVE ofUser'[v] = Cardinality(GroupOf(v)')
        <4>1. ofUser'[v] = ofUser[v] /\ GroupOf(v)' = GroupOf(v)
          BY <1>2, <1>4, <3>2 DEF ByosTypeOK
        <4>2. ofUser[v] = Cardinality(GroupOf(v))
          BY <3>2, BooksCounted DEF BooksCount
        <4> QED
          BY <4>1, <4>2
      <3> QED
        BY <3>1, <3>2
    <2>2. UNCHANGED <<carried, taken, inFlight>>
      BY DEF ReleaseGroup
    <2>3. OneTransfer'
      BY <1>2, <2>2 DEF OneTransfer
    <2>4. inFlight' = {carried'[x] : x \in Carriers'} /\ taken' = Cardinality(HoldToken')
      BY <1>2, <2>2, BooksCounted DEF BooksCount
    <2> QED
      BY <2>1, <2>3, <2>4, BooksCounted DEF BooksCount
  <1>6. CarryInv' /\ ByosTypeOK'
    BY <1>3, <1>4 DEF ReleaseGroup, Onto, CarryInv, ByosTypeOK, CarryStages, byosRows
  <1> QED
    BY <1>5, <1>6

LEMMA LeaveFlightKeeps ==
  ASSUME ByosIInv, NEW g \in Go, LeaveFlight(g)
  PROVE  ByosIInv'
  <1> USE DEF ByosIInv
  <1>1. g \in Carriers /\ g \notin HoldToken /\ \A u \in Customer : g \notin GroupOf(u)
    BY DEF LeaveFlight, CarryInv, Carriers, HoldToken, GroupOf
  <1>2. /\ Carriers' = Carriers \ {g} /\ HoldToken' = HoldToken
        /\ \A u \in Customer : GroupOf(u)' = GroupOf(u)
        /\ \A x \in Carriers \ {g} : carried'[x] = carried[x]
    BY <1>1 DEF LeaveFlight, Onto, ByosTypeOK, Carriers, HoldToken, GroupOf
  <1>3. inFlight' = {carried'[x] : x \in Carriers'}
    <2>1. inFlight = {carried[x] : x \in Carriers} /\ inFlight' = inFlight \ {carried[g]}
      BY BooksCounted DEF LeaveFlight, BooksCount
    <2>2. \A x \in Carriers \ {g} : carried[x] # carried[g]
      BY <1>1 DEF OneTransfer
    <2>3. inFlight' = {carried[x] : x \in Carriers \ {g}}
      BY <1>1, <2>1, <2>2
    <2> QED
      BY <1>2, <2>3
  <1>4. BooksBalance' /\ OneTransfer'
    <2>1. OneTransfer'
      BY <1>2 DEF OneTransfer
    <2>2. taken' = taken /\ ofUser' = ofUser
      BY DEF LeaveFlight
    <2>3. taken' = Cardinality(HoldToken') /\ \A u \in Customer : ofUser'[u] = Cardinality(GroupOf(u)')
      BY <1>2, <2>2, BooksCounted DEF BooksCount
    <2> QED
      BY <1>3, <2>1, <2>3, BooksCounted DEF BooksCount
  <1>5. CarryInv' /\ ByosTypeOK'
    BY DEF LeaveFlight, Onto, CarryInv, ByosTypeOK, CarryStages, byosRows
  <1> QED
    BY <1>4, <1>5

LEMMA ByosRestartKeeps ==
  ASSUME ByosIInv, ByosRestart
  PROVE  ByosIInv'
  <1>1. Carriers' = {}
    BY DEF ByosRestart, Carriers
  <1>2. HoldToken' = {} /\ \A u \in Customer : GroupOf(u)' = {}
    BY <1>1 DEF HoldToken, GroupOf
  <1>3. BooksBalance' /\ OneTransfer'
    BY <1>1, <1>2, FS_EmptySet, BooksCounted DEF ByosRestart, BooksCount, OneTransfer
  <1>4. CarryInv'
    BY DEF ByosRestart, CarryInv
  <1>5. carried' \in [Go -> Item \cup {NoItem}] /\ stage' \in [Go -> CarryStages]
    BY DEF ByosRestart, CarryStages
  <1>6. ofUser' \in [Customer -> 0 .. PerUser] /\ taken' \in 0 .. Parallel /\ upset' \in 0 .. MaxUpset
    BY ByosAssumption DEF ByosRestart, ByosIInv, ByosTypeOK
  <1>7. ByosTypeOK'
    BY <1>5, <1>6 DEF ByosRestart, ByosIInv, ByosTypeOK, byosRows
  <1> QED
    BY <1>3, <1>4, <1>7 DEF ByosIInv

\* No step of the worker transfers an item twice or leaves a book behind (pool.go).
LEMMA ByosStepKeeps == ByosIInv /\ [ByosNext]_byosVars => ByosIInv'
  <1>1. ASSUME ByosIInv, UNCHANGED byosVars PROVE ByosIInv'
    <2>1. ByosTypeOK'
      BY <1>1 DEF byosVars, byosRows, dispatcher, ByosIInv, ByosTypeOK
    <2> QED
      BY <1>1, <2>1, BooksStay DEF byosVars, ByosIInv
  <1> QED
    BY <1>1, OutsideKeeps, SubmitKeeps, WorkKeeps, GiveTokenKeeps, ReleaseGroupKeeps,
       LeaveFlightKeeps, ByosRestartKeeps DEF ByosNext, GoStep

-----------------------------------------------------------------------------
(* The speed test.                                                         *)

\* What has been let through in a minute has been charged, and who sends has a token.
SpeedIInv == SpeedTypeOK /\ IsFiniteSet(testing) /\ SpeedBounded

LEMMA SpeedInitially == SpeedInit => SpeedIInv
  BY SpeedAssumption, FS_EmptySet DEF SpeedInit, SpeedIInv, SpeedTypeOK, SpeedBounded

\* The last test of a minute is let in below the budget, by less than its own length.
LEMMA SpeedStepKeeps == SpeedIInv /\ [SpeedNext]_speedVars => SpeedIInv'
  <1> SUFFICES ASSUME SpeedIInv, [SpeedNext]_speedVars PROVE SpeedIInv'
    OBVIOUS
  <1> USE SpeedAssumption DEF SpeedIInv, SpeedTypeOK, SpeedBounded
  <1>1. ASSUME NEW t \in Tester, NEW n \in 0 .. (SpeedMost + 1), SpeedDownload(t, n) PROVE SpeedIInv'
    <2>1. TestLength(n) \in 1 .. SpeedMost
      BY DEF TestLength
    <2>2. IsFiniteSet(testing \cup {t}) /\ Cardinality(testing \cup {t}) = Cardinality(testing) + 1
      BY <1>1, FS_AddElement DEF SpeedDownload
    <2> QED
      BY <1>1, <2>1, <2>2 DEF SpeedDownload, TakeToken
  <1>2. ASSUME NEW t \in Tester, SpeedOver(t) PROVE SpeedIInv'
    <2>1. IsFiniteSet(testing \ {t}) /\ Cardinality(testing \ {t}) = Cardinality(testing) - 1
      BY <1>2, FS_RemoveElement DEF SpeedOver
    <2>2. Cardinality(testing \ {t}) \in Nat
      BY <2>1, FS_CardinalityType
    <2> QED
      BY <1>2, <2>1, <2>2 DEF SpeedOver
  <1>3. CASE SpeedMinute
    BY <1>3 DEF SpeedMinute
  <1>4. CASE UNCHANGED speedVars
    BY <1>4 DEF speedVars
  <1> QED
    BY <1>1, <1>2, <1>3, <1>4 DEF SpeedNext

-----------------------------------------------------------------------------
(* The guards of the stream server.                                        *)

ArchiveHolders == {r \in Reading : Holding(r)}
ZipsNow(r)     == step[r] = "body" /\ Guarded(served[r])

\* The stage of a handler says what is served: only the archive's requests pass its guard,
\* and one of them has a body to send only when one was asked for.
HandlerInv ==
  \A r \in Reading :
    /\ step[r] \in {"guard", "archive"} => served[r].kind = "cairn"
    /\ step[r] = "nzb" => served[r].kind = "usenet"
    /\ step[r] = "remote" => served[r].kind = "byos"
    /\ step[r] = "zipguard" => Guarded(served[r])
    /\ step[r] = "body" /\ served[r].kind = "cairn" => served[r].get

ArchiveBooks ==
  /\ \A u \in Viewer : slots[u] = Cardinality(Archived(u)) /\ slots[u] <= GuardPerUser
  /\ streaming = Cardinality(ArchiveHolders) /\ streaming <= GuardTotal
ZipBooks ==
  \A u \in Viewer : ~ZipFree(u) => zips[u] = Cardinality(Zipping(u)) /\ zips[u] <= ZipsPerUser

StreamIInv == StreamTypeOK /\ HandlerInv /\ ArchiveBooks /\ ZipBooks

LEMMA BooksAreGuards == ArchiveBooks /\ ZipBooks => GuardsBalance
  BY DEF ArchiveBooks, ZipBooks, GuardsBalance, ArchiveHolders

LEMMA StreamSetsFinite ==
  ASSUME NEW u
  PROVE  /\ IsFiniteSet(ArchiveHolders) /\ Cardinality(ArchiveHolders) \in Nat
         /\ IsFiniteSet(Archived(u)) /\ Cardinality(Archived(u)) \in Nat
         /\ IsFiniteSet(Zipping(u)) /\ Cardinality(Zipping(u)) \in Nat
  BY CountType, StreamAssumption DEF ArchiveHolders, Archived, Zipping

LEMMA GuardLimits == GuardTotal \in Nat \ {0} /\ GuardPerUser \in Nat \ {0}
  <1>1. Total \in Nat /\ StreamsPerUser \in Nat
    BY StreamAssumption
  <1>2. GuardTotal \in Nat \ {0}
    BY <1>1 DEF GuardTotal
  <1> QED
    BY <1>1, <1>2 DEF GuardPerUser, AtMost

LEMMA StreamInitially == StreamInit => StreamIInv
  <1> SUFFICES ASSUME StreamInit PROVE StreamIInv
    OBVIOUS
  <1>1. \A r \in Reading : step[r] = "idle" /\ served[r] = NoRequest
    BY DEF StreamInit
  <1>2. ArchiveHolders = {} /\ \A u \in Viewer : Archived(u) = {} /\ Zipping(u) = {}
    BY <1>1 DEF ArchiveHolders, Archived, Zipping, Holding
  <1>3. ArchiveBooks /\ ZipBooks
    BY <1>2, FS_EmptySet, GuardLimits, StreamAssumption DEF StreamInit, ArchiveBooks, ZipBooks, ZipFree
  <1>4. HandlerInv
    BY <1>1 DEF HandlerInv
  <1>5. StreamTypeOK
    <2>1. rowNode \in [Content -> Place \cup {Nowhere}]
      BY StreamAssumption DEF StreamInit
    <2> QED
      BY <2>1, <1>1, StreamAssumption DEF StreamInit, StreamTypeOK
  <1> QED
    BY <1>3, <1>4, <1>5 DEF StreamIInv

\* A step of the handler in slot r, which is a request's or becomes one's.
SlotMoves(r) == /\ step' = [step EXCEPT ![r] = step'[r]]
                /\ served' = [served EXCEPT ![r] = served'[r]]

LEMMA OthersStay ==
  ASSUME StreamTypeOK, NEW r \in Reading, SlotMoves(r), NEW x \in Reading \ {r}
  PROVE  /\ step'[x] = step[x] /\ served'[x] = served[x]
         /\ (Holding(x)' <=> Holding(x)) /\ (ZipsNow(x)' <=> ZipsNow(x))
  <1>1. step'[x] = step[x] /\ served'[x] = served[x]
    BY DEF SlotMoves, StreamTypeOK
  <1> QED
    BY <1>1 DEF Holding, ZipsNow

LEMMA ARequest ==
  ASSUME StreamTypeOK, NEW r \in Reading, step[r] # "idle"
  PROVE  /\ served[r] \in StreamRequests /\ served[r] # NoRequest /\ served[r].user \in Viewer
         /\ served[r].kind \in Served /\ served[r].get \in BOOLEAN
  BY DEF StreamTypeOK, StreamRequests, StreamRequest


\* What a step leaves of the guards' books when it moves no request in or out of them.
LEMMA ArchiveStays ==
  ASSUME StreamTypeOK, ArchiveBooks, NEW r \in Reading, SlotMoves(r), UNCHANGED <<slots, streaming>>,
         Holding(r)' <=> Holding(r), Holding(r) => served'[r].user = served[r].user
  PROVE  ArchiveBooks'
  <1>1. ArchiveHolders' = ArchiveHolders /\ \A u \in Viewer : Archived(u)' = Archived(u)
    BY OthersStay DEF ArchiveHolders, Archived
  <1> QED
    BY <1>1 DEF ArchiveBooks

LEMMA ZipStays ==
  ASSUME StreamTypeOK, ZipBooks, NEW r \in Reading, SlotMoves(r), UNCHANGED zips,
         ZipsNow(r)' <=> ZipsNow(r), ZipsNow(r) => served'[r].user = served[r].user
  PROVE  ZipBooks'
  <1>1. \A u \in Viewer : Zipping(u)' = Zipping(u)
    BY OthersStay DEF Zipping, ZipsNow
  <1> QED
    BY <1>1 DEF ZipBooks, ZipFree

\* A request passes the archive's guard below both limits.
LEMMA ArchiveJoins ==
  ASSUME StreamTypeOK, ArchiveBooks, NEW r \in Reading, SlotMoves(r), NEW u \in Viewer,
         ~Holding(r), Holding(r)', served'[r].user = u, ~GuardFull(u),
         slots' = [slots EXCEPT ![u] = @ + 1], streaming' = streaming + 1
  PROVE  ArchiveBooks'
  <1>1. ArchiveHolders' = ArchiveHolders \cup {r} /\ r \notin ArchiveHolders
    BY OthersStay DEF ArchiveHolders
  <1>2. /\ Archived(u)' = Archived(u) \cup {r} /\ r \notin Archived(u)
        /\ \A v \in Viewer \ {u} : Archived(v)' = Archived(v)
    BY OthersStay DEF Archived
  <1>3. slots'[u] = slots[u] + 1 /\ \A v \in Viewer \ {u} : slots'[v] = slots[v]
    BY DEF StreamTypeOK
  <1>4. slots[u] \in Nat /\ slots[u] + 1 <= GuardPerUser /\ streaming \in Nat /\ streaming + 1 <= GuardTotal
    BY GuardLimits DEF GuardFull, StreamTypeOK
  <1>5. Cardinality(ArchiveHolders') = streaming + 1
    BY <1>1, StreamSetsFinite, CountUp DEF ArchiveBooks
  <1>6. Cardinality(Archived(u)') = slots[u] + 1
    BY <1>2, StreamSetsFinite, CountUp DEF ArchiveBooks
  <1>7. ASSUME NEW v \in Viewer \ {u} PROVE slots'[v] = Cardinality(Archived(v)') /\ slots'[v] <= GuardPerUser
    BY <1>2, <1>3, <1>7 DEF ArchiveBooks
  <1>8. \A v \in Viewer : slots'[v] = Cardinality(Archived(v)') /\ slots'[v] <= GuardPerUser
    BY <1>3, <1>4, <1>6, <1>7
  <1> QED
    BY <1>4, <1>5, <1>8 DEF ArchiveBooks

\* One that leaves gives back what it took: there is something to give back.
LEMMA ArchiveLeaves ==
  ASSUME StreamTypeOK, ArchiveBooks, NEW r \in Reading, SlotMoves(r), NEW u \in Viewer,
         Holding(r), ~Holding(r)', served[r].user = u, CairnRelease(u)
  PROVE  ArchiveBooks' /\ slots' \in [Viewer -> Nat] /\ streaming' \in Nat
  <1>1. ArchiveHolders' = ArchiveHolders \ {r} /\ r \in ArchiveHolders
    BY OthersStay DEF ArchiveHolders
  <1>2. /\ Archived(u)' = Archived(u) \ {r} /\ r \in Archived(u)
        /\ \A v \in Viewer \ {u} : Archived(v)' = Archived(v)
    BY OthersStay DEF Archived
  <1>3. Cardinality(ArchiveHolders') = streaming - 1 /\ streaming - 1 \in Nat
    <2>1. Cardinality(ArchiveHolders \ {r}) = Cardinality(ArchiveHolders) - 1
          /\ Cardinality(ArchiveHolders) - 1 \in Nat
      BY <1>1, StreamSetsFinite, CountDown
    <2> QED
      BY <1>1, <2>1 DEF ArchiveBooks
  <1>4. Cardinality(Archived(u)') = slots[u] - 1 /\ slots[u] - 1 \in Nat /\ slots[u] # 0
    <2>1. Cardinality(Archived(u) \ {r}) = Cardinality(Archived(u)) - 1
          /\ Cardinality(Archived(u)) - 1 \in Nat /\ Cardinality(Archived(u)) # 0
      BY <1>2, StreamSetsFinite, CountDown
    <2> QED
      BY <1>2, <2>1 DEF ArchiveBooks
  <1>5. slots' = [slots EXCEPT ![u] = slots[u] - 1] /\ streaming' = streaming - 1
    BY <1>4 DEF CairnRelease
  <1>6. slots'[u] = slots[u] - 1 /\ \A v \in Viewer \ {u} : slots'[v] = slots[v]
    BY <1>5 DEF StreamTypeOK
  <1>7. slots[u] \in Nat /\ slots[u] <= GuardPerUser /\ streaming \in Nat /\ streaming <= GuardTotal
    BY DEF StreamTypeOK, ArchiveBooks
  <1>8. ASSUME NEW v \in Viewer \ {u} PROVE slots'[v] = Cardinality(Archived(v)') /\ slots'[v] <= GuardPerUser
    BY <1>2, <1>6, <1>8 DEF ArchiveBooks
  <1>9. slots'[u] = Cardinality(Archived(u)') /\ slots'[u] <= GuardPerUser
    BY <1>4, <1>6, <1>7, GuardLimits
  <1>10. streaming' = Cardinality(ArchiveHolders') /\ streaming' <= GuardTotal
    BY <1>3, <1>5, <1>7, GuardLimits
  <1>11. slots' \in [Viewer -> Nat] /\ streaming' \in Nat
    BY <1>3, <1>4, <1>5 DEF StreamTypeOK
  <1>12. \A v \in Viewer : slots'[v] = Cardinality(Archived(v)') /\ slots'[v] <= GuardPerUser
    BY <1>8, <1>9
  <1> QED
    BY <1>10, <1>11, <1>12 DEF ArchiveBooks

\* The same for the guard of the zips, which counts nobody who is free of it.
LEMMA ZipJoins ==
  ASSUME StreamTypeOK, ZipBooks, NEW r \in Reading, SlotMoves(r), NEW u \in Viewer,
         ~ZipsNow(r), ZipsNow(r)', served'[r].user = u, ~ZipFull(u),
         zips' = IF ZipFree(u) THEN zips ELSE [zips EXCEPT ![u] = @ + 1]
  PROVE  ZipBooks' /\ zips' \in [Viewer -> Nat]
  <1>1. /\ Zipping(u)' = Zipping(u) \cup {r} /\ r \notin Zipping(u)
        /\ \A v \in Viewer \ {u} : Zipping(v)' = Zipping(v)
    BY OthersStay DEF Zipping, ZipsNow
  <1>2. zips' \in [Viewer -> Nat] /\ \A v \in Viewer \ {u} : zips'[v] = zips[v]
    BY DEF StreamTypeOK
  <1>3. ASSUME ~ZipFree(u) PROVE zips'[u] = Cardinality(Zipping(u)') /\ zips'[u] <= ZipsPerUser
    <2>1. zips[u] \in Nat /\ zips[u] = Cardinality(Zipping(u)) /\ zips[u] < ZipsPerUser
      BY <1>3, StreamAssumption DEF ZipBooks, ZipFull, StreamTypeOK
    <2>2. zips'[u] = zips[u] + 1
      BY <1>3 DEF StreamTypeOK
    <2>3. Cardinality(Zipping(u) \cup {r}) = Cardinality(Zipping(u)) + 1
      BY <1>1, StreamSetsFinite, CountUp
    <2> QED
      BY <1>1, <2>1, <2>2, <2>3, StreamAssumption
  <1>4. ASSUME NEW v \in Viewer \ {u}, ~ZipFree(v)
        PROVE  zips'[v] = Cardinality(Zipping(v)') /\ zips'[v] <= ZipsPerUser
    BY <1>1, <1>2, <1>4 DEF ZipBooks
  <1> QED
    BY <1>2, <1>3, <1>4 DEF ZipBooks, ZipFree

LEMMA ZipLeaves ==
  ASSUME StreamTypeOK, ZipBooks, NEW r \in Reading, SlotMoves(r), NEW u \in Viewer,
         ZipsNow(r), ~ZipsNow(r)', served[r].user = u, zips' = ZipRelease(u)
  PROVE  ZipBooks' /\ zips' \in [Viewer -> Nat]
  <1>1. /\ Zipping(u)' = Zipping(u) \ {r} /\ r \in Zipping(u)
        /\ \A v \in Viewer \ {u} : Zipping(v)' = Zipping(v)
    BY OthersStay DEF Zipping, ZipsNow
  <1>2. CASE ZipFree(u)
    BY <1>1, <1>2 DEF ZipRelease, ZipBooks, ZipFree, StreamTypeOK
  <1>3. CASE ~ZipFree(u)
    <2>1. zips[u] \in Nat /\ zips[u] = Cardinality(Zipping(u)) /\ zips[u] <= ZipsPerUser
      BY <1>3 DEF ZipBooks, StreamTypeOK
    <2>2. Cardinality(Zipping(u) \ {r}) = Cardinality(Zipping(u)) - 1 /\ Cardinality(Zipping(u)) - 1 \in Nat
      BY <1>1, StreamSetsFinite, CountDown
    <2>3. zips' = [zips EXCEPT ![u] = zips[u] - 1]
      BY <1>3 DEF ZipRelease
    <2>4. zips'[u] = zips[u] - 1 /\ \A v \in Viewer \ {u} : zips'[v] = zips[v]
      BY <2>3 DEF StreamTypeOK
    <2>5. zips'[u] = Cardinality(Zipping(u)') /\ zips'[u] <= ZipsPerUser
      BY <1>1, <2>1, <2>2, <2>4, StreamAssumption
    <2>6. zips' \in [Viewer -> Nat]
      BY <2>1, <2>2, <2>3 DEF StreamTypeOK
    <2>7. ASSUME NEW v \in Viewer \ {u}, ~ZipFree(v)
          PROVE  zips'[v] = Cardinality(Zipping(v)') /\ zips'[v] <= ZipsPerUser
      BY <1>1, <2>4, <2>7 DEF ZipBooks
    <2> QED
      BY <2>5, <2>6, <2>7 DEF ZipBooks, ZipFree
  <1> QED
    BY <1>2, <1>3


StreamSteps == {"idle", "node", "remember", "object", "remote", "guard", "archive",
                "nzb", "zipguard", "body"}

\* Where slot r is after a step, with what it serves then.
WellMoved(r) ==
  /\ step'[r] \in StreamSteps
  /\ served'[r] \in StreamRequests \cup {NoRequest}
  /\ (step'[r] = "idle") <=> (served'[r] = NoRequest)
  /\ step'[r] \in {"guard", "archive"} => served'[r].kind = "cairn"
  /\ step'[r] = "nzb" => served'[r].kind = "usenet"
  /\ step'[r] = "remote" => served'[r].kind = "byos"
  /\ step'[r] = "zipguard" => Guarded(served'[r])
  /\ step'[r] = "body" /\ served'[r].kind = "cairn" => served'[r].get

\* A slot that moves keeps the types of the requests, and what its new stage says is served.
LEMMA SlotTypes ==
  ASSUME StreamTypeOK, HandlerInv, NEW r \in Reading, SlotMoves(r), WellMoved(r)
  PROVE  /\ HandlerInv'
         /\ served' \in [Reading -> StreamRequests \cup {NoRequest}]
         /\ step' \in [Reading -> StreamSteps]
         /\ \A x \in Reading : (step'[x] = "idle") <=> (served'[x] = NoRequest)
  <1>1. served' \in [Reading -> StreamRequests \cup {NoRequest}] /\ step' \in [Reading -> StreamSteps]
    BY DEF StreamTypeOK, SlotMoves, StreamSteps, WellMoved
  <1>2. ASSUME NEW x \in Reading \ {r} PROVE step'[x] = step[x] /\ served'[x] = served[x]
    BY <1>2, OthersStay
  <1>3. \A x \in Reading : (step'[x] = "idle") <=> (served'[x] = NoRequest)
    BY <1>2 DEF StreamTypeOK, WellMoved
  <1>4. HandlerInv'
    BY <1>2 DEF HandlerInv, Guarded, WellMoved
  <1> QED
    BY <1>1, <1>3, <1>4

\* A request is answered, or goes on to a stage of its own kind.
LEMMA AnsweredMoves ==
  ASSUME StreamTypeOK, NEW r \in Reading, Answered(r)
  PROVE  SlotMoves(r) /\ step'[r] = "idle" /\ served'[r] = NoRequest /\ ~Holding(r)' /\ ~ZipsNow(r)'
  BY DEF StreamTypeOK, Answered, ServeStep, SlotMoves, Holding, ZipsNow

LEMMA GoesOn ==
  ASSUME StreamTypeOK, NEW r \in Reading, NEW s, ServeStep(r, s), UNCHANGED served
  PROVE  SlotMoves(r) /\ step'[r] = s /\ served'[r] = served[r]
  BY DEF StreamTypeOK, ServeStep, SlotMoves

\* A step outside the guards: it neither enters what they count nor leaves it.
LEMMA PassingKeeps ==
  ASSUME StreamIInv, NEW r \in Reading,
         \/ \E q \in StreamRequests : ServeRequest(r, q)
         \/ NodeLookUp(r) \/ NodeRemember(r) \/ ServeFile(r) \/ ServeBYOS(r) \/ UsenetOpen(r) \/ ServeZip(r)
  PROVE  StreamIInv'
  <1> USE DEF StreamIInv
  <1>1. step[r] \notin {"archive", "body"} /\ ~Holding(r) /\ ~ZipsNow(r)
    BY DEF ServeRequest, NodeLookUp, NodeRemember, ServeFile, ServeBYOS, UsenetOpen, ServeZip,
           Holding, ZipsNow
  <1>2. SlotMoves(r) /\ WellMoved(r) /\ ~Holding(r)' /\ ~ZipsNow(r)'
    <2>1. ASSUME Answered(r) PROVE SlotMoves(r) /\ WellMoved(r) /\ ~Holding(r)' /\ ~ZipsNow(r)'
      BY <2>1, AnsweredMoves DEF StreamSteps, WellMoved
    <2>2. ASSUME NEW q \in StreamRequests, ServeRequest(r, q) PROVE SlotMoves(r) /\ WellMoved(r) /\ ~Holding(r)' /\ ~ZipsNow(r)'
      <3>1. SlotMoves(r) /\ step'[r] = StageOf(q.kind) /\ served'[r] = q
        BY <2>2 DEF ServeRequest, ServeStep, SlotMoves, StreamTypeOK
      <3>2. q.kind \in Served /\ q # NoRequest
        BY DEF StreamRequests, StreamRequest, NoRequest, Served
      <3> QED
        BY <3>1, <3>2 DEF StageOf, StreamSteps, WellMoved, Served, Holding, ZipsNow
    <2>3. CASE NodeLookUp(r) \/ NodeRemember(r)
      <3>1. step[r] # "idle" /\ \E s \in {"object", "remember"} : ServeStep(r, s) /\ UNCHANGED served
        BY <2>3 DEF NodeLookUp, NodeRemember
      <3> QED
        BY <3>1, ARequest, GoesOn DEF StreamSteps, WellMoved, Holding, ZipsNow
    <2>4. CASE ServeFile(r) /\ ~Answered(r)
      BY <2>4, ARequest, GoesOn DEF ServeFile, StreamSteps, WellMoved, Holding, ZipsNow, Guarded
    <2>5. CASE ServeBYOS(r) /\ ~Answered(r)
      <3>1. served[r].kind = "byos" /\ step[r] # "idle"
        BY <2>5 DEF ServeBYOS, HandlerInv
      <3> QED
        BY <2>5, <3>1, ARequest, GoesOn DEF ServeBYOS, StreamSteps, WellMoved, Holding, ZipsNow, Guarded
    <2>6. CASE UsenetOpen(r) /\ ~Answered(r)
      <3>1. served[r].kind = "usenet" /\ step[r] # "idle"
        BY <2>6 DEF UsenetOpen, HandlerInv
      <3> QED
        BY <2>6, <3>1, ARequest, GoesOn DEF UsenetOpen, StreamSteps, WellMoved, Holding, ZipsNow, Guarded
    <2>7. CASE ServeZip(r) /\ ~Answered(r)
      BY <2>7, ARequest, GoesOn DEF ServeZip, StreamSteps, WellMoved, Holding, ZipsNow
    <2> QED
      BY <2>1, <2>2, <2>3, <2>4, <2>5, <2>6, <2>7
  <1>3. UNCHANGED <<guardVars, warmVars>>
    BY DEF ServeRequest, NodeLookUp, NodeRemember, ServeFile, ServeBYOS, UsenetOpen, ServeZip
  <1>4. ArchiveBooks' /\ ZipBooks'
    BY <1>1, <1>2, <1>3, ArchiveStays, ZipStays DEF guardVars
  <1>5. /\ HandlerInv'
        /\ served' \in [Reading -> StreamRequests \cup {NoRequest}]
        /\ step' \in [Reading -> StreamSteps]
        /\ \A x \in Reading : (step'[x] = "idle") <=> (served'[x] = NoRequest)
    BY <1>2, SlotTypes
  <1>6. /\ found' \in [Reading -> Place \cup {Nowhere}]
        /\ nodeSeen' \in [Content -> Place \cup {Nowhere, Unseen}]
        /\ rowNode' \in [Content -> Place \cup {Nowhere}]
    <2>1. step[r] \in {"node", "remember"} => served[r].hash \in Content
      BY ARequest DEF StreamRequests, StreamRequest
    <2> QED
      BY <2>1 DEF StreamTypeOK, ServeRequest, NodeLookUp, NodeRemember, ServeFile, ServeBYOS,
                  UsenetOpen, ServeZip, nodeVars
  <1> QED
    BY <1>3, <1>4, <1>5, <1>6 DEF StreamTypeOK, StreamSteps, guardVars, warmVars


LEMMA CairnAcquireKeeps ==
  ASSUME StreamIInv, NEW r \in Reading, CairnAcquire(r)
  PROVE  StreamIInv'
  <1> USE DEF StreamIInv
  <1>1. PICK u \in Viewer : u = served[r].user
    BY ARequest DEF CairnAcquire
  <1>2. /\ served[r].kind = "cairn" /\ served[r] \in StreamRequests /\ served[r] # NoRequest
        /\ ~Holding(r) /\ ~ZipsNow(r)
    BY ARequest DEF CairnAcquire, HandlerInv, Holding, ZipsNow
  <1>3. UNCHANGED <<found, zips, warmVars, nodeVars>>
    BY DEF CairnAcquire
  <1>4. /\ SlotMoves(r) /\ WellMoved(r) /\ ~ZipsNow(r)'
        /\ ArchiveBooks' /\ slots' \in [Viewer -> Nat] /\ streaming' \in Nat
    <2>1. CASE Answered(r) /\ UNCHANGED <<slots, streaming>>
      BY <1>2, <2>1, AnsweredMoves, ArchiveStays DEF WellMoved, StreamSteps, StreamTypeOK
    <2>2. CASE /\ ~served[r].get /\ ServeStep(r, "archive") /\ UNCHANGED <<served, slots, streaming>>
      <3>1. SlotMoves(r) /\ step'[r] = "archive" /\ served'[r] = served[r]
        BY <2>2, GoesOn
      <3>2. ~Holding(r)' /\ ~ZipsNow(r)' /\ WellMoved(r)
        BY <1>2, <2>2, <3>1 DEF Holding, ZipsNow, WellMoved, StreamSteps
      <3> QED
        BY <1>2, <2>2, <3>1, <3>2, ArchiveStays DEF StreamTypeOK
    <2>3. CASE /\ served[r].get /\ ~GuardFull(u) /\ ServeStep(r, "archive") /\ UNCHANGED served
               /\ slots' = [slots EXCEPT ![u] = @ + 1] /\ streaming' = streaming + 1
      <3>1. SlotMoves(r) /\ step'[r] = "archive" /\ served'[r] = served[r]
        BY <2>3, GoesOn
      <3>2. Holding(r)' /\ ~ZipsNow(r)' /\ WellMoved(r)
        BY <1>2, <2>3, <3>1 DEF Holding, ZipsNow, WellMoved, StreamSteps
      <3>3. ArchiveBooks'
        BY <1>1, <1>2, <2>3, <3>1, <3>2, ArchiveJoins
      <3> QED
        BY <2>3, <3>1, <3>2, <3>3 DEF StreamTypeOK
    <2> QED
      BY <1>1, <2>1, <2>2, <2>3 DEF CairnAcquire
  <1>5. ZipBooks'
    BY <1>2, <1>3, <1>4, ZipStays
  <1> QED
    BY <1>3, <1>4, <1>5, SlotTypes DEF StreamTypeOK, StreamSteps, warmVars, nodeVars

\* Whichever way the opening ends, the slot is kept for the body or given back.
LEMMA CairnOpenGivesBack ==
  ASSUME StreamIInv, NEW r \in Reading, CairnOpen(r)
  PROVE  StreamIInv'
  <1> USE DEF StreamIInv
  <1>1. PICK u \in Viewer : u = served[r].user
    BY ARequest DEF CairnOpen
  <1>2. /\ served[r].kind = "cairn" /\ served[r] \in StreamRequests /\ served[r] # NoRequest
        /\ (Holding(r) <=> served[r].get) /\ ~ZipsNow(r)
    BY ARequest DEF CairnOpen, HandlerInv, Holding, ZipsNow
  <1>3. UNCHANGED <<found, zips, warmVars, nodeVars>>
    BY DEF CairnOpen
  <1>4. /\ SlotMoves(r) /\ WellMoved(r) /\ ~ZipsNow(r)'
        /\ ArchiveBooks' /\ slots' \in [Viewer -> Nat] /\ streaming' \in Nat
    <2>1. CASE Answered(r) /\ ~served[r].get /\ UNCHANGED <<slots, streaming>>
      BY <1>2, <2>1, AnsweredMoves, ArchiveStays DEF WellMoved, StreamSteps, StreamTypeOK
    <2>2. CASE Answered(r) /\ served[r].get /\ CairnRelease(u)
      BY <1>1, <1>2, <2>2, AnsweredMoves, ArchiveLeaves DEF WellMoved, StreamSteps
    <2>3. CASE served[r].get /\ ServeStep(r, "body") /\ UNCHANGED <<served, slots, streaming>>
      <3>1. SlotMoves(r) /\ step'[r] = "body" /\ served'[r] = served[r]
        BY <2>3, GoesOn
      <3>2. Holding(r)' /\ ~ZipsNow(r)' /\ WellMoved(r)
        BY <1>2, <2>3, <3>1 DEF Holding, ZipsNow, Guarded, WellMoved, StreamSteps
      <3> QED
        BY <1>2, <2>3, <3>1, <3>2, ArchiveStays DEF StreamTypeOK
    <2> QED
      BY <1>1, <2>1, <2>2, <2>3 DEF CairnOpen
  <1>5. ZipBooks'
    BY <1>2, <1>3, <1>4, ZipStays
  <1> QED
    BY <1>3, <1>4, <1>5, SlotTypes DEF StreamTypeOK, StreamSteps, warmVars, nodeVars

LEMMA ZipAcquireKeeps ==
  ASSUME StreamIInv, NEW r \in Reading, ZipAcquire(r)
  PROVE  StreamIInv'
  <1> USE DEF StreamIInv
  <1>1. PICK u \in Viewer : u = served[r].user
    BY ARequest DEF ZipAcquire
  <1>2. /\ served[r] \in StreamRequests /\ served[r] # NoRequest /\ Guarded(served[r])
        /\ ~Holding(r) /\ ~ZipsNow(r)
    BY ARequest DEF ZipAcquire, HandlerInv, Holding, ZipsNow
  <1>3. UNCHANGED <<found, slots, streaming, nodeVars>>
    BY DEF ZipAcquire
  <1>4. /\ SlotMoves(r) /\ WellMoved(r) /\ ~Holding(r)'
        /\ ZipBooks' /\ zips' \in [Viewer -> Nat]
        /\ warm' \in [Reading -> 0..Warmers] /\ index' \in [Reading -> 0..ZipFiles]
    <2>1. CASE Answered(r) /\ UNCHANGED <<zips, warmVars>>
      BY <1>2, <2>1, AnsweredMoves, ZipStays DEF WellMoved, StreamSteps, StreamTypeOK, warmVars
    <2>2. CASE ~ZipFull(u)
      <3>1. /\ zips' = IF ZipFree(u) THEN zips ELSE [zips EXCEPT ![u] = @ + 1]
            /\ ServeStep(r, "body") /\ UNCHANGED <<served, index>>
            /\ warm' = [warm EXCEPT ![r] = Warmers] \/ warm' = warm
        BY <1>1, <2>2 DEF ZipAcquire, warmVars
      <3>2. SlotMoves(r) /\ step'[r] = "body" /\ served'[r] = served[r]
        BY <3>1, GoesOn
      <3>3. ~Holding(r)' /\ ZipsNow(r)' /\ WellMoved(r)
        BY <1>2, <3>2 DEF Holding, ZipsNow, Guarded, WellMoved, StreamSteps
      <3>4. ZipBooks' /\ zips' \in [Viewer -> Nat]
        BY <1>1, <1>2, <2>2, <3>1, <3>2, <3>3, ZipJoins
      <3>5. warm' \in [Reading -> 0..Warmers] /\ index' \in [Reading -> 0..ZipFiles]
        BY <3>1, StreamAssumption DEF StreamTypeOK
      <3> QED
        BY <3>2, <3>3, <3>4, <3>5
    <2> QED
      BY <1>1, <2>1, <2>2 DEF ZipAcquire
  <1>5. ArchiveBooks'
    BY <1>2, <1>3, <1>4, ArchiveStays
  <1> QED
    BY <1>3, <1>4, <1>5, SlotTypes DEF StreamTypeOK, StreamSteps, nodeVars

\* The end of a body, for whatever reason, gives back the one guard it was under.
LEMMA BodyOverKeeps ==
  ASSUME StreamIInv, NEW r \in Reading, BodyOver(r)
  PROVE  StreamIInv'
  <1> USE DEF StreamIInv
  <1>1. PICK u \in Viewer : u = served[r].user
    BY ARequest DEF BodyOver
  <1>2. /\ served[r] \in StreamRequests /\ (Holding(r) <=> served[r].kind = "cairn")
        /\ (ZipsNow(r) <=> Guarded(served[r]))
    BY ARequest DEF BodyOver, HandlerInv, Holding, ZipsNow
  <1>3. SlotMoves(r) /\ WellMoved(r) /\ ~Holding(r)' /\ ~ZipsNow(r)' /\ UNCHANGED <<found, warmVars, nodeVars>>
    BY AnsweredMoves DEF BodyOver, WellMoved, StreamSteps
  <1>4. ArchiveBooks' /\ slots' \in [Viewer -> Nat] /\ streaming' \in Nat
    <2>1. CASE served[r].kind = "cairn"
      BY <1>1, <1>2, <1>3, <2>1, ArchiveLeaves DEF BodyOver
    <2>2. CASE served[r].kind # "cairn"
      BY <1>2, <1>3, <2>2, ArchiveStays DEF BodyOver, StreamTypeOK
    <2> QED
      BY <2>1, <2>2
  <1>5. ZipBooks' /\ zips' \in [Viewer -> Nat]
    <2>1. CASE Guarded(served[r])
      BY <1>1, <1>2, <1>3, <2>1, ZipLeaves DEF BodyOver
    <2>2. CASE ~Guarded(served[r])
      BY <1>2, <1>3, <2>2, ZipStays DEF BodyOver, StreamTypeOK
    <2> QED
      BY <2>1, <2>2
  <1> QED
    BY <1>3, <1>4, <1>5, SlotTypes DEF StreamTypeOK, StreamSteps, warmVars, nodeVars

\* The prewarm goroutines and the jobs that move are outside the guards.
LEMMA AsideKeeps ==
  ASSUME StreamIInv,
         (\E r \in Reading : Prewarm(r)) \/ (\E h \in Content : RowMoves(h)) \/ UNCHANGED streamVars
  PROVE  StreamIInv'
  <1>1. UNCHANGED <<requestVars, guardVars>>
    BY DEF Prewarm, RowMoves, streamVars
  <1>2. HandlerInv' /\ ArchiveBooks' /\ ZipBooks'
    BY <1>1 DEF StreamIInv, HandlerInv, ArchiveBooks, ZipBooks, ArchiveHolders, Archived, Zipping,
                Holding, Guarded, ZipFree, requestVars, guardVars
  <1>3. /\ warm' \in [Reading -> 0..Warmers] /\ index' \in [Reading -> 0..ZipFiles]
        /\ nodeSeen' \in [Content -> Place \cup {Nowhere, Unseen}]
        /\ rowNode' \in [Content -> Place \cup {Nowhere}]
    <2> USE DEF StreamIInv, StreamTypeOK
    <2>1. warm' \in [Reading -> 0..Warmers] /\ index' \in [Reading -> 0..ZipFiles]
      BY StreamAssumption DEF Prewarm, RowMoves, streamVars, warmVars
    <2>2. nodeSeen' \in [Content -> Place \cup {Nowhere, Unseen}]
          /\ rowNode' \in [Content -> Place \cup {Nowhere}]
      BY DEF Prewarm, RowMoves, streamVars, nodeVars
    <2> QED
      BY <2>1, <2>2
  <1> QED
    BY <1>1, <1>2, <1>3 DEF StreamIInv, StreamTypeOK, requestVars, guardVars

\* No request is let in beyond a limit, and none leaves without giving back (streamlimit.go).
LEMMA StreamStepKeeps == StreamIInv /\ [StreamNext]_streamVars => StreamIInv'
  BY PassingKeeps, CairnAcquireKeeps, CairnOpenGivesBack, ZipAcquireKeeps, BodyOverKeeps, AsideKeeps
  DEF StreamNext, StreamStep

-----------------------------------------------------------------------------
(* The archive of a release.                                               *)

CairnTypes ==
  /\ archive \in [made : BOOLEAN, nzb : Nat, files : BOOLEAN] /\ moved \in Nat /\ posts \in Nat
  /\ posting \in [Posting -> [at : Keeper \union {NoKeeper}, nzb : Nat,
                              stage : {"idle", "posting", "posted", "stored"}]]
  /\ backfill \in [Keeper -> [stage : {"off", "listing", "upload", "clear"}, nzb : Nat]]

\* A goroutine that posts holds the mark of its service, alone.
MarkedInv ==
  /\ \A p \in Posting : posting[p].at # NoKeeper => posting[p].at \in archiving
  /\ \A p \in Posting : posting[p].stage # "idle" => posting[p].at # NoKeeper
  /\ OneArchiver

\* A posting has its NZB until that is stored; what is stored stays, and a row is cleared only
\* when it is.
NzbInv ==
  /\ \A p \in Posting : posting[p].stage \in {"posting", "posted"} => posting[p].nzb # 0
  /\ \A p \in Posting : posting[p].stage = "stored" => posting[p].nzb # 0 \/ moved # 0
  /\ \A n \in Keeper : backfill[n].stage = "upload" => backfill[n].nzb # 0
  /\ \A n \in Keeper : backfill[n].stage = "clear" => moved # 0

CairnIInv == CairnTypes /\ MarkedInv /\ NzbInv /\ ArchiveReadable

LEMMA CairnInitially == CairnInit => CairnIInv
  <1> SUFFICES ASSUME CairnInit PROVE CairnIInv
    OBVIOUS
  <1>1. /\ archive \in {NoArchive, OldArchive} /\ posts = archive.nzb /\ moved = 0 /\ archiving = {}
        /\ posting = [p \in Posting |-> NotPosting] /\ backfill = [n \in Keeper |-> NoBackfill]
    BY DEF CairnInit
  <1>2. CairnTypes /\ ArchiveReadable
    <2>1. archive \in [made : BOOLEAN, nzb : Nat, files : BOOLEAN] /\ (archive.made => archive.nzb # 0)
      <3>1. CASE archive = NoArchive
        BY <3>1 DEF NoArchive
      <3>2. CASE archive = OldArchive
        BY <3>2 DEF OldArchive
      <3> QED
        BY <1>1, <3>1, <3>2
    <2>2. posts \in Nat
      BY <1>1, <2>1
    <2> QED
      BY <1>1, <2>1, <2>2 DEF CairnTypes, NotPosting, NoBackfill, ArchiveReadable, ArchiveNZB
  <1>3. MarkedInv /\ NzbInv
    BY <1>1 DEF MarkedInv, NzbInv, OneArchiver, NotPosting, NoBackfill
  <1> QED
    BY <1>2, <1>3 DEF CairnIInv

\* A goroutine takes the mark and begins to post.
LEMMA ArchiveBeginsKeeps ==
  ASSUME CairnIInv, NEW p \in Posting, NEW n \in Keeper, ArchiveBegins(p, n),
         UNCHANGED <<archive, moved, backfill>>
  PROVE  CairnIInv'
  <1>t. CairnTypes /\ MarkedInv /\ NzbInv /\ ArchiveReadable
    BY DEF CairnIInv
  <1>1. /\ n \notin archiving /\ archiving' = archiving \union {n} /\ posts' = posts + 1
        /\ posting' = [posting EXCEPT ![p] = [at |-> n, stage |-> "posting", nzb |-> posts']]
    BY DEF ArchiveBegins
  <1>2. posts' \in Nat /\ posts' # 0
    BY <1>1, <1>t DEF CairnTypes
  <1>3. CairnTypes'
    BY <1>1, <1>2, <1>t DEF CairnTypes
  <1>4. posting'[p] = [at |-> n, stage |-> "posting", nzb |-> posts']
    BY <1>1, <1>t DEF CairnTypes
  <1>5. \A q \in Posting : q # p => posting'[q] = posting[q]
    BY <1>1, <1>t DEF CairnTypes
  <1>6. \A q \in Posting : q # p => posting[q].at # n
    BY <1>1, <1>t, CairnAssumption DEF MarkedInv
  <1>7. MarkedInv'
    BY <1>1, <1>4, <1>5, <1>6, <1>t, CairnAssumption DEF MarkedInv, OneArchiver
  <1>8. NzbInv'
    BY <1>2, <1>4, <1>5, <1>t DEF NzbInv
  <1> QED
    BY <1>3, <1>7, <1>8, <1>t DEF CairnIInv, ArchiveReadable, ArchiveNZB

\* A goroutine ends, its mark given back, the archive readable.
LEMMA ArchiveEndsKeeps ==
  ASSUME CairnIInv, NEW p \in Posting, posting[p].stage # "idle", ArchiveEnds(p), UNCHANGED <<moved, backfill, posts>>,
         archive' \in [made : BOOLEAN, nzb : Nat, files : BOOLEAN], ArchiveReadable'
  PROVE  CairnIInv'
  <1>t. CairnTypes /\ MarkedInv /\ NzbInv
    BY DEF CairnIInv
  <1>1. archiving' = archiving \ {posting[p].at} /\ posting' = [posting EXCEPT ![p] = NotPosting]
    BY DEF ArchiveEnds
  <1>2. posting'[p] = NotPosting /\ \A q \in Posting : q # p => posting'[q] = posting[q]
    BY <1>1, <1>t DEF CairnTypes
  <1>3. CairnTypes'
    BY <1>1, <1>t DEF CairnTypes, NotPosting
  <1>4. MarkedInv'
    BY <1>1, <1>2, <1>t DEF MarkedInv, OneArchiver, NotPosting
  <1>5. NzbInv'
    BY <1>2, <1>t DEF NzbInv, NotPosting
  <1> QED
    BY <1>3, <1>4, <1>5 DEF CairnIInv

LEMMA CairnStepKeeps ==
  ASSUME CairnIInv, [CairnNext]_cairnVars
  PROVE  CairnIInv'
  <1>t. CairnTypes /\ MarkedInv /\ NzbInv /\ ArchiveReadable
    BY DEF CairnIInv
  <1>u. ASSUME UNCHANGED <<archive, moved, posting, archiving, backfill, posts>> PROVE CairnIInv'
    BY <1>u, <1>t DEF CairnIInv, CairnTypes, MarkedInv, OneArchiver, NzbInv, ArchiveReadable, ArchiveNZB
  <1>1. CASE UNCHANGED cairnVars
    BY <1>1, <1>u DEF cairnVars
  <1>2. ASSUME NEW n \in Keeper, CacheChanges(n) \/ WishArrives(n) \/ ReconcileCairns(n)
        PROVE  CairnIInv'
    <2>1. CASE UNCHANGED <<archive, moved, posting, archiving, backfill, posts>>
      BY <2>1, <1>u
    <2>2. CASE ~UNCHANGED <<archive, moved, posting, archiving, backfill, posts>>
      <3>1. /\ \E p \in Posting : ArchiveBegins(p, n)
            /\ UNCHANGED <<archive, moved, backfill>>
        BY <1>2, <2>2 DEF CacheChanges, WishArrives, ReconcileCairns
      <3> QED
        BY <3>1, ArchiveBeginsKeeps
    <2> QED
      BY <2>1, <2>2
  <1>3. ASSUME NEW n \in Keeper, CairnRestarts(n)
        PROVE  CairnIInv'
    <2>1. /\ posting' = [p \in Posting |-> IF posting[p].at = n THEN NotPosting ELSE posting[p]]
          /\ archiving' = archiving \ {n}
          /\ backfill' = [backfill EXCEPT ![n] = IF n \in newer' THEN Listing ELSE NoBackfill]
          /\ UNCHANGED <<archive, moved, posts>>
      BY <1>3 DEF CairnRestarts
    <2>2. CairnTypes'
      BY <2>1, <1>t DEF CairnTypes, NotPosting, Listing, NoBackfill
    <2>3. MarkedInv'
      BY <2>1, <1>t, CairnAssumption DEF MarkedInv, OneArchiver, NotPosting, CairnTypes
    <2>4. NzbInv'
      BY <2>1, <1>t DEF NzbInv, CairnTypes, NotPosting, Listing, NoBackfill
    <2> QED
      BY <2>1, <2>2, <2>3, <2>4, <1>t DEF CairnIInv, ArchiveReadable, ArchiveNZB
  <1>4. ASSUME NEW n \in Keeper, BackfillLists(n) \/ BackfillUploads(n) \/ BackfillClears(n)
        PROVE  CairnIInv'
    <2>1. UNCHANGED <<posting, archiving, posts>> /\ (moved # 0 => moved' # 0) /\ moved' \in Nat
      BY <1>4, <1>t DEF BackfillLists, BackfillUploads, BackfillClears, NzbInv, CairnTypes
    <2>2. MarkedInv'
      BY <2>1, <1>t DEF MarkedInv, OneArchiver
    <2>3. CASE BackfillLists(n)
      <3>1. /\ UNCHANGED <<archive, moved>>
            /\ backfill' = [backfill EXCEPT ![n] = IF archive.nzb = 0 THEN NoBackfill
                                                   ELSE [stage |-> "upload", nzb |-> archive.nzb]]
        BY <2>3 DEF BackfillLists
      <3>2. CairnTypes' /\ NzbInv'
        BY <2>1, <3>1, <1>t DEF CairnTypes, NzbInv, NoBackfill
      <3> QED
        BY <2>2, <3>1, <3>2, <1>t DEF CairnIInv, ArchiveReadable, ArchiveNZB
    <2>4. CASE BackfillUploads(n)
      <3>1. /\ UNCHANGED archive /\ backfill[n].nzb # 0
            /\ \/ moved' # 0 /\ backfill' = [backfill EXCEPT ![n] = Uploaded]
               \/ moved' = moved /\ backfill' = [backfill EXCEPT ![n] = Listing]
        BY <2>4, <1>t DEF BackfillUploads, NzbInv
      <3>2. CairnTypes' /\ NzbInv'
        BY <2>1, <3>1, <1>t DEF CairnTypes, NzbInv, Listing, Uploaded
      <3> QED
        BY <2>1, <2>2, <3>1, <3>2, <1>t DEF CairnIInv, ArchiveReadable, ArchiveNZB
    <2>5. CASE BackfillClears(n)
      <3>1. /\ UNCHANGED moved /\ moved # 0 /\ archive' = [archive EXCEPT !.nzb = 0]
            /\ backfill' = [backfill EXCEPT ![n] = Listing]
        BY <2>5, <1>t DEF BackfillClears, Uploaded, NzbInv
      <3>2. CairnTypes' /\ NzbInv'
        BY <2>1, <3>1, <1>t DEF CairnTypes, NzbInv, Listing
      <3> QED
        BY <2>2, <3>1, <3>2 DEF CairnIInv, ArchiveReadable, ArchiveNZB
    <2> QED
      BY <1>4, <2>3, <2>4, <2>5
  <1>5. ASSUME NEW u \in Wisher, CairnCreate(u) \/ CairnAdd(u) \/ CairnDelete(u) \/ CairnRestore(u)
        PROVE  CairnIInv'
    BY <1>5, <1>u DEF CairnCreate, CairnAdd, CairnDelete, CairnRestore
  <1>6. ASSUME NEW p \in Posting, CairnStep(p) \/ ArchiveLost(p)
        PROVE  CairnIInv'
    <2>1. CASE ArchivePosts(p)
      <3>1. /\ posting[p].stage = "posting" /\ UNCHANGED <<archive, moved, backfill, posts>>
            /\ \/ posting' = [posting EXCEPT ![p].stage = "posted"] /\ UNCHANGED archiving
               \/ ArchiveEnds(p)
        BY <2>1 DEF ArchivePosts
      <3>2. ArchiveReadable' /\ archive' \in [made : BOOLEAN, nzb : Nat, files : BOOLEAN]
        BY <3>1, <1>t DEF ArchiveReadable, ArchiveNZB, CairnTypes
      <3>3. CASE ArchiveEnds(p)
        BY <3>1, <3>2, <3>3, ArchiveEndsKeeps
      <3>4. CASE posting' = [posting EXCEPT ![p].stage = "posted"] /\ UNCHANGED archiving
        <4>1. \A q \in Posting :
                posting'[q].at = posting[q].at /\ posting'[q].nzb = posting[q].nzb /\
                  posting'[q].stage = IF q = p THEN "posted" ELSE posting[q].stage
          BY <3>4, <1>t DEF CairnTypes
        <4>2. CairnTypes'
          BY <3>1, <3>4, <1>t DEF CairnTypes
        <4>3. MarkedInv' /\ NzbInv'
          BY <3>1, <3>4, <4>1, <1>t DEF MarkedInv, OneArchiver, NzbInv
        <4> QED
          BY <3>2, <4>2, <4>3 DEF CairnIInv
      <3> QED
        BY <3>1, <3>3, <3>4
    <2>2. CASE ArchiveStores(p)
      <3>1. /\ posting[p].stage = "posted" /\ UNCHANGED <<archive, archiving, backfill, posts>>
            /\ moved' = (IF posting[p].at \in newer THEN posting[p].nzb ELSE moved)
            /\ posting' = [posting EXCEPT ![p].stage = "stored",
                             ![p].nzb = IF posting[p].at \in newer THEN 0 ELSE @]
        BY <2>2 DEF ArchiveStores
      <3>2. \A q \in Posting : q # p => posting'[q] = posting[q]
        BY <3>1, <1>t DEF CairnTypes
      <3>3. /\ posting'[p].at = posting[p].at /\ posting'[p].stage = "stored"
            /\ posting'[p].nzb = IF posting[p].at \in newer THEN 0 ELSE posting[p].nzb
        BY <3>1, <1>t DEF CairnTypes
      <3>4. moved' \in Nat /\ (moved # 0 => moved' # 0) /\ (posting'[p].nzb # 0 \/ moved' # 0)
        BY <3>1, <3>3, <1>t DEF CairnTypes, NzbInv
      <3>5. CairnTypes'
        <4>1. posting' \in [Posting -> [at : Keeper \union {NoKeeper}, nzb : Nat,
                                       stage : {"idle", "posting", "posted", "stored"}]]
          <5> DEFINE v == [at |-> posting[p].at, stage |-> "stored",
                           nzb |-> IF posting[p].at \in newer THEN 0 ELSE posting[p].nzb]
          <5>1. posting[p] \in [at : Keeper \union {NoKeeper}, nzb : Nat,
                                stage : {"idle", "posting", "posted", "stored"}]
            BY <1>t DEF CairnTypes
          <5>2. v \in [at : Keeper \union {NoKeeper}, nzb : Nat, stage : {"idle", "posting", "posted", "stored"}]
            BY <5>1
          <5>3. posting'[p] = v
            <6>1. posting' = [posting EXCEPT ![p] = [posting[p] EXCEPT !.stage = "stored",
                                 !.nzb = IF posting[p].at \in newer THEN 0 ELSE posting[p].nzb]]
              BY <3>1, <1>t DEF CairnTypes
            <6> QED
              BY <6>1, <5>1, <1>t DEF CairnTypes
          <5>4. posting' = [q \in Posting |-> posting'[q]]
            BY <3>1, <1>t DEF CairnTypes
          <5> QED
            BY <3>2, <5>2, <5>3, <5>4, <1>t DEF CairnTypes
        <4> QED
          BY <3>1, <3>4, <4>1, <1>t DEF CairnTypes
      <3>6. MarkedInv'
        <4>1. \A q \in Posting : posting'[q].at = posting[q].at
          BY <3>2, <3>3
        <4>2. posting[p].at # NoKeeper
          BY <3>1, <1>t DEF MarkedInv
        <4>3. OneArchiver'
          BY <4>1, <1>t DEF MarkedInv, OneArchiver
        <4> QED
          <5>1. archiving' = archiving
            BY <3>1
          <5>2. \A q \in Posting : posting'[q].stage # "idle" => posting'[q].at # NoKeeper
            BY <3>2, <4>1, <4>2, <1>t DEF MarkedInv
          <5>3. \A q \in Posting : posting'[q].at # NoKeeper => posting'[q].at \in archiving'
            BY <5>1, <4>1, <1>t DEF MarkedInv
          <5> QED
            BY <5>2, <5>3, <4>3 DEF MarkedInv
      <3>7. NzbInv'
        BY <3>1, <3>2, <3>3, <3>4, <1>t DEF NzbInv
      <3> QED
        BY <3>1, <3>4, <3>5, <3>6, <3>7, <1>t DEF CairnIInv, ArchiveReadable, ArchiveNZB
    <2>3. CASE ArchiveRecords(p)
      <3>1. /\ posting[p].stage = "stored" /\ ArchiveEnds(p) /\ UNCHANGED <<moved, backfill, posts>>
            /\ archive' = [made |-> TRUE, nzb |-> posting[p].nzb, files |-> TRUE]
        BY <2>3 DEF ArchiveRecords
      <3>2. archive' \in [made : BOOLEAN, nzb : Nat, files : BOOLEAN]
        BY <3>1, <1>t DEF CairnTypes
      <3>3. ArchiveReadable'
        BY <3>1, <1>t DEF NzbInv, ArchiveReadable, ArchiveNZB
      <3> QED
        BY <3>1, <3>2, <3>3, ArchiveEndsKeeps
    <2>4. CASE ArchiveLost(p)
      <3>1. posting[p].stage # "idle" /\ ArchiveEnds(p) /\ UNCHANGED <<archive, moved, backfill, posts>>
        BY <2>4 DEF ArchiveLost
      <3>2. ArchiveReadable' /\ archive' \in [made : BOOLEAN, nzb : Nat, files : BOOLEAN]
        BY <3>1, <1>t DEF ArchiveReadable, ArchiveNZB, CairnTypes
      <3> QED
        BY <3>1, <3>2, ArchiveEndsKeeps
    <2> QED
      BY <1>6, <2>1, <2>2, <2>3, <2>4 DEF CairnStep
  <1>7. CASE BackfillSweep
    <2>1. UNCHANGED <<moved, posting, archiving, backfill, posts>> /\ archive' = [archive EXCEPT !.files = TRUE]
      BY <1>7 DEF BackfillSweep
    <2> QED
      BY <2>1, <1>t DEF CairnIInv, CairnTypes, MarkedInv, OneArchiver, NzbInv, ArchiveReadable, ArchiveNZB
  <1> QED
    BY <1>1, <1>2, <1>3, <1>4, <1>5, <1>6, <1>7 DEF CairnNext

\* For any services, users, postings and restarts: a row of the archive leads to an NZB at every
\* moment, and one goroutine of a service posts at a time (archive.go, cairn's main.go).
THEOREM CairnHolds == CairnSpec => [](ArchiveReadable /\ OneArchiver)
  <1>1. CairnIInv => ArchiveReadable /\ OneArchiver
    BY DEF CairnIInv, MarkedInv
  <1> QED
    BY <1>1, CairnInitially, CairnStepKeeps, PTL DEF CairnSpec

-----------------------------------------------------------------------------
(* A user's remotes.                                                       *)

\* The calls that make the remotes of a row, and whether those that are not to come have been
\* made and stand.
Steps(row) == {EnsureRemote(row)[i] : i \in DOMAIN EnsureRemote(row)}
InPlace(rem, row, todo) ==
  \A s \in Steps(row) : (\E k \in DOMAIN todo : todo[k] = s) \/ rem[s.name] = s.what

\* A request, and a transfer: what is still to be called belongs to its row, and a provider
\* that comes back is one alone.
AskFine(a) ==
  /\ a = [at |-> a.at, for |-> a.for, row |-> a.row, todo |-> a.todo, seen |-> a.seen]
  /\ a.row \in StorageRow
  /\ a.at = "ensure" => a.todo \in Seq(Steps(a.row))
  /\ a.at \in {"exchange", "read"} => a.row.pool = <<>> /\ a.row.prim \in Provider
MoveFine(m) ==
  /\ m = [at |-> m.at, row |-> m.row, todo |-> m.todo] /\ m.row \in StorageRow
  /\ m.at = "ensure" => m.todo \in Seq(Steps(m.row))

\* Who is alone finds in place what it, or another of the same row, has made.
AskMade(rem, a) ==
  /\ a.at = "ensure" => InPlace(rem, a.row, a.todo)
  /\ a.at = "check" => InPlace(rem, a.row, <<>>)
  /\ a.at = "save" /\ a.for # "rules" => a.seen = <<Promised(a.row)>>
MoveMade(rem, m) ==
  /\ m.at = "ensure" => InPlace(rem, m.row, m.todo)
  /\ m.at = "using" => InPlace(rem, m.row, <<>>)

StoredIsRow == stored = <<>> \/ \E row \in StorageRow : stored = <<row>>
StorageShapes ==
  /\ remote = [n \in RemoteName |-> remote[n]]
  /\ ask = [r \in Request |-> ask[r]] /\ move = [t \in Transfer |-> move[t]]

StorageIInv ==
  /\ StoredIsRow /\ StorageShapes
  /\ \A r \in Request : AskFine(ask[r])
  /\ \A t \in Transfer : MoveFine(move[t])
  /\ \A r \in Request \intersect alone : AskMade(remote, ask[r])
  /\ \A t \in Transfer \intersect alone : MoveMade(remote, move[t])

-----------------------------------------------------------------------------
LEMMA RowTypes ==
  ASSUME NEW row \in StorageRow
  PROVE  /\ row.prim \in Primary /\ row.pool \in Seq(Provider) /\ Len(row.pool) \in 0 .. MaxPool
         /\ Members(row) \in Seq(Primary) /\ Len(Members(row)) = Len(row.pool) + 1
         /\ row.pool = <<>> => Members(row) = <<row.prim>>
  <1>1. row.prim \in Primary /\ row.pool \in Seq(Provider) /\ Len(row.pool) <= MaxPool
    BY DEF StorageRow, Pools
  <1>2. row.pool \in Seq(Primary) /\ Len(row.pool) \in Nat
    BY <1>1 DEF Primary
  <1>3. <<row.prim>> \in Seq(Primary) /\ Len(<<row.prim>>) = 1
    BY <1>1
  <1>4. Members(row) \in Seq(Primary) /\ Len(Members(row)) = 1 + Len(row.pool)
    <2> DEFINE a == <<row.prim>>
               b == row.pool
    <2>1. a \in Seq(Primary) /\ b \in Seq(Primary) /\ Len(a) = 1
      BY <1>2, <1>3
    <2>2. Members(row) = a \o b
      BY DEF Members
    <2> HIDE DEF a, b
    <2>3. a \o b \in Seq(Primary) /\ Len(a \o b) = Len(a) + Len(b)
      BY <2>1, ConcatProperties
    <2> QED
      BY <2>1, <2>2, <2>3 DEF b
  <1>5. ASSUME row.pool = <<>> PROVE Members(row) = <<row.prim>>
    BY <1>5, <1>3 DEF Members
  <1>6. Len(row.pool) \in 0 .. MaxPool
    BY <1>1, <1>2, StorageAssumption
  <1>7. Len(Members(row)) = Len(row.pool) + 1
    BY <1>2, <1>4
  <1> QED
    BY <1>1, <1>4, <1>5, <1>6, <1>7

\* The members of a pool, named by their places.
PoolSteps(row) == {Creation(PoolName(i), StoreRemote(Members(row)[i])) : i \in 1 .. Len(Members(row))}
NamesOf(row) == [i \in 1 .. Len(Members(row)) |-> PoolName(i)]
Laid(row) == IF row.pass = Clear THEN {} ELSE {Creation(UserRemoteName, CryptRemote(UnionName, row.pass))}

LEMMA StepsOfOne ==
  ASSUME NEW row \in StorageRow, row.pool = <<>>
  PROVE  /\ Steps(row) = IF row.pass = Clear THEN {Creation(UserRemoteName, StoreRemote(row.prim))}
                         ELSE {Creation(SourceName, StoreRemote(row.prim)),
                               Creation(UserRemoteName, CryptRemote(SourceName, row.pass))}
         /\ EnsureRemote(row) \in Seq(Steps(row))
  <1>1. EnsureRemote(row) = UserRemote(row)
    BY DEF EnsureRemote
  <1>2. CASE row.pass = Clear
    <2> DEFINE a == Creation(UserRemoteName, StoreRemote(row.prim))
    <2>1. EnsureRemote(row) = <<a>>
      BY <1>1, <1>2 DEF UserRemote
    <2>2. Steps(row) = {a}
      BY <2>1 DEF Steps
    <2> QED
      BY <1>2, <2>1, <2>2
  <1>3. CASE row.pass # Clear
    <2> DEFINE a == Creation(SourceName, StoreRemote(row.prim))
               b == Creation(UserRemoteName, CryptRemote(SourceName, row.pass))
    <2>1. EnsureRemote(row) = <<a, b>>
      BY <1>1, <1>3 DEF UserRemote
    <2> HIDE DEF a, b
    <2>2. Steps(row) = {a, b}
      BY <2>1 DEF Steps
    <2>3. <<a, b>> \in Seq({a, b})
      OBVIOUS
    <2> QED
      BY <1>3, <2>1, <2>2, <2>3 DEF a, b
  <1> QED
    BY <1>2, <1>3

LEMMA StepsOfPool ==
  ASSUME NEW row \in StorageRow, row.pool # <<>>
  PROVE  /\ Steps(row) = PoolSteps(row) \union {Creation(UnionName, UnionRemote(NamesOf(row)))} \union Laid(row)
         /\ EnsureRemote(row) \in Seq(Steps(row))
  <1> DEFINE n == Len(Members(row))
             u == Creation(UnionName, UnionRemote(NamesOf(row)))
             c == Creation(UserRemoteName, CryptRemote(UnionName, row.pass))
             first == [i \in 1 .. n |-> Creation(PoolName(i), StoreRemote(Members(row)[i]))]
             last == IF row.pass = Clear THEN <<>> ELSE <<c>>
             S == PoolSteps(row) \union {u} \union Laid(row)
  <1>1. n \in Nat
    BY RowTypes
  <1>2. EnsureRemote(row) = first \o <<u>> \o last
    <2>1. \A i \in 1 .. n : NamesOf(row)[i] = PoolName(i)
      BY DEF NamesOf
    <2>2. DOMAIN NamesOf(row) = 1 .. n
      BY DEF NamesOf
    <2>3. [i \in DOMAIN NamesOf(row) |-> Creation(NamesOf(row)[i], StoreRemote(Members(row)[i]))] = first
      BY <2>1, <2>2
    <2>4. EnsureRemote(row) = UserUnion(row)
      BY DEF EnsureRemote
    <2>5. UserUnion(row) =
            [i \in DOMAIN NamesOf(row) |-> Creation(NamesOf(row)[i], StoreRemote(Members(row)[i]))]
              \o <<u>> \o last
      BY DEF UserUnion, NamesOf
    <2> QED
      BY <2>3, <2>4, <2>5
  <1> HIDE DEF n, u
  <1>3. first \in Seq(S) /\ Len(first) = n /\ \A i \in 1 .. n : first[i] = Creation(PoolName(i), StoreRemote(Members(row)[i]))
    <2>1. \A i \in 1 .. n : Creation(PoolName(i), StoreRemote(Members(row)[i])) \in S
      BY DEF PoolSteps, n
    <2> QED
      BY <1>1, <2>1
  <1>4. <<u>> \in Seq(S) /\ last \in Seq(S)
    <2>1. u \in S
      OBVIOUS
    <2>2. <<u>> \in Seq(S)
      <3> HIDE DEF S
      <3> QED
        BY <2>1
    <2>3. CASE row.pass = Clear
      <3>1. last = <<>>
        BY <2>3
      <3> HIDE DEF S, last
      <3> QED
        BY <2>2, <3>1
    <2>4. CASE row.pass # Clear
      <3>1. last = <<c>> /\ c \in S
        BY <2>4 DEF Laid
      <3> HIDE DEF S, last, c
      <3> QED
        BY <2>2, <3>1
    <2> QED
      BY <2>3, <2>4
  <1>5. PoolSteps(row) = {first[i] : i \in 1 .. n}
    BY <1>3 DEF PoolSteps, n
  <1>6. Laid(row) = {last[i] : i \in DOMAIN last}
    <2>1. CASE row.pass = Clear
      BY <2>1 DEF Laid
    <2>2. CASE row.pass # Clear
      BY <2>2 DEF Laid
    <2> QED
      BY <2>1, <2>2
  <1> HIDE DEF first, last, S
  <1>7. EnsureRemote(row) \in Seq(S)
    BY <1>2, <1>3, <1>4
  <1>8. Steps(row) = S
    <2> DEFINE e == first \o <<u>> \o last
    <2>1. DOMAIN e = 1 .. n + 1 + Len(last) /\ Len(last) \in Nat /\ DOMAIN last = 1 .. Len(last)
      BY <1>1, <1>3, <1>4
    <2>2. \A i \in 1 .. n : e[i] = first[i]
      BY <1>1, <1>3, <1>4
    <2>3. e[n + 1] = u
      BY <1>1, <1>3, <1>4
    <2>4. \A i \in 1 .. Len(last) : e[n + 1 + i] = last[i]
      BY <1>1, <1>3, <1>4
    <2>5. \A s \in S : \E i \in DOMAIN e : e[i] = s
      <3>1. ASSUME NEW i \in 1 .. n PROVE i \in DOMAIN e /\ e[i] = first[i]
        BY <1>1, <2>1, <2>2
      <3>2. n + 1 \in DOMAIN e
        BY <1>1, <2>1
      <3>3. ASSUME NEW i \in DOMAIN last PROVE n + 1 + i \in DOMAIN e /\ e[n + 1 + i] = last[i]
        BY <1>1, <2>1, <2>4
      <3> HIDE DEF e
      <3> QED
        BY <3>1, <3>2, <3>3, <2>3, <1>5, <1>6 DEF S
    <2>6. \A i \in DOMAIN e : e[i] \in S
      BY <1>2, <1>7
    <2> HIDE DEF e
    <2>7. Steps(row) = {e[i] : i \in DOMAIN e}
      BY <1>2 DEF Steps, e
    <2> QED
      BY <2>5, <2>6, <2>7
  <1> QED
    BY <1>7, <1>8 DEF S, u

\* The calls of a row name remotes of the user's, each once, and what they make is what the row
\* promises.
LEMMA StepsOf ==
  ASSUME NEW row \in StorageRow
  PROVE  /\ EnsureRemote(row) \in Seq(Steps(row))
         /\ \A s \in Steps(row) : s.name \in RemoteName
         /\ \A one, two \in Steps(row) : one.name = two.name => one = two
         /\ InPlace(remote, row, <<>>) => Reached(RemoteOf(row)) = Promised(row)
  <1>r. /\ row.prim \in Primary /\ Len(row.pool) \in 0 .. MaxPool
        /\ Members(row) \in Seq(Primary) /\ Len(Members(row)) = Len(row.pool) + 1
        /\ row.pool = <<>> => Members(row) = <<row.prim>>
    BY RowTypes
  <1>d. DOMAIN <<>> = {}
    OBVIOUS
  <1>1. CASE row.pool = <<>>
    <2>1. CASE row.pass = Clear
      <3>1. Steps(row) = {Creation(UserRemoteName, StoreRemote(row.prim))} /\ EnsureRemote(row) \in Seq(Steps(row))
        BY <1>1, <2>1, StepsOfOne
      <3>2. ASSUME InPlace(remote, row, <<>>) PROVE Reached(RemoteOf(row)) = Promised(row)
        <4>1. remote[UserRemoteName] = StoreRemote(row.prim)
          BY <3>1, <3>2, <1>d DEF InPlace, Creation
        <4>2. RemoteOf(row) = UserRemoteName
          BY <1>1 DEF RemoteOf
        <4> QED
          <5>1. remote[UserRemoteName].kind = "store" /\ remote[UserRemoteName].at = row.prim
            BY <4>1 DEF StoreRemote
          <5>2. StoresUnder(UserRemoteName) = <<row.prim>>
            BY <5>1 DEF StoresUnder
          <5>3. Reached(UserRemoteName) = [pass |-> Clear, in |-> StoresUnder(UserRemoteName)]
            BY <5>1 DEF Reached
          <5> QED
            BY <4>2, <5>2, <5>3, <1>1, <1>r, <2>1 DEF Promised
      <3> QED
        BY <3>1, <3>2 DEF Creation, RemoteName
    <2>2. CASE row.pass # Clear
      <3>1. /\ Steps(row) = {Creation(SourceName, StoreRemote(row.prim)),
                             Creation(UserRemoteName, CryptRemote(SourceName, row.pass))}
            /\ EnsureRemote(row) \in Seq(Steps(row))
        BY <1>1, <2>2, StepsOfOne
      <3>2. ASSUME InPlace(remote, row, <<>>) PROVE Reached(RemoteOf(row)) = Promised(row)
        <4>1. remote[SourceName] = StoreRemote(row.prim) /\ remote[UserRemoteName] = CryptRemote(SourceName, row.pass)
          BY <3>1, <3>2, <1>d DEF InPlace, Creation
        <4>2. RemoteOf(row) = UserRemoteName
          BY <1>1 DEF RemoteOf
        <4>3. Reached(UserRemoteName) = [pass |-> row.pass, in |-> StoresUnder(SourceName)]
          BY <4>1 DEF Reached, CryptRemote
        <4>4. StoresUnder(SourceName) = <<row.prim>>
          BY <4>1 DEF StoresUnder, StoreRemote
        <4> QED
          BY <4>2, <4>3, <4>4, <1>1, <1>r DEF Promised
      <3>3. SourceName # UserRemoteName /\ SourceName \in RemoteName /\ UserRemoteName \in RemoteName
        BY StorageAssumption DEF SourceName, UserRemoteName, RemoteName
      <3> QED
        BY <3>1, <3>2, <3>3 DEF Creation
    <2> QED
      BY <2>1, <2>2
  <1>2. CASE row.pool # <<>>
    <2> DEFINE n == Len(Members(row))
    <2>1. /\ Steps(row) = PoolSteps(row) \union {Creation(UnionName, UnionRemote(NamesOf(row)))} \union Laid(row)
          /\ EnsureRemote(row) \in Seq(Steps(row))
      BY <1>2, StepsOfPool
    <2>2. n \in Nat /\ n <= MaxPool + 1
      BY <1>r, StorageAssumption
    <2>3. \A i \in 1 .. n : PoolName(i) \in RemoteName /\ PoolName(i) # UnionName /\ PoolName(i) # UserRemoteName
      BY <2>2, StorageAssumption DEF PoolName, RemoteName, UnionName, UserRemoteName
    <2>4. \A i, j \in 1 .. n : PoolName(i) = PoolName(j) => i = j
      BY DEF PoolName
    <2>5. UnionName # UserRemoteName /\ UnionName \in RemoteName /\ UserRemoteName \in RemoteName
      BY DEF UnionName, UserRemoteName, RemoteName
    <2>6. \A s \in PoolSteps(row) : \E i \in 1 .. n : s = Creation(PoolName(i), StoreRemote(Members(row)[i])) /\ s.name = PoolName(i)
      BY DEF PoolSteps, Creation
    <2>7. \A s \in Laid(row) : s = Creation(UserRemoteName, CryptRemote(UnionName, row.pass)) /\ s.name = UserRemoteName
      BY DEF Laid, Creation
    <2>8. Creation(UnionName, UnionRemote(NamesOf(row))).name = UnionName
      BY DEF Creation
    <2>9. \A s \in Steps(row) : s.name \in RemoteName
      BY <2>1, <2>3, <2>5, <2>6, <2>7, <2>8
    <2>10. \A one, two \in Steps(row) : one.name = two.name => one = two
      BY <2>1, <2>3, <2>4, <2>5, <2>6, <2>7, <2>8
    <2>11. ASSUME InPlace(remote, row, <<>>) PROVE Reached(RemoteOf(row)) = Promised(row)
      <3>1. \A s \in Steps(row) : remote[s.name] = s.what
        BY <2>11, <1>d DEF InPlace
      <3>2. remote[UnionName] = UnionRemote(NamesOf(row))
        <4> DEFINE u == Creation(UnionName, UnionRemote(NamesOf(row)))
        <4>1. u \in Steps(row)
          BY <2>1
        <4>2. u.name = UnionName /\ u.what = UnionRemote(NamesOf(row))
          BY DEF Creation
        <4> QED
          BY <3>1, <4>1, <4>2
      <3>3. \A i \in 1 .. n : remote[PoolName(i)] = StoreRemote(Members(row)[i])
        <4> TAKE i \in 1 .. n
        <4> DEFINE u == Creation(PoolName(i), StoreRemote(Members(row)[i]))
        <4>1. u \in Steps(row)
          BY <2>1 DEF PoolSteps
        <4>2. u.name = PoolName(i) /\ u.what = StoreRemote(Members(row)[i])
          BY DEF Creation
        <4> QED
          BY <3>1, <4>1, <4>2
      <3>4. StoresUnder(UnionName) = Members(row)
        <4>1. /\ remote[UnionName].kind = "union" /\ remote[UnionName].over = NamesOf(row)
          BY <3>2 DEF UnionRemote
        <4>2. StoresUnder(UnionName) = [i \in DOMAIN NamesOf(row) |-> remote[NamesOf(row)[i]].at]
          BY <4>1 DEF StoresUnder
        <4>3. DOMAIN NamesOf(row) = 1 .. n /\ \A i \in 1 .. n : NamesOf(row)[i] = PoolName(i)
          BY DEF NamesOf
        <4>7. \A p : StoreRemote(p).at = p
          BY DEF StoreRemote
        <4>6. \A i \in 1 .. n : remote[PoolName(i)].at = Members(row)[i]
          BY <3>3, <4>7
        <4>4. \A i \in 1 .. n : remote[NamesOf(row)[i]].at = Members(row)[i]
          BY <4>6, <4>3
        <4>5. Members(row) = [i \in 1 .. n |-> Members(row)[i]]
          BY <1>r
        <4> QED
          BY <4>2, <4>3, <4>4, <4>5
      <3>5. CASE row.pass = Clear
        <4>1. RemoteOf(row) = UnionName
          BY <1>2, <3>5 DEF RemoteOf
        <4>2. Reached(UnionName) = [pass |-> Clear, in |-> StoresUnder(UnionName)]
          BY <3>2 DEF Reached, UnionRemote
        <4> QED
          BY <4>1, <4>2, <3>4, <3>5 DEF Promised
      <3>6. CASE row.pass # Clear
        <4>1. RemoteOf(row) = UserRemoteName
          BY <3>6 DEF RemoteOf
        <4>2. remote[UserRemoteName] = CryptRemote(UnionName, row.pass)
          <5> DEFINE u == Creation(UserRemoteName, CryptRemote(UnionName, row.pass))
          <5>1. u \in Steps(row)
            BY <2>1, <3>6 DEF Laid
          <5>2. u.name = UserRemoteName /\ u.what = CryptRemote(UnionName, row.pass)
            BY DEF Creation
          <5> QED
            BY <3>1, <5>1, <5>2
        <4>3. Reached(UserRemoteName) = [pass |-> row.pass, in |-> StoresUnder(UnionName)]
          BY <4>2 DEF Reached, CryptRemote
        <4> QED
          BY <4>1, <4>3, <3>4 DEF Promised
      <3> QED
        BY <3>5, <3>6
    <2> QED
      BY <2>1, <2>9, <2>10, <2>11
  <1> QED
    BY <1>1, <1>2

-----------------------------------------------------------------------------
\* Before any call everything is to come.
LEMMA AllToCome ==
  ASSUME NEW row \in StorageRow, NEW rem
  PROVE  InPlace(rem, row, EnsureRemote(row))
  BY DEF InPlace, Steps

\* A call of one row leaves in place what others of that row have made, and its caller has one
\* call less to make.
LEMMA CreateInPlace ==
  ASSUME StorageShapes, NEW row \in StorageRow, NEW todo \in Seq(Steps(row)), todo # <<>>,
         remote' = [remote EXCEPT ![Head(todo).name] = Head(todo).what]
  PROVE  /\ remote' = [n \in RemoteName |-> remote'[n]]
         /\ \A other : InPlace(remote, row, other) => InPlace(remote', row, other)
         /\ Tail(todo) \in Seq(Steps(row))
         /\ Len(todo) = 1 => Tail(todo) = <<>>
         /\ InPlace(remote, row, todo) => InPlace(remote', row, Tail(todo))
  <1> DEFINE h == Head(todo)
             S == Steps(row)
  <1>1. h \in S /\ Tail(todo) \in Seq(S) /\ Len(Tail(todo)) = Len(todo) - 1 /\ Len(todo) \in Nat
    BY HeadTailProperties
  <1>2. h = todo[1] /\ \A k \in 1 .. Len(todo) - 1 : Tail(todo)[k] = todo[k + 1]
    BY <1>1, HeadTailProperties
  <1>3. h.name \in RemoteName /\ \A s \in S : s.name = h.name => s = h
    BY <1>1, StepsOf
  <1>4. /\ remote' = [n \in RemoteName |-> remote'[n]] /\ remote'[h.name] = h.what
        /\ \A n : n # h.name => (n \in RemoteName => remote'[n] = remote[n])
    BY <1>3 DEF StorageShapes
  <1>5. \A s \in S : s.name \in RemoteName
    BY StepsOf
  <1> HIDE DEF h
  <1>6. \A s \in S : remote[s.name] = s.what => remote'[s.name] = s.what
    BY <1>3, <1>4, <1>5
  <1>7. \A other : InPlace(remote, row, other) => InPlace(remote', row, other)
    BY <1>6 DEF InPlace
  <1>8. ASSUME Len(todo) = 1 PROVE Tail(todo) = <<>>
    <2>1. Len(Tail(todo)) = 0
      BY ONLY <1>8, <1>1
    <2>2. \A s \in Seq(S) : Len(s) = 0 => s = <<>>
      OBVIOUS
    <2> QED
      BY <1>1, <2>1, <2>2
  <1>9. ASSUME InPlace(remote, row, todo), NEW s \in S
        PROVE (\E k \in DOMAIN Tail(todo) : Tail(todo)[k] = s) \/ remote'[s.name] = s.what
    <2>1. CASE remote[s.name] = s.what
      BY <2>1, <1>6
    <2>2. CASE \E k \in DOMAIN todo : todo[k] = s
      <3>1. PICK k \in DOMAIN todo : todo[k] = s
        BY <2>2
      <3>2. k \in 1 .. Len(todo)
        BY <3>1
      <3>3. CASE k = 1
        BY <3>1, <3>3, <1>2, <1>4
      <3>4. CASE k # 1
        <4>1. k - 1 \in 1 .. Len(todo) - 1 /\ (k - 1) + 1 = k
          BY <3>2, <3>4, <1>1
        <4>2. k - 1 \in DOMAIN Tail(todo)
          BY <4>1, <1>1
        <4>3. Tail(todo)[k - 1] = s
          BY <4>1, <3>1, <1>2
        <4> QED
          BY <4>2, <4>3
      <3> QED
        BY <3>3, <3>4
    <2> QED
      BY <1>9, <2>1, <2>2 DEF InPlace
  <1> QED
    BY <1>1, <1>4, <1>7, <1>8, <1>9 DEF InPlace

\* A request moves on its own, and so does a transfer.
LEMMA AskMoves ==
  ASSUME StorageIInv, NEW r \in Request, NEW a, ask' = [ask EXCEPT ![r] = a],
         UNCHANGED <<remote, move>>, alone' = alone \/ alone' = alone \union {r},
         StoredIsRow', AskFine(a), r \in alone' => AskMade(remote, a)
  PROVE  StorageIInv'
  <1>1. ask' = [q \in Request |-> ask'[q]] /\ ask'[r] = a /\ \A q \in Request : q # r => ask'[q] = ask[q]
    BY DEF StorageIInv, StorageShapes
  <1>2. StorageShapes'
    BY <1>1 DEF StorageIInv, StorageShapes
  <1>3. \A q \in Request : AskFine(ask'[q])
    BY <1>1 DEF StorageIInv
  <1>4. \A q \in Request \intersect alone' : AskMade(remote', ask'[q])
    BY <1>1 DEF StorageIInv
  <1>5. \A t \in Transfer \intersect alone' : t \in alone
    BY StorageAssumption
  <1>6. \A t \in Transfer \intersect alone' : MoveMade(remote', move'[t])
    BY <1>5 DEF StorageIInv
  <1>7. \A t \in Transfer : MoveFine(move'[t])
    BY DEF StorageIInv
  <1> QED
    BY <1>2, <1>3, <1>4, <1>6, <1>7 DEF StorageIInv

LEMMA MoveMoves ==
  ASSUME StorageIInv, NEW t \in Transfer, NEW m, move' = [move EXCEPT ![t] = m],
         UNCHANGED <<remote, ask, stored>>, alone' = alone \/ alone' = alone \union {t},
         MoveFine(m), t \in alone' => MoveMade(remote, m)
  PROVE  StorageIInv'
  <1>1. move' = [q \in Transfer |-> move'[q]] /\ move'[t] = m /\ \A q \in Transfer : q # t => move'[q] = move[q]
    BY DEF StorageIInv, StorageShapes
  <1>2. StorageShapes' /\ StoredIsRow'
    BY <1>1 DEF StorageIInv, StorageShapes, StoredIsRow
  <1>3. \A q \in Transfer : MoveFine(move'[q])
    BY <1>1 DEF StorageIInv
  <1>4. \A q \in Transfer \intersect alone' : MoveMade(remote', move'[q])
    BY <1>1 DEF StorageIInv
  <1>5. \A r \in Request \intersect alone' : r \in alone
    BY StorageAssumption
  <1>6. \A r \in Request \intersect alone' : AskMade(remote', ask'[r])
    BY <1>5 DEF StorageIInv
  <1>7. \A r \in Request : AskFine(ask'[r])
    BY DEF StorageIInv
  <1> QED
    BY <1>2, <1>3, <1>4, <1>6, <1>7 DEF StorageIInv

LEMMA RowsMade ==
  /\ NoRow \in StorageRow
  /\ \A p \in Primary, pw \in Pass \union {Clear} : RowOf(p, pw, <<>>) \in StorageRow
  /\ \A row \in StorageRow, p \in Provider :
       Len(row.pool) < MaxPool => [row EXCEPT !.pool = Append(@, p)] \in StorageRow
  /\ \A row \in StorageRow : \A i \in DOMAIN row.pool :
       [row EXCEPT !.pool = Without(@, i)] \in StorageRow
  <1>1. <<>> \in Pools
    BY StorageAssumption DEF Pools
  <1>2. \A p \in Primary, pw \in Pass \union {Clear}, pool \in Pools : RowOf(p, pw, pool) \in StorageRow
    BY DEF RowOf, StorageRow
  <1>3. ASSUME NEW row \in StorageRow, NEW pool \in Pools PROVE [row EXCEPT !.pool = pool] \in StorageRow
    BY DEF StorageRow
  <1>4. ASSUME NEW row \in StorageRow, NEW p \in Provider, Len(row.pool) < MaxPool
        PROVE  Append(row.pool, p) \in Pools
    <2>1. row.pool \in Seq(Provider)
      BY RowTypes
    <2> DEFINE s == row.pool
    <2> HIDE DEF s
    <2>2. s \in Seq(Provider) => Append(s, p) \in Seq(Provider) /\ Len(Append(s, p)) = Len(s) + 1 /\ Len(s) \in Nat
      OBVIOUS
    <2>3. Append(s, p) \in Seq(Provider) /\ Len(Append(s, p)) = Len(s) + 1 /\ Len(s) \in Nat
      BY <2>1, <2>2 DEF s
    <2>4. Len(s) + 1 <= MaxPool
      BY <2>3, <1>4, StorageAssumption DEF s
    <2> QED
      BY <2>3, <2>4 DEF Pools, s
  <1>5. ASSUME NEW row \in StorageRow, NEW i \in DOMAIN row.pool PROVE Without(row.pool, i) \in Pools
    <2> DEFINE s == row.pool
               n == Len(s)
    <2>1. s \in Seq(Provider) /\ n \in 0 .. MaxPool
      BY RowTypes
    <2>2. i \in 1 .. n /\ n - 1 \in Nat /\ n - 1 <= MaxPool
      BY <2>1, StorageAssumption
    <2>3. \A k \in 1 .. n - 1 : k \in 1 .. n /\ k + 1 \in 1 .. n
      BY <2>2
    <2>4. \A k \in 1 .. n : s[k] \in Provider
      BY <2>1
    <2>5. Without(s, i) = [k \in 1 .. n - 1 |-> IF k < i THEN s[k] ELSE s[k + 1]]
      BY DEF Without
    <2> HIDE DEF n, s
    <2>6. Without(s, i) \in [1 .. n - 1 -> Provider]
      BY <2>3, <2>4, <2>5
    <2>7. Without(s, i) \in Seq(Provider) /\ Len(Without(s, i)) = n - 1
      BY <2>2, <2>6
    <2> QED
      BY <2>2, <2>7 DEF Pools, s
  <1>6. NoRow \in StorageRow
    BY <1>1, <1>2 DEF NoRow, Primary
  <1>7. \A p \in Primary, pw \in Pass \union {Clear} : RowOf(p, pw, <<>>) \in StorageRow
    BY <1>1, <1>2
  <1> QED
    BY <1>3, <1>4, <1>5, <1>6, <1>7

LEMMA StorageInitially == StorageInit => StorageIInv
  <1> SUFFICES ASSUME StorageInit PROVE StorageIInv
    OBVIOUS
  <1>1. StoredIsRow
    BY StorageAssumption DEF StorageInit, StoredIsRow
  <1>2. StorageShapes
    BY DEF StorageInit, StorageShapes
  <1>3. AskFine(RestAsk) /\ AskMade(remote, RestAsk)
    BY RowsMade DEF AskFine, AskMade, RestAsk
  <1>4. MoveFine(RestMove) /\ MoveMade(remote, RestMove)
    BY RowsMade DEF MoveFine, MoveMade, RestMove
  <1>5. (\A r \in Request : ask[r] = RestAsk) /\ \A t \in Transfer : move[t] = RestMove
    BY DEF StorageInit
  <1> QED
    BY <1>1, <1>2, <1>3, <1>4, <1>5 DEF StorageIInv

-----------------------------------------------------------------------------
\* What a request asks for starts with its calls, all to come, or with none.
LEMMA AskStarts ==
  ASSUME StorageIInv, NEW r \in Request, NEW for, NEW at, NEW row \in StorageRow, NEW todo,
         Asks(r, for, at, row, todo), UNCHANGED <<stored, remote, move>>,
         \/ at = "ensure" /\ todo = EnsureRemote(row)
         \/ at = "exchange" /\ row.pool = <<>> /\ row.prim \in Provider
         \/ at = "save" /\ for = "rules"
  PROVE  StorageIInv'
  <1> DEFINE a == [at |-> at, for |-> for, row |-> row, todo |-> todo, seen |-> <<>>]
  <1>1. ask' = [ask EXCEPT ![r] = a] /\ alone' = alone \union {r} /\ UNCHANGED <<remote, move>>
    BY DEF Asks
  <1>2. StoredIsRow'
    BY DEF StorageIInv, StoredIsRow
  <1>3. AskFine(a)
    <2>1. CASE at = "ensure" /\ todo = EnsureRemote(row)
      BY <2>1, StepsOf DEF AskFine
    <2>2. CASE at # "ensure"
      BY <2>2 DEF AskFine
    <2> QED
      BY <2>1, <2>2
  <1>4. AskMade(remote, a)
    BY AllToCome DEF AskMade
  <1> QED
    BY <1>1, <1>2, <1>3, <1>4, AskMoves

LEMMA AskRests ==
  ASSUME StorageIInv, NEW r \in Request, ask' = [ask EXCEPT ![r] = RestAsk], StoredIsRow',
         UNCHANGED <<remote, move, alone>>
  PROVE  StorageIInv'
  <1>1. AskFine(RestAsk) /\ AskMade(remote, RestAsk)
    BY RowsMade DEF AskFine, AskMade, RestAsk
  <1> QED
    BY <1>1, AskMoves

\* A call of a row, by x: what others alone hold in place is of the same row, and stays.
LEMMA RemotesStayMade ==
  ASSUME StorageIInv, NEW x, NEW row \in StorageRow, NEW todo \in Seq(Steps(row)), Create(x, row, todo)
  PROVE  /\ alone' \subseteq alone
         /\ \A q \in Request \intersect alone' : q # x => AskMade(remote', ask[q])
         /\ \A t \in Transfer \intersect alone' : t # x => MoveMade(remote', move[t])
  <1>1. todo # <<>> /\ remote' = [remote EXCEPT ![Head(todo).name] = Head(todo).what]
    BY DEF Create
  <1>2. \A other : InPlace(remote, row, other) => InPlace(remote', row, other)
    BY <1>1, CreateInPlace DEF StorageIInv
  <1>3. ASSUME NEW q \in Request \intersect alone', q # x
        PROVE  AskMade(remote', ask[q])
    <2>1. q \in alone /\ ask[q].row = row
      BY <1>3 DEF Create
    <2>2. AskMade(remote, ask[q])
      BY <2>1 DEF StorageIInv
    <2> QED
      BY <1>2, <2>1, <2>2 DEF AskMade
  <1>4. ASSUME NEW t \in Transfer \intersect alone', t # x
        PROVE  MoveMade(remote', move[t])
    <2>1. t \in alone /\ move[t].row = row
      BY <1>4 DEF Create
    <2>2. MoveMade(remote, move[t])
      BY <2>1 DEF StorageIInv
    <2> QED
      BY <1>2, <2>1, <2>2 DEF MoveMade
  <1> QED
    BY <1>3, <1>4 DEF Create

\* Fields of a request and of a transfer that change.
LEMMA AskFields ==
  ASSUME NEW a, a = [at |-> a.at, for |-> a.for, row |-> a.row, todo |-> a.todo, seen |-> a.seen],
         NEW at, NEW todo, NEW saw
  PROVE  /\ [[a EXCEPT !.todo = todo] EXCEPT !.at = at] =
              [at |-> at, for |-> a.for, row |-> a.row, todo |-> todo, seen |-> a.seen]
         /\ [[a EXCEPT !.at = at] EXCEPT !.todo = todo] =
              [at |-> at, for |-> a.for, row |-> a.row, todo |-> todo, seen |-> a.seen]
         /\ [[a EXCEPT !.at = at] EXCEPT !.seen = saw] =
              [at |-> at, for |-> a.for, row |-> a.row, todo |-> a.todo, seen |-> saw]
  <1> DEFINE b == [a EXCEPT !.todo = todo]
             c == [a EXCEPT !.at = at]
  <1>1. b = [at |-> a.at, for |-> a.for, row |-> a.row, todo |-> todo, seen |-> a.seen]
    OBVIOUS
  <1>2. c = [at |-> at, for |-> a.for, row |-> a.row, todo |-> a.todo, seen |-> a.seen]
    OBVIOUS
  <1> HIDE DEF b, c
  <1>3. [b EXCEPT !.at = at] = [at |-> at, for |-> a.for, row |-> a.row, todo |-> todo, seen |-> a.seen]
    BY <1>1
  <1>4. [c EXCEPT !.todo = todo] = [at |-> at, for |-> a.for, row |-> a.row, todo |-> todo, seen |-> a.seen]
    BY <1>2
  <1>5. [c EXCEPT !.seen = saw] = [at |-> at, for |-> a.for, row |-> a.row, todo |-> a.todo, seen |-> saw]
    BY <1>2
  <1> QED
    BY <1>3, <1>4, <1>5 DEF b, c

LEMMA MoveFields ==
  ASSUME NEW m, m = [at |-> m.at, row |-> m.row, todo |-> m.todo], NEW at, NEW todo
  PROVE  [[m EXCEPT !.todo = todo] EXCEPT !.at = at] = [at |-> at, row |-> m.row, todo |-> todo]
  <1> DEFINE b == [m EXCEPT !.todo = todo]
  <1>1. b = [at |-> m.at, row |-> m.row, todo |-> todo]
    OBVIOUS
  <1> HIDE DEF b
  <1>2. [b EXCEPT !.at = at] = [at |-> at, row |-> m.row, todo |-> todo]
    BY <1>1
  <1> QED
    BY <1>2 DEF b

LEMMA EnsureKeeps == ASSUME StorageIInv, NEW r \in Request, Ensure(r) PROVE StorageIInv'
  <1> DEFINE a == ask[r]
             at == IF Len(a.todo) = 1 THEN "check" ELSE "ensure"
             b == [at |-> at, for |-> a.for, row |-> a.row, todo |-> Tail(a.todo), seen |-> a.seen]
  <1>1. AskFine(a) /\ a.at = "ensure"
    BY DEF StorageIInv, Ensure
  <1>2. a.row \in StorageRow /\ a.todo \in Seq(Steps(a.row)) /\ Create(r, a.row, a.todo)
    BY <1>1 DEF AskFine, Ensure
  <1>3. a.todo # <<>> /\ remote' = [remote EXCEPT ![Head(a.todo).name] = Head(a.todo).what]
    BY <1>2 DEF Create
  <1>4. /\ remote' = [n \in RemoteName |-> remote'[n]]
        /\ Tail(a.todo) \in Seq(Steps(a.row))
        /\ Len(a.todo) = 1 => Tail(a.todo) = <<>>
        /\ InPlace(remote, a.row, a.todo) => InPlace(remote', a.row, Tail(a.todo))
    <2>1. StorageShapes
      BY DEF StorageIInv
    <2> HIDE DEF a
    <2> QED
      BY <1>2, <1>3, <2>1, CreateInPlace
  <1>5. ask' = [ask EXCEPT ![r] = b]
    <2>1. ask' = [ask EXCEPT ![r] = [[ask[r] EXCEPT !.todo = Tail(ask[r].todo)] EXCEPT !.at = at]]
      BY DEF Ensure, StorageIInv, StorageShapes
    <2>3. a = [at |-> a.at, for |-> a.for, row |-> a.row, todo |-> a.todo, seen |-> a.seen]
      BY <1>1 DEF AskFine
    <2>2. [[a EXCEPT !.todo = Tail(a.todo)] EXCEPT !.at = at] = b
      <3> HIDE DEF a, at
      <3> QED
        BY <2>3, AskFields
    <2> QED
      BY <2>1, <2>2
  <1>6. ask' = [q \in Request |-> ask'[q]] /\ ask'[r] = b /\ \A q \in Request : q # r => ask'[q] = ask[q]
    BY <1>5 DEF StorageIInv, StorageShapes
  <1>7. AskFine(b)
    BY <1>2, <1>4 DEF AskFine
  <1>8. r \in alone => AskMade(remote', b)
    <2>1. r \in alone => InPlace(remote, a.row, a.todo)
      BY <1>1 DEF StorageIInv, AskMade
    <2> QED
      BY <2>1, <1>4 DEF AskMade
  <1>9. /\ alone' \subseteq alone
        /\ \A q \in Request \intersect alone' : q # r => AskMade(remote', ask[q])
        /\ \A t \in Transfer \intersect alone' : t # r => MoveMade(remote', move[t])
    BY <1>2, RemotesStayMade
  <1>10. \A t \in Transfer : t # r
    BY StorageAssumption
  <1> HIDE DEF a, b
  <1>11. \A q \in Request : AskFine(ask'[q])
    BY <1>6, <1>7 DEF StorageIInv
  <1>12. \A q \in Request \intersect alone' : AskMade(remote', ask'[q])
    BY <1>6, <1>8, <1>9
  <1>13. /\ StoredIsRow' /\ StorageShapes' /\ \A t \in Transfer : MoveFine(move'[t])
    BY <1>4, <1>6 DEF StorageIInv, StoredIsRow, StorageShapes, Ensure
  <1>14. \A t \in Transfer \intersect alone' : MoveMade(remote', move'[t])
    BY <1>9, <1>10 DEF Ensure
  <1> QED
    BY <1>11, <1>12, <1>13, <1>14 DEF StorageIInv

LEMMA TransferEnsuresKeeps == ASSUME StorageIInv, NEW t \in Transfer, TransferEnsures(t) PROVE StorageIInv'
  <1> DEFINE m == move[t]
             at == IF Len(m.todo) = 1 THEN "using" ELSE "ensure"
             b == [at |-> at, row |-> m.row, todo |-> Tail(m.todo)]
  <1>1. MoveFine(m) /\ m.at = "ensure"
    BY DEF StorageIInv, TransferEnsures
  <1>2. m.row \in StorageRow /\ m.todo \in Seq(Steps(m.row)) /\ Create(t, m.row, m.todo)
    BY <1>1 DEF MoveFine, TransferEnsures
  <1>3. m.todo # <<>> /\ remote' = [remote EXCEPT ![Head(m.todo).name] = Head(m.todo).what]
    BY <1>2 DEF Create
  <1>4. /\ remote' = [n \in RemoteName |-> remote'[n]]
        /\ Tail(m.todo) \in Seq(Steps(m.row))
        /\ Len(m.todo) = 1 => Tail(m.todo) = <<>>
        /\ InPlace(remote, m.row, m.todo) => InPlace(remote', m.row, Tail(m.todo))
    <2>1. StorageShapes
      BY DEF StorageIInv
    <2> HIDE DEF m
    <2> QED
      BY <1>2, <1>3, <2>1, CreateInPlace
  <1>5. move' = [move EXCEPT ![t] = b]
    <2>1. move' = [move EXCEPT ![t] = [[move[t] EXCEPT !.todo = Tail(move[t].todo)] EXCEPT !.at = at]]
      BY DEF TransferEnsures, StorageIInv, StorageShapes
    <2>3. m = [at |-> m.at, row |-> m.row, todo |-> m.todo]
      BY <1>1 DEF MoveFine
    <2>2. [[m EXCEPT !.todo = Tail(m.todo)] EXCEPT !.at = at] = b
      <3> DEFINE d == Tail(m.todo)
                 c == [m EXCEPT !.todo = d]
      <3> HIDE DEF m, at, d
      <3>1. c = [at |-> m.at, row |-> m.row, todo |-> d]
        BY <2>3
      <3> HIDE DEF c
      <3>2. [c EXCEPT !.at = at] = [at |-> at, row |-> m.row, todo |-> d]
        BY <3>1
      <3> QED
        BY <3>2 DEF c, d
    <2> QED
      BY <2>1, <2>2
  <1>6. move' = [q \in Transfer |-> move'[q]] /\ move'[t] = b /\ \A q \in Transfer : q # t => move'[q] = move[q]
    BY <1>5 DEF StorageIInv, StorageShapes
  <1>7. MoveFine(b)
    BY <1>2, <1>4 DEF MoveFine
  <1>8. t \in alone => MoveMade(remote', b)
    <2>1. t \in alone => InPlace(remote, m.row, m.todo)
      BY <1>1 DEF StorageIInv, MoveMade
    <2> QED
      BY <2>1, <1>4 DEF MoveMade
  <1>9. /\ alone' \subseteq alone
        /\ \A q \in Request \intersect alone' : q # t => AskMade(remote', ask[q])
        /\ \A q \in Transfer \intersect alone' : q # t => MoveMade(remote', move[q])
    BY <1>2, RemotesStayMade
  <1>10. \A r \in Request : r # t
    BY StorageAssumption
  <1> HIDE DEF m, b
  <1>11. \A q \in Transfer : MoveFine(move'[q])
    BY <1>6, <1>7 DEF StorageIInv
  <1>12. \A q \in Transfer \intersect alone' : MoveMade(remote', move'[q])
    BY <1>6, <1>8, <1>9
  <1>13. /\ StoredIsRow' /\ StorageShapes' /\ \A r \in Request : AskFine(ask'[r])
    BY <1>4, <1>6 DEF StorageIInv, StoredIsRow, StorageShapes, TransferEnsures
  <1>14. \A r \in Request \intersect alone' : AskMade(remote', ask'[r])
    BY <1>9, <1>10 DEF TransferEnsures
  <1> QED
    BY <1>11, <1>12, <1>13, <1>14 DEF StorageIInv

LEMMA StorageStepKeeps == StorageIInv /\ [StorageNext]_storageVars => StorageIInv'
  <1> SUFFICES ASSUME StorageIInv, [StorageNext]_storageVars PROVE StorageIInv'
    OBVIOUS
  <1>f. \A r \in Request : AskFine(ask[r]) /\ (r \in alone => AskMade(remote, ask[r]))
    BY DEF StorageIInv
  <1>s. ASSUME stored # <<>> PROVE stored[1] \in StorageRow /\ stored = <<stored[1]>>
    BY <1>s DEF StorageIInv, StoredIsRow
  <1>1. ASSUME NEW r \in Request, Connect(r) PROVE StorageIInv'
    <2>1. PICK p \in Provider, pw \in Pass \union {Clear} :
            LET row == RowOf(p, pw, <<>>) IN
            /\ Asks(r, "connect", "ensure", row, UserRemote(row)) /\ UNCHANGED <<stored, remote, move>>
      BY <1>1 DEF Connect
    <2> DEFINE row == RowOf(p, pw, <<>>)
    <2>2. row \in StorageRow /\ EnsureRemote(row) = UserRemote(row)
      BY RowsMade DEF EnsureRemote, RowOf, Primary
    <2>3. Asks(r, "connect", "ensure", row, EnsureRemote(row)) /\ UNCHANGED <<stored, remote, move>>
      BY <2>1, <2>2
    <2> HIDE DEF row
    <2> QED
      BY <2>2, <2>3, AskStarts
  <1>2. ASSUME NEW r \in Request, OauthCallback(r) PROVE StorageIInv'
    <2>1. PICK p \in Provider, for \in {"connect", "pool"} :
            Asks(r, for, "exchange", RowOf(p, Clear, <<>>), <<>>)
      BY <1>2 DEF OauthCallback
    <2> DEFINE row == RowOf(p, Clear, <<>>)
    <2>2. row \in StorageRow /\ row.pool = <<>> /\ row.prim \in Provider
      BY RowsMade DEF RowOf, Primary
    <2>3. Asks(r, for, "exchange", row, <<>>) /\ UNCHANGED <<stored, remote, move>>
      BY <2>1, <1>2 DEF OauthCallback
    <2> HIDE DEF row
    <2> QED
      BY <2>2, <2>3, AskStarts
  <1>3. ASSUME NEW r \in Request, Exchange(r) PROVE StorageIInv'
    <2> DEFINE a == ask[r]
               at == IF a.for = "pool" THEN "read" ELSE "ensure"
               todo == IF a.for = "pool" THEN <<>> ELSE UserRemote(a.row)
               b == [at |-> at, for |-> a.for, row |-> a.row, todo |-> todo, seen |-> a.seen]
    <2>1. a.at = "exchange" /\ AskFine(a) /\ UNCHANGED <<stored, remote, move, alone>>
      BY <1>3, <1>f DEF Exchange
    <2>2. a.row \in StorageRow /\ a.row.pool = <<>> /\ a.row.prim \in Provider
      BY <2>1 DEF AskFine
    <2>3. ask' = [ask EXCEPT ![r] = b]
      <3>1. ask' = [ask EXCEPT ![r] = [[ask[r] EXCEPT !.at = at] EXCEPT !.todo = todo]]
        BY <1>3, <2>1 DEF Exchange, StorageIInv, StorageShapes
      <3>3. a = [at |-> a.at, for |-> a.for, row |-> a.row, todo |-> a.todo, seen |-> a.seen]
        BY <2>1 DEF AskFine
      <3>2. [[a EXCEPT !.at = at] EXCEPT !.todo = todo] = b
        <4> HIDE DEF a, at, todo
        <4> QED
          BY <3>3, AskFields
      <3> QED
        BY <3>1, <3>2
    <2>4. EnsureRemote(a.row) = UserRemote(a.row)
      BY <2>2 DEF EnsureRemote
    <2>5. EnsureRemote(a.row) \in Seq(Steps(a.row)) /\ InPlace(remote, a.row, EnsureRemote(a.row))
      BY <2>2, StepsOf, AllToCome
    <2>6. AskFine(b)
      BY <2>2, <2>4, <2>5 DEF AskFine
    <2>7. AskMade(remote, b)
      BY <2>4, <2>5 DEF AskMade
    <2>8. StoredIsRow'
      BY <2>1 DEF StorageIInv, StoredIsRow
    <2> HIDE DEF b
    <2> QED
      BY <2>1, <2>3, <2>6, <2>7, <2>8, AskMoves
  <1>4. ASSUME NEW r \in Request, OauthAddToPool(r) PROVE StorageIInv'
    <2> DEFINE grown == [stored[1] EXCEPT !.pool = Append(@, ask[r].row.prim)]
               a == [at |-> "ensure", for |-> "pool", row |-> grown, todo |-> EnsureRemote(grown), seen |-> <<>>]
    <2>1. /\ ask' = [ask EXCEPT ![r] = a] /\ alone' = alone \union {r} /\ UNCHANGED <<remote, move>>
      BY <1>4 DEF OauthAddToPool, AddsTo
    <2>2. ask[r].row.prim \in Provider /\ stored[1] \in StorageRow /\ Len(stored[1].pool) < MaxPool
      BY <1>4, <1>f, <1>s DEF OauthAddToPool, AskFine
    <2>3. grown \in StorageRow
      BY <2>2, RowsMade
    <2> HIDE DEF grown
    <2>4. AskFine(a)
      BY <2>3, StepsOf DEF AskFine
    <2>5. AskMade(remote, a)
      BY <2>3, AllToCome DEF AskMade
    <2>6. StoredIsRow'
      BY <1>4 DEF StorageIInv, StoredIsRow, OauthAddToPool
    <2> HIDE DEF a
    <2> QED
      BY <2>1, <2>4, <2>5, <2>6, AskMoves
  <1>5. ASSUME NEW r \in Request, SetProviders(r) PROVE StorageIInv'
    <2>1. PICK p \in Provider : LET grown == [stored[1] EXCEPT !.pool = Append(@, p)] IN
            Asks(r, "pool", "ensure", grown, EnsureRemote(grown))
      BY <1>5 DEF SetProviders
    <2> DEFINE grown == [stored[1] EXCEPT !.pool = Append(@, p)]
    <2>2. grown \in StorageRow
      BY <1>5, <1>s, RowsMade DEF SetProviders
    <2>3. Asks(r, "pool", "ensure", grown, EnsureRemote(grown)) /\ UNCHANGED <<stored, remote, move>>
      BY <2>1, <1>5 DEF SetProviders
    <2> HIDE DEF grown
    <2> QED
      BY <2>2, <2>3, AskStarts
  <1>6. ASSUME NEW r \in Request, RemoveProvider(r) PROVE StorageIInv'
    <2>1. PICK i \in DOMAIN stored[1].pool : LET less == [stored[1] EXCEPT !.pool = Without(@, i)] IN
            Asks(r, "unpool", "ensure", less, EnsureRemote(less))
      BY <1>6 DEF RemoveProvider
    <2> DEFINE less == [stored[1] EXCEPT !.pool = Without(@, i)]
    <2>2. less \in StorageRow
      BY <1>6, <1>s, RowsMade DEF RemoveProvider
    <2>3. Asks(r, "unpool", "ensure", less, EnsureRemote(less)) /\ UNCHANGED <<stored, remote, move>>
      BY <2>1, <1>6 DEF RemoveProvider
    <2> HIDE DEF less
    <2> QED
      BY <2>2, <2>3, AskStarts
  <1>7. ASSUME NEW r \in Request, SetEvictPolicy(r) PROVE StorageIInv'
    BY <1>7, <1>s, AskStarts DEF SetEvictPolicy
  <1>8. ASSUME NEW r \in Request, CheckAccess(r) PROVE StorageIInv'
    <2> DEFINE a == ask[r]
               saw == <<Reached(RemoteOf(a.row))>>
               b == [at |-> "save", for |-> a.for, row |-> a.row, todo |-> a.todo, seen |-> saw]
    <2>1. a.at = "check" /\ AskFine(a) /\ UNCHANGED <<stored, remote, move, alone>>
      BY <1>8, <1>f DEF CheckAccess
    <2>2. ask' = [ask EXCEPT ![r] = b]
      <3>1. ask' = [ask EXCEPT ![r] = [[ask[r] EXCEPT !.at = "save"] EXCEPT !.seen = saw]]
        BY <1>8 DEF CheckAccess, StorageIInv, StorageShapes
      <3>3. a = [at |-> a.at, for |-> a.for, row |-> a.row, todo |-> a.todo, seen |-> a.seen]
        BY <2>1 DEF AskFine
      <3>2. [[a EXCEPT !.at = "save"] EXCEPT !.seen = saw] = b
        <4> HIDE DEF a, saw
        <4> QED
          BY <3>3, AskFields
      <3> QED
        BY <3>1, <3>2
    <2>3. AskFine(b)
      BY <2>1 DEF AskFine
    <2>4. r \in alone => Reached(RemoteOf(a.row)) = Promised(a.row)
      <3>1. r \in alone => InPlace(remote, a.row, <<>>)
        BY <2>1, <1>f DEF AskMade
      <3>2. a.row \in StorageRow
        BY <2>1 DEF AskFine
      <3> QED
        BY <3>1, <3>2, StepsOf
    <2>5. r \in alone => AskMade(remote, b)
      BY <2>4 DEF AskMade
    <2>6. StoredIsRow'
      BY <2>1 DEF StorageIInv, StoredIsRow
    <2> HIDE DEF b
    <2> QED
      BY <2>1, <2>2, <2>3, <2>5, <2>6, AskMoves
  <1>9. ASSUME NEW r \in Request, SaveStorageCreds(r) PROVE StorageIInv'
    <2>1. StoredIsRow'
      BY <1>9, <1>f DEF SaveStorageCreds, StoredIsRow, AskFine
    <2> QED
      BY <1>9, <2>1, AskRests DEF SaveStorageCreds
  <1>10. ASSUME NEW r \in Request, GivesUp(r) PROVE StorageIInv'
    <2>1. StoredIsRow'
      BY <1>10 DEF GivesUp, StoredIsRow, StorageIInv
    <2> QED
      BY <1>10, <2>1, AskRests DEF GivesUp
  <1>11. ASSUME SetStorage \/ DelStorage PROVE StorageIInv'
    <2>1. StoredIsRow'
      BY <1>11, RowsMade DEF SetStorage, DelStorage, StoredIsRow, Primary
    <2>2. UNCHANGED <<remote, ask, move, alone>>
      BY <1>11 DEF SetStorage, DelStorage
    <2> QED
      BY <2>1, <2>2 DEF StorageIInv, StorageShapes
  <1>12. ASSUME NEW t \in Transfer, ReadCreds(t) PROVE StorageIInv'
    <2> DEFINE m == [at |-> "ensure", row |-> stored[1], todo |-> EnsureRemote(stored[1])]
    <2>1. move' = [move EXCEPT ![t] = m] /\ alone' = alone \union {t} /\ UNCHANGED <<stored, remote, ask>>
      BY <1>12 DEF ReadCreds
    <2>2. stored[1] \in StorageRow
      BY <1>12, <1>s DEF ReadCreds
    <2>3. MoveFine(m)
      BY <2>2, StepsOf DEF MoveFine
    <2>4. MoveMade(remote, m)
      BY <2>2, AllToCome DEF MoveMade
    <2> HIDE DEF m
    <2> QED
      BY <2>1, <2>3, <2>4, MoveMoves
  <1>13. ASSUME NEW t \in Transfer, TransferEnds(t) PROVE StorageIInv'
    <2>1. MoveFine(RestMove) /\ MoveMade(remote, RestMove)
      BY RowsMade DEF MoveFine, MoveMade, RestMove
    <2> QED
      BY <1>13, <2>1, MoveMoves DEF TransferEnds
  <1>14. CASE UNCHANGED storageVars
    BY <1>14 DEF StorageIInv, StoredIsRow, StorageShapes, storageVars
  <1> QED
    BY <1>1, <1>2, <1>3, <1>4, <1>5, <1>6, <1>7, <1>8, <1>9, <1>10, <1>11, <1>12, <1>13, <1>14,
       EnsureKeeps, TransferEnsuresKeeps DEF StorageNext

LEMMA StorageIInvSays == StorageIInv => TransferKeepsItsRow /\ SavedWasReached
  <1> SUFFICES ASSUME StorageIInv PROVE TransferKeepsItsRow /\ SavedWasReached
    OBVIOUS
  <1>1. \A row \in StorageRow : InPlace(remote, row, <<>>) => Reached(RemoteOf(row)) = Promised(row)
    BY StepsOf
  <1>2. \A t \in Transfer \intersect alone : move[t].row \in StorageRow /\ MoveMade(remote, move[t])
    BY DEF StorageIInv, MoveFine
  <1> QED
    BY <1>1, <1>2 DEF StorageIInv, TransferKeepsItsRow, SavedWasReached, MoveMade, AskMade

\* A transfer whose remotes were made for no other row writes into its row's storages through
\* its row's passphrase, and what is saved is what the access check has listed (EnsureUserRemote,
\* EnsureUserUnion, api/internal/handlers/storage.go).
THEOREM StorageHolds == StorageSpec => [](TransferKeepsItsRow /\ SavedWasReached)
  <1>1. StorageInit => StorageIInv
    BY StorageInitially
  <1>2. StorageIInv /\ [StorageNext]_storageVars => StorageIInv'
    BY StorageStepKeeps
  <1>3. StorageIInv => TransferKeepsItsRow /\ SavedWasReached
    BY StorageIInvSays
  <1> QED
    BY <1>1, <1>2, <1>3, PTL DEF StorageSpec

-----------------------------------------------------------------------------
(* A feed's items.                                                         *)

\* What an item may still have been added for: it is marked, or it was admitted and its mark is
\* to come, and its download has not failed.
Marking(sw, i) == IF sw.stage = "mark" /\ sw.item = i THEN 1 ELSE 0
Running(rows, i) == IF rows[HashOf[i]] \in {"active", "over"} THEN 1 ELSE 0
Debt(done, sw, rows, i) == IF i \in done THEN 2 ELSE Marking(sw, i) + Running(rows, i)

RssTypes ==
  /\ sweep = [stage |-> sweep.stage, filter |-> sweep.filter, todo |-> sweep.todo, item |-> sweep.item]
  /\ sweep.stage \in {"idle", "next", "item", "mark"} /\ sweep.todo \in Seq(Items)
  /\ sweep.stage \in {"item", "mark"} => sweep.item \in Items
  /\ additions \in [Items -> Nat] /\ clears \in Nat /\ mishaps \in Nat
  /\ rssRows = [h \in Hashes |-> rssRows[h]] /\ reason = [i \in Items |-> reason[i]]
  /\ overtaken \in BOOLEAN

AddedInv ==
  /\ sweep.stage = "item" => sweep.item \notin seenDone
  /\ \A i \in Items : 2 * additions[i] <= 2 * clears + mishaps + Debt(seenDone, sweep, rssRows, i)

\* A sweep that was not overtaken has the filter of the row.
FilterInv ==
  /\ sweep.stage # "idle" /\ ~overtaken => sweep.filter = feedFilter
  /\ UnwantedIsUnwanted

RssIInv == RssTypes /\ AddedInv /\ FilterInv

LEMMA FeedIsSeq == Feed \in Seq(Items)
  <1>1. Feed \in [1 .. Len(Feed) -> DOMAIN Facts] /\ Len(Feed) \in Nat
    BY RssAssumption
  <1>2. \A k \in 1 .. Len(Feed) : Feed[k] \in Items
    BY DEF Items
  <1>3. Feed \in [1 .. Len(Feed) -> Items]
    BY <1>1, <1>2
  <1> QED
    BY <1>1, <1>3, SeqDef

LEMMA DebtBound ==
  ASSUME NEW done, NEW sw, NEW rows, NEW i
  PROVE  Debt(done, sw, rows, i) \in 0 .. 2
  BY DEF Debt, Marking, Running

LEMMA RssInitially == RssFresh => RssIInv
  <1> SUFFICES ASSUME RssFresh PROVE RssIInv
    OBVIOUS
  <1>1. RssTypes
    <2>1. sweep = [stage |-> "idle", filter |-> feedFilter, todo |-> <<>>, item |-> Feed[1]]
      BY DEF RssFresh, NoSweep
    <2>2. additions \in [Items -> Nat] /\ clears \in Nat /\ mishaps \in Nat /\ overtaken \in BOOLEAN
      BY DEF RssFresh
    <2>3. rssRows = [h \in Hashes |-> rssRows[h]] /\ reason = [i \in Items |-> reason[i]]
      BY DEF RssFresh
    <2>4. <<>> \in Seq(Items)
      OBVIOUS
    <2> QED
      BY <2>1, <2>2, <2>3, <2>4 DEF RssTypes
  <1>2. sweep.stage = "idle"
    BY DEF RssFresh, NoSweep
  <1>3. \A i \in Items : 2 * additions[i] <= 2 * clears + mishaps + Debt(seenDone, sweep, rssRows, i)
    <2> TAKE i \in Items
    <2>1. additions[i] = 0 /\ clears = 0 /\ mishaps = 0
      BY DEF RssFresh
    <2> QED
      BY <2>1, DebtBound
  <1>4. \A i \in Items : reason[i] = ""
    BY DEF RssFresh
  <1> QED
    BY <1>1, <1>2, <1>3, <1>4 DEF RssIInv, AddedInv, FilterInv, UnwantedIsUnwanted

\* The sum stays where no item is added and what is owed falls by no more than what happened.
LEMMA AddedStays ==
  ASSUME AddedInv, RssTypes, UNCHANGED additions,
         clears' \in Nat, mishaps' \in Nat,
         \A i \in Items : 2 * clears + mishaps + Debt(seenDone, sweep, rssRows, i)
                          <= 2 * clears' + mishaps' + Debt(seenDone', sweep', rssRows', i),
         sweep'.stage = "item" => sweep'.item \notin seenDone'
  PROVE  AddedInv'
  <1>1. ASSUME NEW i \in Items
        PROVE  2 * additions'[i] <= 2 * clears' + mishaps' + Debt(seenDone', sweep', rssRows', i)
    <2> DEFINE a == additions[i]
               d == Debt(seenDone, sweep, rssRows, i)
               e == Debt(seenDone', sweep', rssRows', i)
    <2>1. a \in Nat /\ d \in 0 .. 2 /\ e \in 0 .. 2 /\ clears \in Nat /\ mishaps \in Nat
      BY DebtBound DEF RssTypes
    <2>2. 2 * a <= 2 * clears + mishaps + d
      BY DEF AddedInv
    <2>3. 2 * clears + mishaps + d <= 2 * clears' + mishaps' + e
      OBVIOUS
    <2> HIDE DEF a, d, e
    <2>5. clears' \in Nat /\ mishaps' \in Nat
      OBVIOUS
    <2>4. 2 * a <= 2 * clears' + mishaps' + e
      <3>1. \A x, c, f, m, l \in Nat, v, w \in 0 .. 2 :
              2 * x <= 2 * c + m + v /\ 2 * c + m + v <= 2 * f + l + w => 2 * x <= 2 * f + l + w
        OBVIOUS
      <3> QED
        BY ONLY <3>1, <2>1, <2>2, <2>3, <2>5
    <2> QED
      BY <2>4 DEF a, e
  <1> QED
    BY <1>1 DEF AddedInv

\* An end of the sweep's step after which the sweep is not in the middle of an item.
LEMMA RssSteps == RssIInv /\ [RssNext]_rssVars => RssIInv'
  <1> SUFFICES ASSUME RssIInv, [RssNext]_rssVars PROVE RssIInv'
    OBVIOUS
  <1> USE DEF RssIInv
  <1>t. /\ clears \in Nat /\ mishaps \in Nat /\ sweep.todo \in Seq(Items)
        /\ \A done, sw, rows : \A i \in Items : Debt(done, sw, rows, i) \in 0 .. 2
    BY DebtBound DEF RssTypes
  <1>1. CASE SweepStarts
    <2>1. RssTypes'
      BY <1>1, FeedIsSeq DEF RssTypes, SweepStarts
    <2>2. \A i \in Items : Debt(seenDone', sweep', rssRows', i) = Debt(seenDone, sweep, rssRows, i)
      BY <1>1 DEF SweepStarts, Debt, Marking
    <2>3. AddedInv'
      <3>1. UNCHANGED additions /\ clears' = clears /\ mishaps' = mishaps /\ sweep'.stage # "item"
        BY <1>1 DEF SweepStarts
      <3> QED
        BY <2>2, <3>1, <1>t, AddedStays
    <2>4. FilterInv'
      BY <1>1 DEF SweepStarts, FilterInv, UnwantedIsUnwanted
    <2> QED
      BY <2>1, <2>3, <2>4
  <1>2. CASE SweepNext
    <2> DEFINE i == Head(sweep.todo)
               next == IF ItemTaken(i) THEN "item" ELSE "next"
    <2>1. i \in Items /\ Tail(sweep.todo) \in Seq(Items)
      BY <1>2, <1>t, HeadTailProperties DEF SweepNext
    <2>2. sweep' = [stage |-> next, filter |-> sweep.filter, todo |-> Tail(sweep.todo), item |-> i]
      BY <1>2 DEF SweepNext, RssTypes
    <2>3. \/ seenDone' = seenDone /\ reason' = reason
          \/ /\ i \notin seenDone /\ ~FeedMatches(sweep.filter, i)
             /\ seenDone' = seenDone \union {i}
             /\ reason' = [reason EXCEPT ![i] = IF overtaken THEN "late" ELSE "unwanted"]
      BY <1>2 DEF SweepNext, MarkSeen
    <2>r. sweep.stage = "next" /\ overtaken' = overtaken /\ feedFilter' = feedFilter
          /\ additions' = additions /\ clears' = clears /\ mishaps' = mishaps /\ rssRows' = rssRows
      BY <1>2 DEF SweepNext
    <2>s. next = "item" => i \notin seenDone' 
      BY <2>3 DEF ItemTaken
    <2>u. next \in {"item", "next"}
      OBVIOUS
    <2> HIDE DEF i, next
    <2>4. RssTypes'
      BY <2>1, <2>2, <2>3, <2>r, <2>u DEF RssTypes
    <2>5. \A k \in Items : Debt(seenDone, sweep, rssRows, k) <= Debt(seenDone', sweep', rssRows', k)
      <3> TAKE k \in Items
      <3>1. Marking(sweep, k) = 0 /\ Marking(sweep', k) = 0
        BY <2>r, <2>2, <2>u DEF Marking
      <3>2. Running(rssRows, k) \in 0 .. 1 /\ Running(rssRows', k) = Running(rssRows, k)
        BY <2>r DEF Running
      <3>3. k \in seenDone => k \in seenDone'
        BY <2>3
      <3> QED
        BY <3>1, <3>2, <3>3 DEF Debt
    <2>6. AddedInv'
      <3>1. \A k \in Items : 2 * clears + mishaps + Debt(seenDone, sweep, rssRows, k)
                          <= 2 * clears' + mishaps' + Debt(seenDone', sweep', rssRows', k)
        BY <2>5, <2>r, <1>t
      <3> QED
        BY <3>1, <2>r, <2>s, <2>2, <1>t, AddedStays
    <2>7. FilterInv'
      <3>1. (sweep.stage # "idle" /\ ~overtaken => sweep.filter = feedFilter) /\ UnwantedIsUnwanted
        BY DEF FilterInv
      <3>2. sweep'.filter = sweep.filter
        BY <2>2
      <3>3. ASSUME NEW k \in Items, reason'[k] = "unwanted" PROVE ~FeedMatches(feedFilter', k)
        <4>1. CASE reason'[k] = reason[k]
          BY <4>1, <3>1, <3>3, <2>r DEF UnwantedIsUnwanted
        <4>2. CASE reason'[k] # reason[k]
          <5>1. k = i /\ ~FeedMatches(sweep.filter, i) /\ reason'[k] = IF overtaken THEN "late" ELSE "unwanted"
            BY <4>2, <2>3 DEF RssTypes
          <5>2. ~overtaken
            BY <5>1, <3>3
          <5> QED
            BY <5>1, <5>2, <3>1, <2>r
        <4> QED
          BY <4>1, <4>2
      <3> QED
        BY <3>1, <3>2, <3>3, <2>r DEF FilterInv, UnwantedIsUnwanted
    <2> QED
      BY <2>4, <2>6, <2>7
  <1>3. CASE SweepOver \/ QueueFull \/ ApiRestarts
    <2>1. /\ sweep' = NoSweep(feedFilter) /\ overtaken' = FALSE
          /\ UNCHANGED <<feedFilter, seenDone, rssRows, additions, reason, clears>>
          /\ mishaps' \in {mishaps, mishaps + 1}
          /\ sweep.stage = "mark" => mishaps' = mishaps + 1
      BY <1>3 DEF SweepOver, QueueFull, ApiRestarts
    <2>2. RssTypes'
      <3>1. sweep' = [stage |-> "idle", filter |-> feedFilter, todo |-> <<>>, item |-> Feed[1]]
        BY <2>1 DEF NoSweep
      <3>2. mishaps' \in Nat
        BY ONLY <2>1, <1>t
      <3>3. <<>> \in Seq(Items)
        OBVIOUS
      <3>4. /\ sweep' = [stage |-> sweep'.stage, filter |-> sweep'.filter, todo |-> sweep'.todo, item |-> sweep'.item]
            /\ sweep'.stage = "idle" /\ sweep'.todo \in Seq(Items)
        BY <3>1, <3>3
      <3>5. additions' = additions /\ clears' = clears /\ rssRows' = rssRows /\ reason' = reason /\ overtaken' \in BOOLEAN
        BY <2>1
      <3> QED
        BY <3>2, <3>4, <3>5 DEF RssTypes
    <2>3. sweep'.stage = "idle"
      BY <2>1 DEF NoSweep
    <2>4. \A k \in Items : 2 * clears + mishaps + Debt(seenDone, sweep, rssRows, k)
                          <= 2 * clears' + mishaps' + Debt(seenDone', sweep', rssRows', k)
      <3> TAKE k \in Items
      <3>1. Marking(sweep', k) = 0 /\ Marking(sweep, k) \in 0 .. 1 /\ (Marking(sweep, k) = 1 => mishaps' = mishaps + 1)
        BY <2>1, <2>3 DEF Marking
      <3>2. Running(rssRows, k) \in 0 .. 1 /\ Running(rssRows', k) = Running(rssRows, k)
        BY <2>1 DEF Running
      <3>3. seenDone' = seenDone /\ clears' = clears /\ mishaps' \in {mishaps, mishaps + 1}
        BY <2>1
      <3> QED
        BY <3>1, <3>2, <3>3, <1>t DEF Debt
    <2>5. AddedInv'
      BY <2>1, <2>3, <2>4, <1>t, AddedStays
    <2>6. FilterInv'
      BY <2>1, <2>3 DEF FilterInv, UnwantedIsUnwanted
    <2> QED
      BY <2>2, <2>5, <2>6
  <1>4. CASE ItemUnfetched \/ ItemUnparsed \/ ItemRefused \/ ItemExists \/ ItemMarked
    <2> DEFINE x == sweep.item
    <2>1. /\ sweep.stage \in {"item", "mark"} /\ sweep' = [sweep EXCEPT !.stage = "next"]
          /\ UNCHANGED <<feedFilter, rssRows, additions, clears, overtaken>>
          /\ mishaps' \in {mishaps, mishaps + 1}
          /\ \/ seenDone' = seenDone /\ reason' = reason
             \/ seenDone' = seenDone \union {x} /\ reason' = [reason EXCEPT ![x] = "handled"]
          /\ sweep.stage = "mark" => seenDone' = seenDone \union {x}
      BY <1>4 DEF ItemUnfetched, ItemUnparsed, ItemRefused, ItemExists, ItemMarked, MarkSeen
    <2>2. sweep' = [stage |-> "next", filter |-> sweep.filter, todo |-> sweep.todo, item |-> x]
      BY <2>1 DEF RssTypes
    <2>3. RssTypes'
      <3>1. reason' = [i \in Items |-> reason'[i]]
        BY <2>1 DEF RssTypes
      <3>2. mishaps' \in Nat
        BY <2>1, <1>t
      <3> QED
        BY <2>1, <2>2, <3>1, <3>2 DEF RssTypes
    <2>4. \A k \in Items : Debt(seenDone, sweep, rssRows, k) <= Debt(seenDone', sweep', rssRows', k)
      <3> TAKE k \in Items
      <3>1. Marking(sweep', k) = 0 /\ Marking(sweep, k) \in 0 .. 1
            /\ (Marking(sweep, k) = 1 => k \in seenDone')
        BY <2>1, <2>2 DEF Marking
      <3>2. Running(rssRows, k) \in 0 .. 1 /\ Running(rssRows', k) = Running(rssRows, k)
        BY <2>1 DEF Running
      <3>3. k \in seenDone => k \in seenDone'
        BY <2>1
      <3> QED
        BY <3>1, <3>2, <3>3 DEF Debt
    <2>5. \A k \in Items : 2 * clears + mishaps + Debt(seenDone, sweep, rssRows, k)
                          <= 2 * clears' + mishaps' + Debt(seenDone', sweep', rssRows', k)
      <3>1. clears' = clears /\ mishaps' \in {mishaps, mishaps + 1}
        BY <2>1
      <3> QED
        BY <2>4, <3>1, <1>t
    <2>6. AddedInv'
      <3>1. additions' = additions /\ clears' \in Nat /\ mishaps' \in Nat /\ sweep'.stage # "item"
        BY <2>1, <2>2, <1>t
      <3> QED
        BY <3>1, <2>5, AddedStays
    <2>7. FilterInv'
      <3>1. \A k \in Items : reason'[k] = "unwanted" => reason[k] = "unwanted"
        BY <2>1 DEF RssTypes
      <3> QED
        BY <3>1, <2>1, <2>2 DEF FilterInv, UnwantedIsUnwanted
    <2> QED
      BY <2>3, <2>6, <2>7
  <1>5. CASE ItemAdmitted
    <2> DEFINE x == sweep.item
    <2>1. /\ sweep.stage = "item" /\ x \in Items /\ x \notin seenDone
          /\ rssRows[HashOf[x]] \notin {"active", "over"}
          /\ rssRows' = [rssRows EXCEPT ![HashOf[x]] = "active"]
          /\ additions' = [additions EXCEPT ![x] = @ + 1]
          /\ UNCHANGED <<feedFilter, seenDone, reason, clears, overtaken, mishaps>>
      BY <1>5 DEF ItemAdmitted, AddedInv, RssTypes
    <2>2. sweep' = [stage |-> "mark", filter |-> sweep.filter, todo |-> sweep.todo, item |-> x]
      BY <1>5 DEF ItemAdmitted, RssTypes
    <2>3. HashOf[x] \in Hashes
      BY <2>1 DEF Hashes
    <2>4. RssTypes'
      <3>1. additions' \in [Items -> Nat]
        BY <2>1 DEF RssTypes
      <3>2. rssRows' = [h \in Hashes |-> rssRows'[h]]
        BY <2>1, <2>3 DEF RssTypes
      <3> QED
        BY <3>1, <3>2, <2>1, <2>2 DEF RssTypes
    <2>5. rssRows'[HashOf[x]] = "active" /\ \A h \in Hashes : rssRows[h] \in {"active", "over"} => rssRows'[h] \in {"active", "over"}
      BY <2>1, <2>3 DEF RssTypes
    <2>6. ASSUME NEW k \in Items
          PROVE  2 * additions'[k] <= 2 * clears' + mishaps' + Debt(seenDone', sweep', rssRows', k)
      <3> DEFINE a == additions[k]
      <3>1. a \in Nat /\ 2 * a <= 2 * clears + mishaps + Debt(seenDone, sweep, rssRows, k)
        BY DEF AddedInv, RssTypes
      <3>2. CASE k = x
        <4>1. Debt(seenDone, sweep, rssRows, k) = 0
          BY <2>1, <3>2 DEF Debt, Marking, Running
        <4>2. Debt(seenDone', sweep', rssRows', k) = 2
          <5>1. Marking(sweep', k) = 1
            BY <2>2, <3>2 DEF Marking
          <5>2. Running(rssRows', k) = 1
            BY <2>5, <3>2 DEF Running
          <5>3. k \notin seenDone'
            BY <2>1, <3>2
          <5> QED
            BY <5>1, <5>2, <5>3 DEF Debt
        <4>3. additions'[k] = a + 1
          BY <2>1, <3>2 DEF RssTypes
        <4>4. clears' = clears /\ mishaps' = mishaps
          BY <2>1
        <4> HIDE DEF a
        <4> QED
          BY <3>1, <4>1, <4>2, <4>3, <4>4, <1>t
      <3>3. CASE k # x
        <4>1. additions'[k] = a
          BY <2>1, <3>3 DEF RssTypes
        <4>2. Marking(sweep, k) = 0 /\ Marking(sweep', k) = 0
          BY <2>1, <2>2, <3>3 DEF Marking
        <4>3. Running(rssRows, k) \in 0 .. 1 /\ Running(rssRows', k) \in 0 .. 1 /\ Running(rssRows, k) <= Running(rssRows', k)
          <5>1. HashOf[k] \in Hashes
            BY DEF Hashes
          <5> QED
            BY <2>5, <5>1 DEF Running
        <4>4. Debt(seenDone, sweep, rssRows, k) <= Debt(seenDone', sweep', rssRows', k)
          BY <2>1, <4>2, <4>3 DEF Debt
        <4>5. clears' = clears /\ mishaps' = mishaps
          BY <2>1
        <4> HIDE DEF a
        <4> QED
          BY <3>1, <4>1, <4>4, <4>5, <1>t
      <3> QED
        BY <3>2, <3>3
    <2>7. AddedInv'
      BY <2>6, <2>2 DEF AddedInv
    <2>8. FilterInv'
      BY <2>1, <2>2 DEF FilterInv, UnwantedIsUnwanted
    <2> QED
      BY <2>4, <2>7, <2>8
  <1>6. ASSUME NEW h \in Hashes, DownloadOver(h) PROVE RssIInv'
    <2>1. UNCHANGED <<feedFilter, seenDone, sweep, additions, reason, clears, overtaken>>
      BY <1>6 DEF DownloadOver
    <2>2. \/ rssRows' = [rssRows EXCEPT ![h] = "over"] /\ mishaps' = mishaps
          \/ rssRows' = [rssRows EXCEPT ![h] = "failed"] /\ mishaps' = mishaps + 1
      BY <1>6 DEF DownloadOver
    <2>3. RssTypes'
      <3>1. rssRows' = [g \in Hashes |-> rssRows'[g]]
        BY <2>2 DEF RssTypes
      <3>2. mishaps' \in Nat
        BY <2>2, <1>t
      <3> QED
        BY <2>1, <3>1, <3>2 DEF RssTypes
    <2>4. \A k \in Items : 2 * clears + mishaps + Debt(seenDone, sweep, rssRows, k)
                          <= 2 * clears' + mishaps' + Debt(seenDone', sweep', rssRows', k)
      <3> TAKE k \in Items
      <3>1. Marking(sweep, k) \in 0 .. 1 /\ Marking(sweep', k) = Marking(sweep, k)
        BY <2>1 DEF Marking
      <3>2. /\ Running(rssRows, k) \in 0 .. 1 /\ Running(rssRows', k) \in 0 .. 1
            /\ Running(rssRows, k) > Running(rssRows', k) => mishaps' = mishaps + 1
        <4>1. HashOf[k] \in Hashes
          BY DEF Hashes
        <4>2. mishaps' = mishaps \/ mishaps' = mishaps + 1
          BY <2>2
        <4>3. mishaps' # mishaps + 1 => (rssRows[HashOf[k]] \in {"active", "over"} => rssRows'[HashOf[k]] \in {"active", "over"})
          BY <2>2, <4>1 DEF RssTypes
        <4> QED
          BY <4>3 DEF Running
      <3>3. mishaps' = mishaps \/ mishaps' = mishaps + 1
        BY <2>2
      <3>4. seenDone' = seenDone /\ clears' = clears
        BY <2>1
      <3> QED
        BY <3>1, <3>2, <3>3, <3>4, <1>t DEF Debt
    <2>5. AddedInv'
      <3>1. mishaps' \in Nat /\ clears' \in Nat /\ additions' = additions
        BY <2>1, <2>2, <1>t
      <3>2. sweep'.stage = "item" => sweep'.item \notin seenDone'
        BY <2>1 DEF AddedInv
      <3> QED
        BY <2>4, <3>1, <3>2, AddedStays
    <2>6. FilterInv'
      BY <2>1 DEF FilterInv, UnwantedIsUnwanted
    <2> QED
      BY <2>3, <2>5, <2>6
  <1>7. ASSUME NEW f \in Criteria, UpdateFeed(f) PROVE RssIInv'
    <2>1. /\ seenDone' = {} /\ clears' = clears + 1 /\ reason' = [i \in Items |-> ""]
          /\ overtaken' = (sweep.stage # "idle") /\ UNCHANGED <<rssRows, sweep, additions, mishaps>>
      BY <1>7 DEF UpdateFeed
    <2>2. RssTypes'
      <3>0. clears' = clears + 1
        BY <2>1
      <3>1. clears' \in Nat
        BY ONLY <3>0, <1>t
      <3>2. overtaken' \in BOOLEAN
        BY <2>1
      <3> QED
        BY <2>1, <3>1, <3>2 DEF RssTypes
    <2>3. \A k \in Items : 2 * clears + mishaps + Debt(seenDone, sweep, rssRows, k)
                          <= 2 * clears' + mishaps' + Debt(seenDone', sweep', rssRows', k)
      <3>1. clears' = clears + 1 /\ mishaps' = mishaps
        BY <2>1
      <3>2. \A k \in Items : Debt(seenDone, sweep, rssRows, k) \in 0 .. 2 /\ Debt(seenDone', sweep', rssRows', k) \in 0 .. 2
        BY DebtBound
      <3> QED
        BY <3>1, <3>2, <1>t
    <2>4. AddedInv'
      <3>0. clears' = clears + 1 /\ mishaps' = mishaps /\ additions' = additions
        BY <2>1
      <3>1. mishaps' \in Nat /\ clears' \in Nat /\ additions' = additions
        BY ONLY <3>0, <1>t
      <3> QED
        BY <2>1, <2>3, <3>1, AddedStays
    <2>5. FilterInv'
      <3>1. \A k \in Items : reason'[k] = ""
        BY <2>1
      <3>2. sweep'.stage = "idle" \/ overtaken'
        BY <2>1
      <3> QED
        BY <3>1, <3>2 DEF FilterInv, UnwantedIsUnwanted
    <2> QED
      BY <2>2, <2>4, <2>5
  <1>8. CASE ToggleFeed \/ UNCHANGED rssVars
    <2>1. UNCHANGED <<feedFilter, seenDone, rssRows, sweep, additions, reason, clears, overtaken, mishaps>>
      BY <1>8 DEF ToggleFeed, rssVars
    <2> QED
      BY <2>1 DEF RssTypes, AddedInv, FilterInv, UnwantedIsUnwanted
  <1> QED
    BY <1>1, <1>2, <1>3, <1>4, <1>5, <1>6, <1>7, <1>8 DEF RssNext, SweepStep, SweepItem

LEMMA RssIInvSays == RssIInv => AddedOnce /\ UnwantedIsUnwanted
  <1> SUFFICES ASSUME RssIInv PROVE AddedOnce /\ UnwantedIsUnwanted
    OBVIOUS
  <1>1. ASSUME NEW i \in Items PROVE additions[i] <= 1 + clears + mishaps \div 2
    <2>1. 2 * additions[i] <= 2 * clears + mishaps + Debt(seenDone, sweep, rssRows, i)
      BY DEF RssIInv, AddedInv
    <2>2. additions[i] \in Nat /\ clears \in Nat /\ mishaps \in Nat
      BY DEF RssIInv, RssTypes
    <2>3. Debt(seenDone, sweep, rssRows, i) \in 0 .. 2
      BY DebtBound
    <2>4. \A a, c, m \in Nat, d \in 0 .. 2 : 2 * a <= 2 * c + m + d => a <= 1 + c + m \div 2
      OBVIOUS
    <2> QED
      BY <2>1, <2>2, <2>3, <2>4
  <1> QED
    BY <1>1 DEF AddedOnce, RssIInv, FilterInv

\* An item is added once, but for what crashes, failed downloads and edits of the criteria
\* account for, and what is put aside does not match the criteria (rss.go, rss_items.go).
THEOREM RssHolds == RssSpec => [](AddedOnce /\ UnwantedIsUnwanted)
  <1>1. RssInit => RssIInv
    BY RssInitially DEF RssInit
  <1>2. RssIInv /\ [RssNext]_rssVars => RssIInv'
    BY RssSteps
  <1>3. RssIInv => AddedOnce /\ UnwantedIsUnwanted
    BY RssIInvSays
  <1> QED
    BY <1>1, <1>2, <1>3, PTL DEF RssSpec

-----------------------------------------------------------------------------
(* A search over indexers.                                                 *)

\* What indexers list, whether an indexer's label is the id of a source at it, and what a
\* search may have copied.
Hits == UNION {UNION {{list[k] : k \in DOMAIN list} : list \in Answers[b]} : b \in DOMAIN Answers}
NamesSource(b, label) == \E d \in Asking : SourceAt(d).base = b /\ SourceAt(d).id = label
Copies ==
  {x \in [r : Hits, label : {SourceAt(d).id : d \in Asking}, base : DOMAIN Answers, age : 0 .. CacheTTL] :
     NamesSource(x.base, x.label)}

SearchShapes ==
  /\ phase = [c \in Asking |-> phase[c]] /\ inner = [c \in Asking |-> inner[c]]
  /\ slice = [c \in Asking |-> slice[c]] /\ cached = [b \in DOMAIN Answers |-> cached[b]]
  /\ answers = [q \in Search |-> answers[q]] /\ merged \in [Search -> Seq(Copies)]
  /\ DOMAIN fetched \subseteq Asking /\ fetched = [f \in DOMAIN fetched |-> fetched[f]]

\* A fetch is made once, of a list of the indexer's.
FetchInv ==
  \A f \in DOMAIN fetched :
    /\ inner[f] = "done" /\ fetched[f].list \in Seq(Hits) /\ fetched[f].age \in Nat
    /\ fetched[f] = [list |-> fetched[f].list, age |-> fetched[f].age, label |-> fetched[f].label]

CachedInv ==
  \A b \in DOMAIN Answers :
    cached[b] # NoFetch => cached[b] \in DOMAIN fetched /\ SourceAt(cached[b]).base = b

\* The slice a call has returned was listed by the indexer of its source, is fresh until it is
\* copied, and once it is labelled stays labelled with the id of a source at that indexer.
SliceFine(p, s, fs, c) ==
  /\ p \in {"got", "labelled"} =>
       s \in DOMAIN fs /\ SourceAt(s).base = SourceAt(c).base /\ fs[s].age <= CacheTTL
  /\ p = "labelled" => NamesSource(SourceAt(c).base, fs[s].label)
SliceInv ==
  \A c \in Asking : /\ phase[c] = "idle" => inner[c] = "off"
                    /\ SliceFine(phase[c], slice[c], fetched, c)

AnsweredInv ==
  \A q \in Search : answers[q] # NoAnswer =>
    /\ answers[q] = <<Verify(Dedup(merged[q]))>>
    /\ \A c \in AskingFor(q) : phase[c] \in {"merged", "dropped"}

SearchIInv == SearchShapes /\ FetchInv /\ CachedInv /\ SliceInv /\ AnsweredInv

-----------------------------------------------------------------------------
LEMMA HitsListed ==
  /\ \A b \in DOMAIN Answers : \A list \in Answers[b] : list \in Seq(Hits)
  /\ \A h \in Hits : h.grabs \in Int
  <1>1. ASSUME NEW b \in DOMAIN Answers, NEW list \in Answers[b] PROVE list \in Seq(Hits)
    <2>1. list \in Seq({list[k] : k \in DOMAIN list})
      BY SearchAssumption
    <2>2. \A k \in DOMAIN list : list[k] \in Hits
      BY DEF Hits
    <2>3. list \in [1 .. Len(list) -> {list[k] : k \in DOMAIN list}] /\ Len(list) \in Nat
      BY <2>1
    <2>4. list \in [1 .. Len(list) -> Hits]
      BY <2>2, <2>3
    <2> QED
      BY <2>3, <2>4, SeqDef
  <1>2. ASSUME NEW h \in Hits PROVE h.grabs \in Int
    <2>1. PICK b \in DOMAIN Answers : \E list \in Answers[b] : \E k \in DOMAIN list : h = list[k]
      BY DEF Hits
    <2> QED
      BY <2>1, SearchAssumption
  <1> QED
    BY <1>1, <1>2

LEMMA AskingIs ==
  ASSUME NEW c \in Asking
  PROVE  /\ c[1] \in Search /\ c[2] \in DOMAIN Sources[c[1]] /\ c \in AskingFor(c[1])
         /\ SourceAt(c).base \in DOMAIN Answers
  <1>1. PICK q \in Search : c \in {<<q, i>> : i \in DOMAIN Sources[q]}
    BY DEF Asking
  <1>2. PICK i \in DOMAIN Sources[q] : c = <<q, i>>
    BY <1>1
  <1>3. c[1] = q /\ c[2] = i
    BY <1>2
  <1> QED
    BY <1>3, SearchAssumption DEF AskingFor, SourceAt

LEMMA SearchInitially == SearchInit => SearchIInv
  <1> SUFFICES ASSUME SearchInit PROVE SearchIInv
    OBVIOUS
  <1>1. DOMAIN fetched = {}
    BY DEF SearchInit
  <1>2. merged \in [Search -> Seq(Copies)]
    BY DEF SearchInit
  <1>3. fetched = [f \in DOMAIN fetched |-> fetched[f]]
    BY DEF SearchInit
  <1>4. SearchShapes
    BY <1>1, <1>2, <1>3 DEF SearchInit, SearchShapes
  <1>5. CachedInv /\ AnsweredInv
    BY DEF SearchInit, CachedInv, AnsweredInv
  <1>6. SliceInv
    BY DEF SearchInit, SliceInv, SliceFine
  <1> QED
    BY <1>1, <1>4, <1>5, <1>6 DEF SearchIInv, FetchInv

\* A call that goes on without a fetch, an entry of the cache or a copy of its own.
LEMMA CallGoesOn ==
  ASSUME SearchIInv, NEW c \in Asking, NEW p, NEW i, NEW s,
         phase' = [phase EXCEPT ![c] = p], inner' = [inner EXCEPT ![c] = i], slice' = [slice EXCEPT ![c] = s],
         cached' = cached \/ \E b \in DOMAIN Answers : cached' = [cached EXCEPT ![b] = NoFetch],
         UNCHANGED <<fetched, merged, answers>>,
         phase[c] \notin {"merged", "dropped"} \/ p = phase[c],
         p # "idle", inner[c] = "done" => i = "done",
         SliceFine(p, s, fetched, c)
  PROVE  SearchIInv'
  <1>1. /\ phase' = [d \in Asking |-> phase'[d]] /\ phase'[c] = p /\ \A d \in Asking : d # c => phase'[d] = phase[d]
        /\ inner' = [d \in Asking |-> inner'[d]] /\ inner'[c] = i /\ \A d \in Asking : d # c => inner'[d] = inner[d]
        /\ slice' = [d \in Asking |-> slice'[d]] /\ slice'[c] = s /\ \A d \in Asking : d # c => slice'[d] = slice[d]
    BY DEF SearchIInv, SearchShapes
  <1>2. cached' = [b \in DOMAIN Answers |-> cached'[b]] /\ \A b \in DOMAIN Answers : cached'[b] \in {cached[b], NoFetch}
    BY DEF SearchIInv, SearchShapes
  <1>3. SearchShapes'
    BY <1>1, <1>2 DEF SearchIInv, SearchShapes
  <1>4. FetchInv'
    BY <1>1 DEF SearchIInv, FetchInv, SearchShapes
  <1>5. CachedInv'
    BY <1>2 DEF SearchIInv, CachedInv
  <1>6. SliceInv'
    BY <1>1 DEF SearchIInv, SliceInv
  <1>7. AnsweredInv'
    <2> SUFFICES ASSUME NEW q \in Search, answers[q] # NoAnswer, NEW d \in AskingFor(q)
                 PROVE  phase'[d] \in {"merged", "dropped"}
      BY DEF SearchIInv, AnsweredInv
    <2>1. d \in Asking /\ phase[d] \in {"merged", "dropped"}
      BY DEF SearchIInv, AnsweredInv, AskingFor
    <2> QED
      BY <2>1, <1>1
  <1> QED
    BY <1>3, <1>4, <1>5, <1>6, <1>7 DEF SearchIInv

LEMMA ArrivesKeeps == ASSUME SearchIInv, NEW c \in Asking, Arrives(c) PROVE SearchIInv'
  <1> DEFINE b == SourceAt(c).base
  <1>1. PICK list \in Answers[b] : fetched' = AddTo(fetched, c, [list |-> list, age |-> 0, label |-> "none"])
    BY DEF Arrives
  <1> DEFINE v == [list |-> list, age |-> 0, label |-> "none"]
  <1>2. b \in DOMAIN Answers /\ list \in Seq(Hits)
    BY AskingIs, HitsListed
  <1>3. c \notin DOMAIN fetched
    BY DEF Arrives, SearchIInv, FetchInv
  <1>4. /\ DOMAIN fetched' = DOMAIN fetched \union {c} /\ fetched'[c] = v
        /\ \A f \in DOMAIN fetched : fetched'[f] = fetched[f]
        /\ fetched' = [f \in DOMAIN fetched' |-> fetched'[f]]
    BY <1>1, <1>3 DEF AddTo
  <1>5. /\ inner' = [d \in Asking |-> inner'[d]] /\ inner'[c] = "done" /\ \A d \in Asking : d # c => inner'[d] = inner[d]
        /\ cached' = [e \in DOMAIN Answers |-> cached'[e]] /\ cached'[b] = c
        /\ \A e \in DOMAIN Answers : e # b => cached'[e] = cached[e]
    BY <1>2 DEF Arrives, SearchIInv, SearchShapes
  <1>6. /\ phase' = [d \in Asking |-> phase'[d]] /\ slice' = [d \in Asking |-> slice'[d]]
        /\ \A d \in Asking : d # c => phase'[d] = phase[d] /\ slice'[d] = slice[d]
        /\ \/ phase[c] = "waiting" /\ phase'[c] = "got" /\ slice'[c] = c
           \/ phase[c] # "waiting" /\ phase'[c] = phase[c] /\ slice'[c] = slice[c]
    BY DEF Arrives, SearchIInv, SearchShapes
  <1>7. UNCHANGED <<merged, answers>> /\ inner[c] = "out"
    BY DEF Arrives
  <1>8. SearchShapes'
    BY <1>4, <1>5, <1>6, <1>7 DEF SearchIInv, SearchShapes
  <1>9. FetchInv'
    <2>1. v.list \in Seq(Hits) /\ v.age \in Nat /\ v = [list |-> v.list, age |-> v.age, label |-> v.label]
      BY <1>2
    <2> HIDE DEF v
    <2>2. \A f \in DOMAIN fetched : f \in Asking
      BY DEF SearchIInv, SearchShapes
    <2> QED
      BY <1>4, <1>5, <2>1, <2>2 DEF SearchIInv, FetchInv
  <1>10. CachedInv'
    BY <1>4, <1>5 DEF SearchIInv, CachedInv
  <1>11. SliceInv'
    <2> SUFFICES ASSUME NEW d \in Asking
                 PROVE  /\ phase'[d] = "idle" => inner'[d] = "off"
                        /\ SliceFine(phase'[d], slice'[d], fetched', d)
      BY DEF SliceInv
    <2>1. (phase[d] = "idle" => inner[d] = "off") /\ SliceFine(phase[d], slice[d], fetched, d)
      BY DEF SearchIInv, SliceInv
    <2>2. SliceFine(phase[d], slice[d], fetched', d)
      BY <2>1, <1>4 DEF SliceFine
    <2>3. CASE phase'[d] = phase[d] /\ slice'[d] = slice[d]
      BY <2>1, <2>2, <2>3, <1>5, <1>7
    <2>4. CASE d = c /\ phase'[c] = "got" /\ slice'[c] = c
      <3>1. fetched'[c].age = 0 /\ 0 <= CacheTTL
        BY <1>4, SearchAssumption
      <3>2. SliceFine("got", c, fetched', c)
        BY <3>1, <1>4 DEF SliceFine
      <3> QED
        BY <2>4, <3>2
    <2> QED
      BY <2>3, <2>4, <1>6
  <1>12. AnsweredInv'
    <2> SUFFICES ASSUME NEW q \in Search, answers[q] # NoAnswer, NEW d \in AskingFor(q)
                 PROVE  phase'[d] \in {"merged", "dropped"}
      BY <1>7 DEF SearchIInv, AnsweredInv
    <2>1. d \in Asking /\ phase[d] \in {"merged", "dropped"}
      BY DEF SearchIInv, AnsweredInv, AskingFor
    <2> QED
      BY <2>1, <1>6
  <1> QED
    BY <1>8, <1>9, <1>10, <1>11, <1>12 DEF SearchIInv

LEMMA LabelKeeps == ASSUME SearchIInv, NEW c \in Asking, Label(c) PROVE SearchIInv'
  <1> DEFINE s == slice[c]
             id == SourceAt(c).id
  <1>1. s \in DOMAIN fetched /\ SourceAt(s).base = SourceAt(c).base /\ fetched[s].age <= CacheTTL
    BY DEF Label, SearchIInv, SliceInv, SliceFine
  <1>2. fetched' = [fetched EXCEPT ![s] = [fetched[s] EXCEPT !.label = id]]
    BY DEF Label
  <1>3. [fetched[s] EXCEPT !.label = id] = [list |-> fetched[s].list, age |-> fetched[s].age, label |-> id]
    BY <1>1 DEF SearchIInv, FetchInv
  <1>4. /\ DOMAIN fetched' = DOMAIN fetched /\ fetched' = [f \in DOMAIN fetched' |-> fetched'[f]]
        /\ fetched'[s] = [list |-> fetched[s].list, age |-> fetched[s].age, label |-> id]
        /\ \A f \in DOMAIN fetched : f # s => fetched'[f] = fetched[f]
    BY <1>1, <1>2, <1>3 DEF SearchIInv, SearchShapes
  <1>5. /\ phase' = [d \in Asking |-> phase'[d]] /\ phase'[c] = "labelled" /\ phase[c] = "got"
        /\ \A d \in Asking : d # c => phase'[d] = phase[d]
    BY DEF Label, SearchIInv, SearchShapes
  <1>6. UNCHANGED <<inner, slice, cached, merged, answers>>
    BY DEF Label
  <1> HIDE DEF s, id
  <1>7. SearchShapes'
    BY <1>4, <1>5, <1>6 DEF SearchIInv, SearchShapes
  <1>8. \A f \in DOMAIN fetched : fetched'[f].list = fetched[f].list /\ fetched'[f].age = fetched[f].age
    BY <1>4
  <1>9. FetchInv'
    <2> SUFFICES ASSUME NEW f \in DOMAIN fetched
                 PROVE  /\ inner[f] = "done" /\ fetched'[f].list \in Seq(Hits) /\ fetched'[f].age \in Nat
                        /\ fetched'[f] = [list |-> fetched'[f].list, age |-> fetched'[f].age, label |-> fetched'[f].label]
      BY <1>4, <1>6 DEF FetchInv
    <2>1. inner[f] = "done" /\ fetched[f].list \in Seq(Hits) /\ fetched[f].age \in Nat
          /\ fetched[f] = [list |-> fetched[f].list, age |-> fetched[f].age, label |-> fetched[f].label]
      BY DEF SearchIInv, FetchInv
    <2> QED
      BY <2>1, <1>4
  <1>10. CachedInv'
    BY <1>4, <1>6 DEF SearchIInv, CachedInv
  <1>11. SliceInv'
    <2> SUFFICES ASSUME NEW d \in Asking
                 PROVE  /\ phase'[d] = "idle" => inner'[d] = "off"
                        /\ SliceFine(phase'[d], slice'[d], fetched', d)
      BY DEF SliceInv
    <2>1. (phase[d] = "idle" => inner[d] = "off") /\ SliceFine(phase[d], slice[d], fetched, d)
      BY DEF SearchIInv, SliceInv
    <2>2. ASSUME phase[d] \in {"got", "labelled"}, slice[d] = s
          PROVE  NamesSource(SourceAt(d).base, fetched'[slice[d]].label)
      <3>1. SourceAt(c).base = SourceAt(d).base
        BY <2>1, <2>2, <1>1 DEF SliceFine
      <3> QED
        BY <2>2, <3>1, <1>4 DEF NamesSource, id
    <2>3. ASSUME phase[d] \in {"got", "labelled"}
          PROVE  slice[d] \in DOMAIN fetched' /\ SourceAt(slice[d]).base = SourceAt(d).base /\ fetched'[slice[d]].age <= CacheTTL
      BY <2>1, <2>3, <1>4, <1>8 DEF SliceFine
    <2>4. ASSUME phase[d] = "labelled" PROVE NamesSource(SourceAt(d).base, fetched'[slice[d]].label)
      <3>1. CASE slice[d] = s
        BY <3>1, <2>2, <2>4
      <3>2. CASE slice[d] # s
        BY <3>2, <2>1, <2>4, <1>4 DEF SliceFine
      <3> QED
        BY <3>1, <3>2
    <2>5. CASE d = c
      BY <2>5, <2>2, <2>3, <1>5, <1>6 DEF SliceFine, s
    <2>6. CASE d # c
      BY <2>6, <2>1, <2>3, <2>4, <1>5, <1>6 DEF SliceFine
    <2> QED
      BY <2>5, <2>6
  <1>12. AnsweredInv'
    <2> SUFFICES ASSUME NEW q \in Search, answers[q] # NoAnswer, NEW d \in AskingFor(q)
                 PROVE  phase'[d] \in {"merged", "dropped"}
      BY <1>6 DEF SearchIInv, AnsweredInv
    <2>1. d \in Asking /\ phase[d] \in {"merged", "dropped"}
      BY DEF SearchIInv, AnsweredInv, AskingFor
    <2> QED
      BY <2>1, <1>5
  <1> QED
    BY <1>7, <1>9, <1>10, <1>11, <1>12 DEF SearchIInv

LEMMA MergeInKeeps == ASSUME SearchIInv, NEW c \in Asking, MergeIn(c) PROVE SearchIInv'
  <1> DEFINE f == fetched[slice[c]]
             q == c[1]
             copied == [k \in DOMAIN f.list |->
               [r |-> f.list[k], label |-> f.label, base |-> SourceAt(c).base, age |-> f.age]]
  <1>1. /\ f.list \in Seq(Hits) /\ f.age \in 0 .. CacheTTL /\ NamesSource(SourceAt(c).base, f.label)
    <2>1. SliceFine("labelled", slice[c], fetched, c)
      BY DEF MergeIn, SearchIInv, SliceInv
    <2>2. slice[c] \in DOMAIN fetched /\ f.age <= CacheTTL /\ NamesSource(SourceAt(c).base, f.label)
      BY <2>1 DEF SliceFine
    <2>3. f.list \in Seq(Hits) /\ f.age \in Nat
      BY <2>2 DEF SearchIInv, FetchInv
    <2> HIDE DEF f
    <2>4. f.age \in 0 .. CacheTTL
      BY <2>2, <2>3, SearchAssumption
    <2> QED
      BY <2>2, <2>3, <2>4
  <1>2. q \in Search /\ SourceAt(c).base \in DOMAIN Answers
    BY AskingIs
  <1>3. copied \in Seq(Copies)
    <2> HIDE DEF f
    <2>1. f.label \in {SourceAt(d).id : d \in Asking}
      BY <1>1 DEF NamesSource
    <2>2. DOMAIN f.list = 1 .. Len(f.list) /\ Len(f.list) \in Nat /\ \A k \in 1 .. Len(f.list) : f.list[k] \in Hits
      BY <1>1
    <2>3. ASSUME NEW k \in DOMAIN f.list PROVE copied[k] \in Copies
      BY <1>1, <1>2, <2>1, <2>2 DEF Copies
    <2>4. copied \in [1 .. Len(f.list) -> Copies]
      BY <2>2, <2>3
    <2> QED
      BY <2>2, <2>4, SeqDef
  <1>4. merged' = [merged EXCEPT ![q] = merged[q] \o copied]
    BY DEF MergeIn
  <1> HIDE DEF copied, f
  <1>5. merged[q] \o copied \in Seq(Copies)
    BY <1>2, <1>3, ConcatProperties DEF SearchIInv, SearchShapes
  <1>6. merged' \in [Search -> Seq(Copies)] /\ \A p \in Search : p # q => merged'[p] = merged[p]
    BY <1>2, <1>4, <1>5 DEF SearchIInv, SearchShapes
  <1>7. /\ phase' = [d \in Asking |-> phase'[d]] /\ phase'[c] = "merged" /\ phase[c] = "labelled"
        /\ \A d \in Asking : d # c => phase'[d] = phase[d]
    BY DEF MergeIn, SearchIInv, SearchShapes
  <1>8. UNCHANGED <<inner, slice, cached, fetched, answers>>
    BY DEF MergeIn
  <1>9. SearchShapes'
    BY <1>6, <1>7, <1>8 DEF SearchIInv, SearchShapes
  <1>10. FetchInv' /\ CachedInv'
    BY <1>8 DEF SearchIInv, FetchInv, CachedInv
  <1>11. SliceInv'
    BY <1>7, <1>8 DEF SearchIInv, SliceInv, SliceFine
  <1>12. AnsweredInv'
    <2> SUFFICES ASSUME NEW p \in Search, answers[p] # NoAnswer
                 PROVE  merged'[p] = merged[p] /\ \A d \in AskingFor(p) : phase'[d] \in {"merged", "dropped"}
      BY <1>8 DEF SearchIInv, AnsweredInv
    <2>1. \A d \in AskingFor(p) : d \in Asking /\ phase[d] \in {"merged", "dropped"}
      BY DEF SearchIInv, AnsweredInv, AskingFor
    <2>2. p # q
      BY <2>1, <1>7, AskingIs
    <2> QED
      BY <2>1, <2>2, <1>6, <1>7
  <1> QED
    BY <1>9, <1>10, <1>11, <1>12 DEF SearchIInv

LEMMA SearchStepKeeps == SearchIInv /\ [SearchNext]_searchVars => SearchIInv'
  <1> SUFFICES ASSUME SearchIInv, [SearchNext]_searchVars PROVE SearchIInv'
    OBVIOUS
  <1>s. /\ phase = [c \in Asking |-> phase[c]] /\ inner = [c \in Asking |-> inner[c]]
        /\ slice = [c \in Asking |-> slice[c]]
    BY DEF SearchIInv, SearchShapes
  <1>k. \A c \in Asking : inner = [inner EXCEPT ![c] = inner[c]] /\ slice = [slice EXCEPT ![c] = slice[c]]
                          /\ phase = [phase EXCEPT ![c] = phase[c]]
    BY <1>s
  <1>1. ASSUME NEW c \in Asking, Enter(c) PROVE SearchIInv'
    <2> DEFINE b == SourceAt(c).base
               hit == CacheGet(b)
    <2>1. b \in DOMAIN Answers
      BY AskingIs
    <2>2. phase[c] = "idle" /\ inner[c] = "off" /\ UNCHANGED <<fetched, merged, answers>>
      BY <1>1 DEF Enter, SearchIInv, SliceInv
    <2>3. CASE hit # NoFetch
      <3>1. hit = cached[b] /\ fetched[hit].age <= CacheTTL
        BY <2>3 DEF CacheGet
      <3>2. SliceFine("got", hit, fetched, c)
        BY <2>1, <2>3, <3>1 DEF SearchIInv, CachedInv, SliceFine
      <3>3. /\ phase' = [phase EXCEPT ![c] = "got"] /\ inner' = [inner EXCEPT ![c] = "done"]
            /\ slice' = [slice EXCEPT ![c] = hit] /\ cached' = cached
        BY <1>1, <2>3 DEF Enter
      <3> HIDE DEF hit
      <3> QED
        BY <2>2, <3>2, <3>3, CallGoesOn
    <2>4. CASE hit = NoFetch
      <3>1. SliceFine("waiting", slice[c], fetched, c)
        BY DEF SliceFine
      <3>2. /\ phase' = [phase EXCEPT ![c] = "waiting"] /\ inner' = [inner EXCEPT ![c] = "out"]
            /\ slice' = [slice EXCEPT ![c] = slice[c]] /\ cached' = [cached EXCEPT ![b] = NoFetch]
        BY <1>1, <1>k, <2>4 DEF Enter
      <3> HIDE DEF hit, b
      <3> QED
        BY <2>1, <2>2, <3>1, <3>2, CallGoesOn
    <2> QED
      BY <2>3, <2>4
  <1>2. ASSUME NEW c \in Asking, CallRefused(c) PROVE SearchIInv'
    <2> DEFINE p == IF phase[c] = "waiting" THEN "dropped" ELSE phase[c]
    <2>1. phase' = [phase EXCEPT ![c] = p] /\ inner' = [inner EXCEPT ![c] = "done"] /\ slice' = [slice EXCEPT ![c] = slice[c]]
      BY <1>2, <1>k DEF CallRefused
    <2>2. SliceFine(phase[c], slice[c], fetched, c) /\ phase[c] # "idle"
      BY <1>2 DEF SearchIInv, SliceInv, CallRefused
    <2>3. SliceFine(p, slice[c], fetched, c) /\ p # "idle" /\ (phase[c] \notin {"merged", "dropped"} \/ p = phase[c])
      BY <2>2 DEF SliceFine
    <2>4. UNCHANGED <<cached, fetched, merged, answers>>
      BY <1>2 DEF CallRefused
    <2> HIDE DEF p
    <2> QED
      BY <2>1, <2>3, <2>4, CallGoesOn
  <1>3. ASSUME NEW c \in Asking, TimesOut(c) PROVE SearchIInv'
    <2>1. phase' = [phase EXCEPT ![c] = "dropped"] /\ inner' = [inner EXCEPT ![c] = inner[c]] /\ slice' = [slice EXCEPT ![c] = slice[c]]
      BY <1>3, <1>k DEF TimesOut
    <2>2. SliceFine("dropped", slice[c], fetched, c)
      BY DEF SliceFine
    <2>3. UNCHANGED <<cached, fetched, merged, answers>> /\ phase[c] = "waiting"
      BY <1>3 DEF TimesOut
    <2> QED
      BY <2>1, <2>2, <2>3, CallGoesOn
  <1>4. ASSUME NEW q \in Search, SearchAnswered(q) PROVE SearchIInv'
    <2>1. answers' = [p \in Search |-> answers'[p]] /\ answers'[q] = <<Verify(Dedup(merged[q]))>>
          /\ \A p \in Search : p # q => answers'[p] = answers[p]
      BY <1>4 DEF SearchAnswered, SearchIInv, SearchShapes
    <2>2. UNCHANGED <<phase, inner, slice, fetched, cached, merged>> /\ \A c \in AskingFor(q) : phase[c] \in {"merged", "dropped"}
      BY <1>4 DEF SearchAnswered
    <2>3. AnsweredInv'
      BY <2>1, <2>2 DEF SearchIInv, AnsweredInv
    <2>4. SearchShapes' /\ FetchInv' /\ CachedInv' /\ SliceInv'
      <3>1. SearchShapes'
        BY <2>1, <2>2 DEF SearchIInv, SearchShapes
      <3>2. FetchInv'
        BY <2>2 DEF SearchIInv, FetchInv
      <3>3. CachedInv' /\ SliceInv'
        BY <2>2 DEF SearchIInv, CachedInv, SliceInv
      <3> QED
        BY <3>1, <3>2, <3>3
    <2> QED
      BY <2>3, <2>4 DEF SearchIInv
  <1>5. CASE SearchTick
    <2>1. /\ fetched' = [c \in DOMAIN fetched |-> [fetched[c] EXCEPT !.age = Later(@)]]
          /\ UNCHANGED <<phase, inner, slice, cached, merged, answers>>
          /\ \A c \in Asking : phase[c] \notin {"got", "labelled"}
      BY <1>5 DEF SearchTick
    <2>2. DOMAIN fetched' = DOMAIN fetched /\ fetched' = [c \in DOMAIN fetched' |-> fetched'[c]]
      BY <2>1
    <2>3. SearchShapes' /\ CachedInv' /\ AnsweredInv'
      BY <2>1, <2>2 DEF SearchIInv, SearchShapes, CachedInv, AnsweredInv
    <2>4. SliceInv'
      BY <2>1 DEF SearchIInv, SliceInv, SliceFine
    <2>5. FetchInv'
      <3> SUFFICES ASSUME NEW f \in DOMAIN fetched
                   PROVE  /\ inner[f] = "done" /\ fetched'[f].list \in Seq(Hits) /\ fetched'[f].age \in Nat
                          /\ fetched'[f] = [list |-> fetched'[f].list, age |-> fetched'[f].age, label |-> fetched'[f].label]
        BY <2>1, <2>2 DEF FetchInv
      <3>1. inner[f] = "done" /\ fetched[f].list \in Seq(Hits) /\ fetched[f].age \in Nat
            /\ fetched[f] = [list |-> fetched[f].list, age |-> fetched[f].age, label |-> fetched[f].label]
        BY DEF SearchIInv, FetchInv
      <3>2. fetched'[f] = [list |-> fetched[f].list, age |-> Later(fetched[f].age), label |-> fetched[f].label]
        BY <2>1, <3>1
      <3>3. \A n \in Nat : Later(n) \in Nat
        BY DEF Later
      <3> QED
        BY <3>1, <3>2, <3>3
    <2> QED
      BY <2>3, <2>4, <2>5 DEF SearchIInv
  <1>6. CASE UNCHANGED searchVars
    <2>1. UNCHANGED <<phase, inner, slice, fetched, cached, merged, answers>>
      BY <1>6 DEF searchVars
    <2>2. SearchShapes'
      BY <2>1 DEF SearchIInv, SearchShapes
    <2>3. FetchInv'
      BY <2>1 DEF SearchIInv, FetchInv
    <2>4. CachedInv' /\ SliceInv'
      BY <2>1 DEF SearchIInv, CachedInv, SliceInv
    <2>5. AnsweredInv'
      BY <2>1 DEF SearchIInv, AnsweredInv
    <2> QED
      BY <2>2, <2>3, <2>4, <2>5 DEF SearchIInv
  <1>7. \A q \in Search : AskingFor(q) \subseteq Asking
    BY DEF AskingFor
  <1> QED
    BY <1>1, <1>2, <1>3, <1>4, <1>5, <1>6, <1>7, ArrivesKeeps, LabelKeeps, MergeInKeeps DEF SearchNext, SearchStep

\* Of twins, the one with the most grabs, and of those the first, stays.
LEMMA DedupKeepsBest ==
  ASSUME NEW s \in Seq(Copies), NEW x \in Verify(Dedup(s)), NEW y \in Verify(Dedup(s)), Twins(x, y)
  PROVE  x = y /\ \A j \in DOMAIN s : Twins(x, s[j]) => s[j].r.grabs <= x.r.grabs
  <1> DEFINE best(k) == \A j \in DOMAIN s : Twins(s[k], s[j]) =>
                   \/ s[k].r.grabs > s[j].r.grabs
                   \/ s[k].r.grabs = s[j].r.grabs /\ k <= j
  <1>1. PICK k \in DOMAIN s : best(k) /\ x = s[k]
    BY DEF Verify, Dedup
  <1>2. PICK l \in DOMAIN s : best(l) /\ y = s[l]
    BY DEF Verify, Dedup
  <1>3. Twins(s[k], s[l]) /\ Twins(s[l], s[k])
    BY <1>1, <1>2 DEF Twins
  <1>4. \A j \in DOMAIN s : s[j].r.grabs \in Int
    <2> TAKE j \in DOMAIN s
    <2>1. s[j] \in Copies
      OBVIOUS
    <2>2. s[j].r \in Hits
      BY <2>1 DEF Copies
    <2> QED
      BY <2>2, HitsListed
  <1>5. DOMAIN s = 1 .. Len(s) /\ Len(s) \in Nat
    OBVIOUS
  <1>6. /\ s[k].r.grabs > s[l].r.grabs \/ (s[k].r.grabs = s[l].r.grabs /\ k <= l)
        /\ s[l].r.grabs > s[k].r.grabs \/ (s[l].r.grabs = s[k].r.grabs /\ l <= k)
    BY <1>1, <1>2, <1>3
  <1>7. k = l
    BY <1>4, <1>5, <1>6
  <1>8. ASSUME NEW j \in DOMAIN s, Twins(x, s[j]) PROVE s[j].r.grabs <= x.r.grabs
    <2>1. s[k].r.grabs > s[j].r.grabs \/ s[k].r.grabs = s[j].r.grabs
      BY <1>1, <1>8
    <2>2. s[k].r.grabs \in Int /\ s[j].r.grabs \in Int
      BY <1>4
    <2>3. s[j].r.grabs <= s[k].r.grabs
      BY <2>1, <2>2
    <2> QED
      BY <2>3, <1>1
  <1> QED
    BY <1>1, <1>2, <1>7, <1>8

LEMMA SearchIInvSays == SearchIInv => AnswersAreFresh /\ LabelNamesIndexer /\ BestOfTwins
  <1> SUFFICES ASSUME SearchIInv PROVE AnswersAreFresh /\ LabelNamesIndexer /\ BestOfTwins
    OBVIOUS
  <1>1. \A q \in Search : merged[q] \in Seq(Copies)
    BY DEF SearchIInv, SearchShapes
  <1>2. ASSUME NEW q \in Search, NEW k \in DOMAIN merged[q]
        PROVE  merged[q][k].age \in 0 .. CacheTTL /\ NamesSource(merged[q][k].base, merged[q][k].label)
    <2>1. merged[q][k] \in Copies
      BY <1>1
    <2> QED
      BY <2>1 DEF Copies
  <1>3. AnswersAreFresh
    BY <1>2, SearchAssumption DEF AnswersAreFresh
  <1>4. LabelNamesIndexer
    <2> SUFFICES ASSUME NEW q \in Search, NEW k \in DOMAIN merged[q]
                 PROVE  \E c \in {c \in Asking : SourceAt(c).base = merged[q][k].base} :
                          /\ SourceAt(c).id = merged[q][k].label
                          /\ (\A d \in {e \in Asking : SourceAt(e).base = merged[q][k].base} : d[1] = q) => c[1] = q
      BY DEF LabelNamesIndexer
    <2>1. PICK c \in Asking : SourceAt(c).base = merged[q][k].base /\ SourceAt(c).id = merged[q][k].label
      BY <1>2 DEF NamesSource
    <2> QED
      BY <2>1
  <1>5. BestOfTwins
    <2> SUFFICES ASSUME NEW q \in Search, answers[q] # NoAnswer, NEW x \in answers[q][1], NEW y \in answers[q][1], Twins(x, y)
                 PROVE  x = y /\ \A k \in DOMAIN merged[q] : Twins(x, merged[q][k]) => merged[q][k].r.grabs <= x.r.grabs
      BY DEF BestOfTwins
    <2>1. answers[q] = <<Verify(Dedup(merged[q]))>>
      BY DEF SearchIInv, AnsweredInv
    <2>2. x \in Verify(Dedup(merged[q])) /\ y \in Verify(Dedup(merged[q]))
      BY <2>1
    <2> QED
      BY <1>1, <2>2, DedupKeepsBest
  <1> QED
    BY <1>3, <1>4, <1>5

\* What a search merges is fresh and labelled with the id of a source at the indexer that listed
\* it, and of twins its answer has the one with the most grabs (search.go, fanout.go, verify.go).
THEOREM SearchHolds == SearchSpec => [](AnswersAreFresh /\ LabelNamesIndexer /\ BestOfTwins)
  <1>1. SearchInit => SearchIInv
    BY SearchInitially
  <1>2. SearchIInv /\ [SearchNext]_searchVars => SearchIInv'
    BY SearchStepKeeps
  <1>3. SearchIInv => AnswersAreFresh /\ LabelNamesIndexer /\ BestOfTwins
    BY SearchIInvSays
  <1> QED
    BY <1>1, <1>2, <1>3, PTL DEF SearchSpec

-----------------------------------------------------------------------------
(* Titles fetched ahead.                                                   *)

\* A row whose download ended without being kept, as far as no look-up was lost and no process
\* ended; a release that was fetched; and the better ones than a release.
Ended(rows, m, i) == m = 0 => rows[i].state \in {"failed", "evicted"}
Tried(rows, m, t, n) ==
  \E j \in DOMAIN rows : rows[j].title = t /\ rows[j].nr = n /\ Ended(rows, m, j)
BetterTried(rows, m, t, n) == \A k \in (1 .. n - 1) \ Unwanted[t] : Tried(rows, m, t, k)

\* The releases that come after a row's.
RestOf(rows, i, left) ==
  /\ i \in DOMAIN rows /\ left = From(rows[i].title, rows[i].nr + 1)
  /\ rows[i].nr < Releases[rows[i].title]

WarmRow == [title : Title, nr : Nat, state : State, gone : BOOLEAN]
WarmTypes ==
  /\ warmRows \in Seq(WarmRow) /\ warmMishaps \in Nat
  /\ turn = [a \in Actor |-> turn[a]] /\ agenda = [r \in Retrier |-> agenda[r]]

RowFine(rows, m, i) ==
  /\ rows[i].nr \in 1 .. Releases[rows[i].title]
  /\ rows[i].gone => Ended(rows, m, i)
  /\ \A n \in (1 .. rows[i].nr - 1) \ Unwanted[rows[i].title] :
       \E j \in 1 .. i - 1 : rows[j].title = rows[i].title /\ rows[j].nr = n /\ Ended(rows, m, j)

ListsInv ==
  /\ \A i \in DOMAIN fallback : RestOf(warmRows, i, fallback[i])
  /\ \A r \in Retrier : \A f \in agenda[r] : RestOf(warmRows, f.row, f.left)

\* Who makes a row has tried the better releases, or is putting it where an ended one was.
TurnFine(rows, m, u) ==
  /\ u = [step |-> u.step, title |-> u.title, left |-> u.left, made |-> u.made, from |-> u.from]
  /\ u.step = "chosen" =>
       u.title \in Title /\ \E n \in 1 .. Releases[u.title] :
         u.left = From(u.title, n) /\ BetterTried(rows, m, u.title, n)
  /\ u.step = "created" => u.made \in DOMAIN rows /\ u.left = From(rows[u.made].title, rows[u.made].nr + 1)
  /\ u.step # "idle" /\ u.from # 0 => u.from \in DOMAIN rows /\ Ended(rows, m, u.from)
  /\ u.step \in {"stored", "dropped"} => u.from # 0

\* A row that is under way or has failed keeps its list until another has taken its place.
HoldsRow(u, i) == (u.step = "created" /\ u.made = i) \/ (u.step = "dropped" /\ u.from = i)
Needs(rows, i) ==
  ~rows[i].gone /\ rows[i].state \in {"active", "failed"} /\ rows[i].nr < Releases[rows[i].title]
KeptInv ==
  warmMishaps = 0 => \A i \in DOMAIN warmRows :
    Needs(warmRows, i) => i \in DOMAIN fallback \/ \E a \in Actor : HoldsRow(turn[a], i)

WarmIInv ==
  /\ WarmTypes /\ ListsInv /\ KeptInv
  /\ \A i \in DOMAIN warmRows : RowFine(warmRows, warmMishaps, i)
  /\ \A a \in Actor : TurnFine(warmRows, warmMishaps, turn[a])

-----------------------------------------------------------------------------
LEMMA LeastIs ==
  ASSUME NEW S, S \subseteq Nat, S # {}
  PROVE  \E n \in S : \A k \in S : n <= k
  <1>1. PICK x \in S : \A y \in S : ~(<<y, x>> \in OpToRel(<, Nat))
    BY WFMin, NatLessThanWellFounded
  <1>2. \A y \in S : ~(y < x)
    BY <1>1 DEF OpToRel
  <1> QED
    BY <1>2

LEMMA MinIs ==
  ASSUME NEW S, S \subseteq Nat, S # {}
  PROVE  Min(S) \in S /\ \A k \in S : Min(S) <= k
  BY LeastIs DEF Min

LEMMA MaxIs ==
  ASSUME NEW N \in Nat, NEW S, S \subseteq 1 .. N, S # {}
  PROVE  Max(S) \in S
  <1> DEFINE T == {N - i : i \in S}
  <1>1. T \subseteq Nat /\ T # {}
    <2>1. \A i \in S : N - i \in Nat
      OBVIOUS
    <2> QED
      BY <2>1
  <1>2. PICK d \in T : \A k \in T : d <= k
    BY <1>1, LeastIs
  <1>3. PICK m \in S : d = N - m
    BY <1>2
  <1>4. \A k \in S : N - k \in T
    OBVIOUS
  <1> HIDE DEF T
  <1>5. \A k \in S : N - m <= N - k
    BY <1>2, <1>3, <1>4
  <1>6. \A k \in S : m >= k
    BY <1>5
  <1> QED
    BY <1>6 DEF Max

LEMMA FromParts ==
  ASSUME NEW t \in Title, NEW n \in 1 .. Releases[t] + 1
  PROVE  /\ From(t, n) \in Seq(Nat) /\ Len(From(t, n)) = Releases[t] - n + 1
         /\ From(t, n) = <<>> <=> n = Releases[t] + 1
         /\ n <= Releases[t] => Head(From(t, n)) = n /\ Tail(From(t, n)) = From(t, n + 1)
  <1> DEFINE R == Releases[t]
             s == From(t, n)
  <1>1. R \in Nat /\ n \in 1 .. R + 1
    BY PrewarmAssumption
  <1> HIDE DEF R
  <1>2. ASSUME NEW k \in 1 .. R + 1
        PROVE  /\ From(t, k) \in Seq(Nat) /\ Len(From(t, k)) = R - k + 1
               /\ \A i \in 1 .. R - k + 1 : From(t, k)[i] = k + i - 1
    <2>1. From(t, k) = [i \in 1 .. R - k + 1 |-> k + i - 1]
      BY DEF From, R
    <2>2. R - k + 1 \in Nat
      BY <1>1
    <2>3. \A i \in 1 .. R - k + 1 : k + i - 1 \in Nat
      BY <1>1
    <2>4. From(t, k) \in [1 .. R - k + 1 -> Nat]
      BY <2>1, <2>3
    <2> QED
      BY <2>1, <2>2, <2>4
  <1>3. s = <<>> <=> n = R + 1
    <2>1. s \in Seq(Nat) /\ Len(s) = R - n + 1
      BY <1>1, <1>2
    <2> HIDE DEF s
    <2>2. s = <<>> <=> Len(s) = 0
      BY <2>1
    <2> QED
      BY <2>1, <2>2, <1>1
  <1>4. ASSUME n <= R PROVE Head(s) = n /\ Tail(s) = From(t, n + 1)
    <2>1. s \in Seq(Nat) /\ Len(s) = R - n + 1 /\ \A i \in 1 .. R - n + 1 : s[i] = n + i - 1
      BY <1>1, <1>2
    <2>2. s # <<>>
      BY <1>3, <1>4, <1>1
    <2>3. n + 1 \in 1 .. R + 1
      BY <1>1, <1>4
    <2> DEFINE u == From(t, n + 1)
    <2>4. u \in Seq(Nat) /\ Len(u) = R - (n + 1) + 1 /\ \A i \in 1 .. R - (n + 1) + 1 : u[i] = n + 1 + i - 1
      BY <1>2, <2>3
    <2> HIDE DEF s, u
    <2>5. Head(s) = n
      <3>1. 1 \in 1 .. R - n + 1
        BY <1>1, <1>4
      <3> QED
        BY <2>1, <2>2, <3>1, <1>1
    <2>6. Tail(s) \in Seq(Nat) /\ Len(Tail(s)) = Len(s) - 1 /\ \A i \in 1 .. Len(s) - 1 : Tail(s)[i] = s[i + 1]
      BY <2>1, <2>2, HeadTailProperties
    <2>7. Len(Tail(s)) = Len(u)
      BY <2>1, <2>4, <2>6, <1>1
    <2>8. \A i \in 1 .. Len(u) : Tail(s)[i] = u[i]
      <3> TAKE i \in 1 .. Len(u)
      <3>1. i \in 1 .. Len(s) - 1 /\ i + 1 \in 1 .. R - n + 1 /\ i \in 1 .. R - (n + 1) + 1
        BY <2>1, <2>4, <1>1
      <3>2. Tail(s)[i] = n + (i + 1) - 1 /\ u[i] = n + 1 + i - 1
        BY <3>1, <2>1, <2>4, <2>6
      <3> QED
        BY <3>1, <3>2, <1>1
    <2>9. Tail(s) = u
      BY <2>4, <2>6, <2>7, <2>8, SeqEqual
    <2> QED
      BY <2>5, <2>9 DEF u
  <1>5. From(t, n) \in Seq(Nat) /\ Len(From(t, n)) = R - n + 1
    BY <1>1, <1>2
  <1> QED
    BY <1>3, <1>4, <1>5 DEF R, s

\* What a process decides on, some time before: rows stay, and what ended has ended.
Grows(rows, m, rows2, misses) ==
  /\ DOMAIN rows \subseteq DOMAIN rows2 /\ (misses = 0 => m = 0)
  /\ \A i \in DOMAIN rows :
       /\ rows2[i].title = rows[i].title /\ rows2[i].nr = rows[i].nr
       /\ rows[i].state \in {"failed", "evicted"} => rows2[i].state = rows[i].state

LEMMA TriedStays ==
  ASSUME NEW rows, NEW m, NEW rows2, NEW misses, Grows(rows, m, rows2, misses)
  PROVE  /\ \A i \in DOMAIN rows : Ended(rows, m, i) => Ended(rows2, misses, i)
         /\ \A t, n : BetterTried(rows, m, t, n) => BetterTried(rows2, misses, t, n)
         /\ \A i, left : RestOf(rows, i, left) => RestOf(rows2, i, left)
         /\ \A u : TurnFine(rows, m, u) => TurnFine(rows2, misses, u)
  <1>1. \A i \in DOMAIN rows : Ended(rows, m, i) => Ended(rows2, misses, i)
    BY DEF Grows, Ended
  <1>2. \A t, n : Tried(rows, m, t, n) => Tried(rows2, misses, t, n)
    BY <1>1 DEF Grows, Tried
  <1>3. \A t, n : BetterTried(rows, m, t, n) => BetterTried(rows2, misses, t, n)
    BY <1>2 DEF BetterTried
  <1>4. \A i, left : RestOf(rows, i, left) => RestOf(rows2, i, left)
    BY DEF Grows, RestOf
  <1>5. ASSUME NEW u, TurnFine(rows, m, u) PROVE TurnFine(rows2, misses, u)
    <2>1. u.step = "chosen" =>
            u.title \in Title /\ \E n \in 1 .. Releases[u.title] :
              u.left = From(u.title, n) /\ BetterTried(rows2, misses, u.title, n)
      BY <1>3, <1>5 DEF TurnFine
    <2>2. u.step = "created" => u.made \in DOMAIN rows2 /\ u.left = From(rows2[u.made].title, rows2[u.made].nr + 1)
      BY <1>5 DEF TurnFine, Grows
    <2>3. u.step # "idle" /\ u.from # 0 => u.from \in DOMAIN rows2 /\ Ended(rows2, misses, u.from)
      BY <1>1, <1>5 DEF TurnFine, Grows
    <2> QED
      BY <2>1, <2>2, <2>3, <1>5 DEF TurnFine
  <1> QED
    BY <1>1, <1>3, <1>4, <1>5

LEMMA RowStaysFine ==
  ASSUME NEW rows \in Seq(WarmRow), NEW m, NEW rows2, NEW misses, Grows(rows, m, rows2, misses),
         NEW i \in DOMAIN rows, RowFine(rows, m, i), rows2[i].gone => Ended(rows2, misses, i)
  PROVE  RowFine(rows2, misses, i)
  <1>1. rows2[i].title = rows[i].title /\ rows2[i].nr = rows[i].nr
    BY DEF Grows
  <1>2. \A j \in 1 .. i - 1 : j \in DOMAIN rows
    BY DEF WarmRow
  <1>3. \A j \in 1 .. i - 1 : rows2[j].title = rows[j].title /\ rows2[j].nr = rows[j].nr
                              /\ (Ended(rows, m, j) => Ended(rows2, misses, j))
    BY <1>2, TriedStays DEF Grows
  <1> QED
    BY <1>1, <1>3 DEF RowFine

-----------------------------------------------------------------------------
LEMMA WarmInitially == PrewarmInit => WarmIInv
  <1> SUFFICES ASSUME PrewarmInit PROVE WarmIInv
    OBVIOUS
  <1>1. DOMAIN warmRows = {} /\ DOMAIN fallback = {}
    BY DEF PrewarmInit
  <1>2. WarmTypes
    BY DEF PrewarmInit, WarmTypes
  <1>3. ListsInv
    BY <1>1 DEF PrewarmInit, ListsInv
  <1>4. \A a \in Actor : TurnFine(warmRows, warmMishaps, turn[a])
    BY DEF PrewarmInit, TurnFine, WarmIdle
  <1> QED
    BY <1>1, <1>2, <1>3, <1>4 DEF WarmIInv, KeptInv

\* What a step of one actor must keep: its own turn, the lists, and the rows that lose a hold.
LEMMA TurnMoves ==
  ASSUME WarmIInv, NEW a \in Actor, NEW u, turn' = [turn EXCEPT ![a] = u],
         warmRows' \in Seq(WarmRow), warmMishaps' \in Nat,
         Grows(warmRows, warmMishaps, warmRows', warmMishaps'),
         \A i \in DOMAIN warmRows' : RowFine(warmRows', warmMishaps', i),
         TurnFine(warmRows', warmMishaps', u),
         agenda' = [r \in Retrier |-> agenda'[r]], ListsInv', KeptInv'
  PROVE  WarmIInv'
  <1>1. turn' = [b \in Actor |-> turn'[b]] /\ turn'[a] = u /\ \A b \in Actor : b # a => turn'[b] = turn[b]
    BY DEF WarmIInv, WarmTypes
  <1>2. \A b \in Actor : TurnFine(warmRows', warmMishaps', turn'[b])
    BY <1>1, TriedStays DEF WarmIInv
  <1> QED
    BY <1>1, <1>2 DEF WarmIInv, WarmTypes

LEMMA ListsStay ==
  ASSUME WarmIInv, Grows(warmRows, warmMishaps, warmRows', warmMishaps'),
         UNCHANGED <<fallback, agenda>>
  PROVE  ListsInv'
  BY TriedStays DEF WarmIInv, ListsInv

LEMMA SameGrows == Grows(warmRows, warmMishaps, warmRows, warmMishaps)
  BY DEF Grows

\* Fields of a turn that change.
LEMMA TurnFields ==
  ASSUME NEW a, a = [step |-> a.step, title |-> a.title, left |-> a.left, made |-> a.made, from |-> a.from],
         NEW at, NEW title, NEW left, NEW from
  PROVE  [[[[a EXCEPT !.step = at] EXCEPT !.title = title] EXCEPT !.from = from] EXCEPT !.left = left] =
           [step |-> at, title |-> title, left |-> left, made |-> a.made, from |-> from]
  <1> DEFINE b == [a EXCEPT !.step = at]
             d == [b EXCEPT !.title = title]
             e == [d EXCEPT !.from = from]
  <1>1. b = [step |-> at, title |-> a.title, left |-> a.left, made |-> a.made, from |-> a.from]
    OBVIOUS
  <1> HIDE DEF b
  <1>2. d = [step |-> at, title |-> title, left |-> a.left, made |-> a.made, from |-> a.from]
    BY <1>1
  <1> HIDE DEF d
  <1>3. e = [step |-> at, title |-> title, left |-> a.left, made |-> a.made, from |-> from]
    BY <1>2
  <1> HIDE DEF e
  <1>4. [e EXCEPT !.left = left] = [step |-> at, title |-> title, left |-> left, made |-> a.made, from |-> from]
    BY <1>3
  <1> QED
    BY <1>4 DEF b, d, e

LEMMA AskPrewarmKeeps == ASSUME WarmIInv, NEW q \in Caller, NEW t \in Title, AskPrewarm(q, t) PROVE WarmIInv'
  <1> DEFINE S == Candidates(t)
             n == Min(S)
             u == [step |-> "chosen", title |-> t, left |-> From(t, n), made |-> 0, from |-> 0]
  <1>1. S # {} /\ Chosen(t) = From(t, n)
    BY DEF AskPrewarm, Chosen
  <1>2. S \subseteq 1 .. Releases[t] /\ S \subseteq Nat /\ Releases[t] \in Nat
    BY PrewarmAssumption DEF Candidates
  <1>3. n \in S /\ \A k \in S : n <= k
    BY <1>1, <1>2, MinIs
  <1>4. n \in 1 .. Releases[t]
    BY <1>2, <1>3
  <1>5. turn' = [turn EXCEPT ![q] = u] /\ q \in Actor
    <2>1. turn' = [turn EXCEPT ![q] = [[[WarmIdle EXCEPT !.step = "chosen"] EXCEPT !.title = t] EXCEPT !.left = Chosen(t)]]
      BY DEF AskPrewarm
    <2>2. WarmIdle = [step |-> WarmIdle.step, title |-> WarmIdle.title, left |-> WarmIdle.left,
                      made |-> WarmIdle.made, from |-> WarmIdle.from]
          /\ WarmIdle.made = 0 /\ WarmIdle.from = 0
      BY DEF WarmIdle
    <2>3. [[[WarmIdle EXCEPT !.step = "chosen"] EXCEPT !.title = t] EXCEPT !.left = Chosen(t)] = u
      <3> DEFINE w == WarmIdle
                 b == [w EXCEPT !.step = "chosen"]
                 c == [b EXCEPT !.title = t]
                 d == From(t, n)
      <3>1. w = [step |-> w.step, title |-> w.title, left |-> w.left, made |-> 0, from |-> 0]
        BY <2>2
      <3> HIDE DEF w
      <3>2. b = [step |-> "chosen", title |-> w.title, left |-> w.left, made |-> 0, from |-> 0]
        BY <3>1
      <3> HIDE DEF b
      <3>3. c = [step |-> "chosen", title |-> t, left |-> w.left, made |-> 0, from |-> 0]
        BY <3>2
      <3> HIDE DEF c, d
      <3>4. [c EXCEPT !.left = d] = [step |-> "chosen", title |-> t, left |-> d, made |-> 0, from |-> 0]
        BY <3>3
      <3> QED
        BY <1>1, <3>4 DEF b, c, d, w
    <2> QED
      BY <2>1, <2>3 DEF Actor
  <1>6. UNCHANGED <<warmRows, fallback, agenda, warmMishaps>> /\ turn[q].step = "idle"
    BY DEF AskPrewarm
  <1>7. BetterTried(warmRows, warmMishaps, t, n)
    <2> SUFFICES ASSUME NEW k \in (1 .. n - 1) \ Unwanted[t] PROVE Tried(warmRows, warmMishaps, t, k)
      BY DEF BetterTried
    <2>1. k \in 1 .. Releases[t] /\ ~(n <= k)
      BY <1>2, <1>4
    <2>2. k \notin S
      BY <2>1, <1>3
    <2>3. StateOf(t, k) = "failed"
      BY <2>1, <2>2 DEF Candidates
    <2> DEFINE rows == {i \in DOMAIN warmRows : Present(i) /\ warmRows[i].title = t /\ warmRows[i].nr = k}
    <2>4. rows # {} /\ warmRows[Max(rows)].state = "failed"
      BY <2>3 DEF StateOf
    <2>5. Len(warmRows) \in Nat /\ DOMAIN warmRows = 1 .. Len(warmRows)
      BY DEF WarmIInv, WarmTypes
    <2>6. Max(rows) \in rows
      BY <2>4, <2>5, MaxIs
    <2> QED
      BY <2>4, <2>6 DEF Tried, Ended
  <1> HIDE DEF S, n
  <1>8. TurnFine(warmRows, warmMishaps, u)
    BY <1>4, <1>7 DEF TurnFine
  <1>9. ListsInv'
    BY <1>6, SameGrows, ListsStay
  <1>10. KeptInv'
    <2>1. \A b \in Actor : b # q => turn'[b] = turn[b]
      BY <1>5 DEF WarmIInv, WarmTypes
    <2>2. \A i : ~HoldsRow(turn[q], i)
      BY <1>6 DEF HoldsRow
    <2>3. \A i : (\E b \in Actor : HoldsRow(turn[b], i)) => \E b \in Actor : HoldsRow(turn'[b], i)
      BY <2>1, <2>2
    <2> QED
      BY <2>3, <1>6 DEF WarmIInv, KeptInv
  <1> HIDE DEF u
  <1>11. \A i \in DOMAIN warmRows' : RowFine(warmRows', warmMishaps', i)
    BY <1>6 DEF WarmIInv
  <1>12. warmRows' \in Seq(WarmRow) /\ warmMishaps' \in Nat /\ agenda' = [r \in Retrier |-> agenda'[r]]
    BY <1>6 DEF WarmIInv, WarmTypes
  <1> QED
    BY <1>5, <1>6, <1>8, <1>9, <1>10, <1>11, <1>12, SameGrows, TurnMoves

LEMMA CreateWarmKeeps == ASSUME WarmIInv, NEW a \in Actor, CreateWarm(a) PROVE WarmIInv'
  <1> DEFINE t == turn[a].title
             i == Len(warmRows) + 1
  <1>1. turn[a].step = "chosen" /\ UNCHANGED <<fallback, agenda, warmMishaps>>
    BY DEF CreateWarm
  <1>2. TurnFine(warmRows, warmMishaps, turn[a])
    BY DEF WarmIInv
  <1>3. t \in Title
    BY <1>1, <1>2 DEF TurnFine
  <1>4. PICK n \in 1 .. Releases[t] : turn[a].left = From(t, n) /\ BetterTried(warmRows, warmMishaps, t, n)
    BY <1>1, <1>2 DEF TurnFine
  <1>5. n \in 1 .. Releases[t] + 1 /\ n <= Releases[t] /\ n \in Nat
    BY <1>3, PrewarmAssumption
  <1>6. Head(turn[a].left) = n /\ Tail(turn[a].left) = From(t, n + 1)
    BY <1>3, <1>4, <1>5, FromParts
  <1> DEFINE row == [title |-> t, nr |-> n, state |-> "active", gone |-> FALSE]
             u == [step |-> "created", title |-> t, left |-> From(t, n + 1), made |-> i, from |-> turn[a].from]
  <1>7. warmRows' = Append(warmRows, row)
    BY <1>6 DEF CreateWarm
  <1>8. row \in WarmRow
    BY <1>3, <1>5 DEF WarmRow, State
  <1>9. warmRows \in Seq(WarmRow) /\ Len(warmRows) \in Nat /\ DOMAIN warmRows = 1 .. Len(warmRows)
    BY DEF WarmIInv, WarmTypes
  <1> HIDE DEF row
  <1>10. /\ warmRows' \in Seq(WarmRow) /\ Len(warmRows') = i /\ DOMAIN warmRows' = 1 .. i
         /\ \A j \in 1 .. Len(warmRows) : warmRows'[j] = warmRows[j]
         /\ warmRows'[i] = row
    <2>1. /\ warmRows' \in Seq(WarmRow) /\ Len(warmRows') = i
          /\ \A j \in 1 .. Len(warmRows) : warmRows'[j] = warmRows[j]
          /\ warmRows'[i] = row
      BY <1>7, <1>8, <1>9, AppendProperties
    <2> QED
      BY <2>1
  <1>11. /\ \A j \in DOMAIN warmRows : j \in DOMAIN warmRows' /\ warmRows'[j] = warmRows[j]
         /\ i \in DOMAIN warmRows' /\ \A j \in DOMAIN warmRows' : j \in DOMAIN warmRows \/ j = i
         /\ i \notin DOMAIN warmRows
    BY <1>9, <1>10
  <1>12. Grows(warmRows, warmMishaps, warmRows', warmMishaps')
    BY <1>1, <1>11 DEF Grows
  <1>13. turn' = [turn EXCEPT ![a] = u]
    <2>1. turn' = [turn EXCEPT ![a] = [[[turn[a] EXCEPT !.step = "created"] EXCEPT !.made = i]
                                         EXCEPT !.left = Tail(turn[a].left)]]
      <3>1. Len(warmRows') = i
        BY <1>10
      <3> HIDE DEF i
      <3> QED
        BY <3>1 DEF CreateWarm, WarmIInv, WarmTypes
    <2>2. turn[a] = [step |-> turn[a].step, title |-> turn[a].title, left |-> turn[a].left,
                     made |-> turn[a].made, from |-> turn[a].from]
      BY <1>2 DEF TurnFine
    <2>3. [[[turn[a] EXCEPT !.step = "created"] EXCEPT !.made = i] EXCEPT !.left = Tail(turn[a].left)] = u
      <3> DEFINE w == turn[a]
                 b == [w EXCEPT !.step = "created"]
                 c == [b EXCEPT !.made = i]
                 d == From(t, n + 1)
      <3>1. w = [step |-> w.step, title |-> w.title, left |-> w.left, made |-> w.made, from |-> w.from]
        BY <2>2
      <3> HIDE DEF i, w
      <3>2. b = [step |-> "created", title |-> w.title, left |-> w.left, made |-> w.made, from |-> w.from]
        BY <3>1
      <3> HIDE DEF b
      <3>3. c = [step |-> "created", title |-> w.title, left |-> w.left, made |-> i, from |-> w.from]
        BY <3>2
      <3> HIDE DEF c, d
      <3>4. [c EXCEPT !.left = d] = [step |-> "created", title |-> w.title, left |-> d, made |-> i, from |-> w.from]
        BY <3>3
      <3> QED
        BY <1>6, <3>4 DEF b, c, d, w
    <2> QED
      BY <2>1, <2>3
  <1> HIDE DEF i
  <1>14. warmRows'[i].title = t /\ warmRows'[i].nr = n /\ warmRows'[i].gone = FALSE
    BY <1>10 DEF row
  <1>15. TurnFine(warmRows', warmMishaps', u)
    <2>1. u.made \in DOMAIN warmRows' /\ u.left = From(warmRows'[u.made].title, warmRows'[u.made].nr + 1)
      BY <1>11, <1>14
    <2>2. u.from # 0 => u.from \in DOMAIN warmRows' /\ Ended(warmRows', warmMishaps', u.from)
      <3>1. u.from # 0 => u.from \in DOMAIN warmRows /\ Ended(warmRows, warmMishaps, u.from)
        BY <1>1, <1>2 DEF TurnFine
      <3> QED
        BY <3>1, <1>11, <1>12, TriedStays
    <2> QED
      BY <2>1, <2>2 DEF TurnFine
  <1>16. \A j \in DOMAIN warmRows' : RowFine(warmRows', warmMishaps', j)
    <2>1. ASSUME NEW j \in DOMAIN warmRows PROVE RowFine(warmRows', warmMishaps', j)
      <3>1. RowFine(warmRows, warmMishaps, j)
        BY DEF WarmIInv
      <3>2. warmRows'[j].gone => Ended(warmRows', warmMishaps', j)
        BY <3>1, <1>11, <1>12, TriedStays DEF RowFine
      <3> QED
        BY <3>1, <3>2, <1>9, <1>12, RowStaysFine
    <2>2. RowFine(warmRows', warmMishaps', i)
      <3>1. BetterTried(warmRows', warmMishaps', t, n)
        BY <1>4, <1>12, TriedStays
      <3>2. ASSUME NEW k \in (1 .. n - 1) \ Unwanted[t]
            PROVE  \E j \in 1 .. i - 1 : warmRows'[j].title = t /\ warmRows'[j].nr = k /\ Ended(warmRows', warmMishaps', j)
        <4>1. PICK j \in DOMAIN warmRows : warmRows[j].title = t /\ warmRows[j].nr = k /\ Ended(warmRows, warmMishaps, j)
          BY <1>4 DEF BetterTried, Tried
        <4>2. j \in 1 .. i - 1
          BY <1>9 DEF i
        <4>3. warmRows'[j] = warmRows[j]
          BY <1>11
        <4>4. Ended(warmRows', warmMishaps', j)
          BY <4>1, <1>12, TriedStays
        <4> QED
          BY <4>1, <4>2, <4>3, <4>4
      <3> QED
        BY <3>2, <1>14 DEF RowFine
    <2> QED
      BY <2>1, <2>2, <1>11
  <1>17. ListsInv'
    BY <1>1, <1>12, ListsStay
  <1>18. KeptInv'
    <2> SUFFICES ASSUME warmMishaps = 0, NEW j \in DOMAIN warmRows', Needs(warmRows', j)
                 PROVE  j \in DOMAIN fallback \/ \E b \in Actor : HoldsRow(turn'[b], j)
      BY <1>1 DEF KeptInv
    <2>1. turn'[a] = u /\ \A b \in Actor : b # a => turn'[b] = turn[b]
      BY <1>13 DEF WarmIInv, WarmTypes
    <2>2. CASE j = i
      BY <2>1, <2>2 DEF HoldsRow
    <2>3. CASE j \in DOMAIN warmRows
      <3>1. Needs(warmRows, j)
        BY <2>3, <1>11 DEF Needs
      <3>2. ~HoldsRow(turn[a], j)
        BY <1>1 DEF HoldsRow
      <3>3. j \in DOMAIN fallback \/ \E b \in Actor : HoldsRow(turn[b], j)
        BY <2>3, <3>1 DEF WarmIInv, KeptInv
      <3> QED
        BY <2>1, <3>2, <3>3
    <2> QED
      BY <2>2, <2>3, <1>11
  <1>19. agenda' = [r \in Retrier |-> agenda'[r]] /\ warmMishaps' \in Nat
    BY <1>1 DEF WarmIInv, WarmTypes
  <1> HIDE DEF u
  <1> QED
    BY <1>10, <1>12, <1>13, <1>15, <1>16, <1>17, <1>18, <1>19, TurnMoves

LEMMA IdleFine == ASSUME NEW rows, NEW m PROVE TurnFine(rows, m, WarmIdle)
  BY DEF TurnFine, WarmIdle

\* Steps that leave the rows as they are.
LEMMA RowsSame ==
  ASSUME WarmIInv, UNCHANGED warmRows, warmMishaps' \in Nat, warmMishaps' = 0 => warmMishaps = 0
  PROVE  /\ warmRows' \in Seq(WarmRow) /\ Grows(warmRows, warmMishaps, warmRows', warmMishaps')
         /\ \A i \in DOMAIN warmRows' : RowFine(warmRows', warmMishaps', i)
  <1>1. warmRows' \in Seq(WarmRow) /\ Grows(warmRows, warmMishaps, warmRows', warmMishaps')
    BY DEF WarmIInv, WarmTypes, Grows
  <1>2. ASSUME NEW i \in DOMAIN warmRows PROVE RowFine(warmRows', warmMishaps', i)
    <2>1. RowFine(warmRows, warmMishaps, i) /\ warmRows \in Seq(WarmRow)
      BY DEF WarmIInv, WarmTypes
    <2>2. warmRows'[i].gone => Ended(warmRows', warmMishaps', i)
      BY <2>1, <1>1, TriedStays DEF RowFine
    <2> QED
      BY <2>1, <2>2, <1>1, RowStaysFine
  <1> QED
    BY <1>1, <1>2

\* A row has a title, and what comes after its release is empty only after the last.
LEMMA RowIs ==
  ASSUME WarmIInv, NEW i \in DOMAIN warmRows
  PROVE  /\ warmRows[i].title \in Title /\ warmRows[i].nr + 1 \in 1 .. Releases[warmRows[i].title] + 1
         /\ From(warmRows[i].title, warmRows[i].nr + 1) # <<>> <=> warmRows[i].nr < Releases[warmRows[i].title]
         /\ warmRows[i].nr < Releases[warmRows[i].title] =>
              warmRows[i].nr + 1 \in 1 .. Releases[warmRows[i].title]
         /\ warmRows[i] \in WarmRow
  <1> DEFINE t == warmRows[i].title
             n == warmRows[i].nr
  <1>1. warmRows[i] \in WarmRow
    BY DEF WarmIInv, WarmTypes
  <1>2. t \in Title /\ n \in 1 .. Releases[t] /\ Releases[t] \in Nat
    BY <1>1, PrewarmAssumption DEF WarmIInv, RowFine, WarmRow
  <1> HIDE DEF t, n
  <1>3. n + 1 \in 1 .. Releases[t] + 1 /\ (n < Releases[t] => n + 1 \in 1 .. Releases[t])
        /\ (n + 1 = Releases[t] + 1 <=> ~(n < Releases[t]))
    BY <1>2
  <1>4. From(t, n + 1) = <<>> <=> n + 1 = Releases[t] + 1
    BY <1>2, <1>3, FromParts
  <1> QED
    BY <1>1, <1>2, <1>3, <1>4 DEF t, n

LEMMA StoreKeeps == ASSUME WarmIInv, NEW a \in Actor, StorePrewarmFallback(a) PROVE WarmIInv'
  <1> DEFINE i == turn[a].made
             left == turn[a].left
             u == IF turn[a].from = 0 THEN WarmIdle ELSE [turn[a] EXCEPT !.step = "stored"]
  <1>1. turn[a].step = "created" /\ UNCHANGED <<warmRows, agenda, warmMishaps>>
    BY DEF StorePrewarmFallback
  <1>2. TurnFine(warmRows, warmMishaps, turn[a])
    BY DEF WarmIInv
  <1>3. i \in DOMAIN warmRows /\ left = From(warmRows[i].title, warmRows[i].nr + 1)
    BY <1>1, <1>2 DEF TurnFine
  <1>4. left # <<>> <=> warmRows[i].nr < Releases[warmRows[i].title]
    BY <1>3, RowIs
  <1>5. /\ left = <<>> => fallback' = fallback
        /\ left # <<>> => /\ DOMAIN fallback' = DOMAIN fallback \union {i} /\ fallback'[i] = left
                          /\ \A j \in DOMAIN fallback : j # i => fallback'[j] = fallback[j]
    BY DEF StorePrewarmFallback, StoredFallback
  <1>6. turn' = [turn EXCEPT ![a] = u]
    BY DEF StorePrewarmFallback, WarmIInv, WarmTypes
  <1>7. TurnFine(warmRows, warmMishaps, u)
    <2>1. CASE turn[a].from = 0
      BY <2>1, IdleFine
    <2>2. CASE turn[a].from # 0
      <3>1. u = [step |-> "stored", title |-> turn[a].title, left |-> turn[a].left, made |-> turn[a].made, from |-> turn[a].from]
        BY <2>2, <1>2 DEF TurnFine
      <3>2. turn[a].from \in DOMAIN warmRows /\ Ended(warmRows, warmMishaps, turn[a].from)
        BY <2>2, <1>1, <1>2 DEF TurnFine
      <3> HIDE DEF u
      <3> QED
        BY <2>2, <3>1, <3>2 DEF TurnFine
    <2> QED
      BY <2>1, <2>2
  <1> HIDE DEF i, left, u
  <1>8. ListsInv'
    <2>1. \A j \in DOMAIN fallback' : RestOf(warmRows, j, fallback'[j])
      BY <1>3, <1>4, <1>5 DEF WarmIInv, ListsInv, RestOf
    <2> QED
      BY <2>1, <1>1 DEF WarmIInv, ListsInv
  <1>9. KeptInv'
    <2> SUFFICES ASSUME warmMishaps = 0, NEW j \in DOMAIN warmRows, Needs(warmRows, j)
                 PROVE  j \in DOMAIN fallback' \/ \E b \in Actor : HoldsRow(turn'[b], j)
      BY <1>1 DEF KeptInv
    <2>1. \A b \in Actor : b # a => turn'[b] = turn[b]
      BY <1>6 DEF WarmIInv, WarmTypes
    <2>2. j \in DOMAIN fallback \/ \E b \in Actor : HoldsRow(turn[b], j)
      BY DEF WarmIInv, KeptInv
    <2>3. HoldsRow(turn[a], j) => j = i
      BY <1>1 DEF HoldsRow, i
    <2>4. j = i => j \in DOMAIN fallback'
      BY <1>4, <1>5 DEF Needs
    <2>5. j \in DOMAIN fallback => j \in DOMAIN fallback'
      BY <1>5
    <2> QED
      BY <2>1, <2>2, <2>3, <2>4, <2>5
  <1>10. warmMishaps' \in Nat /\ agenda' = [r \in Retrier |-> agenda'[r]] /\ (warmMishaps' = 0 => warmMishaps = 0)
    BY <1>1 DEF WarmIInv, WarmTypes
  <1>11. /\ warmRows' \in Seq(WarmRow) /\ Grows(warmRows, warmMishaps, warmRows', warmMishaps')
         /\ \A k \in DOMAIN warmRows' : RowFine(warmRows', warmMishaps', k)
    BY <1>1, <1>10, RowsSame
  <1>12. TurnFine(warmRows', warmMishaps', u)
    BY <1>1, <1>7
  <1> QED
    BY <1>6, <1>8, <1>9, <1>10, <1>11, <1>12, TurnMoves

LEMMA ListKeeps == ASSUME WarmIInv, NEW r \in Retrier, ListPrewarmFallbacks(r) PROVE WarmIInv'
  <1>1. /\ agenda' = [agenda EXCEPT ![r] = {[row |-> i, left |-> fallback[i]] : i \in DOMAIN fallback}]
        /\ UNCHANGED <<warmRows, fallback, turn, warmMishaps>>
    BY DEF ListPrewarmFallbacks
  <1>2. /\ agenda' = [q \in Retrier |-> agenda'[q]]
        /\ agenda'[r] = {[row |-> i, left |-> fallback[i]] : i \in DOMAIN fallback}
        /\ \A q \in Retrier : q # r => agenda'[q] = agenda[q]
    BY <1>1 DEF WarmIInv, WarmTypes
  <1>3. \A f \in agenda'[r] : RestOf(warmRows, f.row, f.left)
    <2> SUFFICES ASSUME NEW i \in DOMAIN fallback PROVE RestOf(warmRows, i, fallback[i])
      BY <1>2
    <2> QED
      BY DEF WarmIInv, ListsInv
  <1>4. ListsInv'
    BY <1>1, <1>2, <1>3 DEF WarmIInv, ListsInv
  <1>5. WarmTypes' /\ KeptInv'
    BY <1>1, <1>2 DEF WarmIInv, WarmTypes, KeptInv
  <1> QED
    BY <1>1, <1>4, <1>5 DEF WarmIInv

LEMMA LookAtKeeps ==
  ASSUME WarmIInv, NEW r \in Retrier, NEW f \in agenda[r], NEW missed \in BOOLEAN, LookAt(r, f, missed)
  PROVE  WarmIInv'
  <1> DEFINE i == f.row
             state == IF missed \/ ~Present(i) THEN "none" ELSE warmRows[i].state
             u == [step |-> "chosen", title |-> warmRows[i].title, left |-> f.left, made |-> 0, from |-> i]
  <1>1. RestOf(warmRows, i, f.left) /\ r \in Actor
    BY DEF WarmIInv, ListsInv, Actor
  <1>2. turn[r].step = "idle" /\ UNCHANGED warmRows /\ agenda' = [agenda EXCEPT ![r] = @ \ {f}]
    BY DEF LookAt
  <1>3. warmMishaps' \in Nat /\ (warmMishaps' = 0 => warmMishaps = 0 /\ ~missed)
    <2>1. warmMishaps' = IF missed THEN warmMishaps + 1 ELSE warmMishaps
      BY DEF LookAt
    <2>2. warmMishaps \in Nat
      BY DEF WarmIInv, WarmTypes
    <2>3. CASE missed
      <3>1. warmMishaps' = warmMishaps + 1
        BY <2>1, <2>3
      <3>2. warmMishaps' \in Nat /\ warmMishaps' # 0
        BY <2>2, <3>1
      <3> QED
        BY <3>2
    <2>4. CASE ~missed
      BY <2>1, <2>2, <2>4
    <2> QED
      BY <2>3, <2>4
  <1>4. /\ warmRows' \in Seq(WarmRow) /\ Grows(warmRows, warmMishaps, warmRows', warmMishaps')
        /\ \A k \in DOMAIN warmRows' : RowFine(warmRows', warmMishaps', k)
    BY <1>2, <1>3, RowsSame
  <1>5. fallback' = fallback \/ (state = "complete" /\ fallback' = Drop(i))
    BY DEF LookAt
  <1>6. turn' = turn \/ (state \notin {"active", "complete"} /\ turn' = [turn EXCEPT ![r] = u])
    <2>1. turn' = turn \/ (state \notin {"active", "complete"} /\ turn' = [turn EXCEPT ![r] = Advanced(r, f)])
      BY DEF LookAt
    <2>2. WarmIdle = [step |-> WarmIdle.step, title |-> WarmIdle.title, left |-> WarmIdle.left,
                      made |-> WarmIdle.made, from |-> WarmIdle.from]
          /\ WarmIdle.made = 0 /\ WarmIdle.from = 0
      BY DEF WarmIdle
    <2>4. Advanced(r, f) =
            [[[[WarmIdle EXCEPT !.step = "chosen"] EXCEPT !.title = warmRows[i].title] EXCEPT !.from = i] EXCEPT !.left = f.left]
      BY DEF Advanced
    <2>3. Advanced(r, f) = u
      <3> HIDE DEF i
      <3> QED
        BY <2>2, <2>4, TurnFields
    <2> QED
      BY <2>1, <2>3
  <1>7. i \in DOMAIN warmRows
    BY <1>1 DEF RestOf
  <1>8. ~missed /\ state \notin {"active", "complete"} => warmRows[i].gone \/ warmRows[i].state \in {"failed", "evicted"}
    <2>1. warmRows[i].state \in State
      BY <1>7, RowIs DEF WarmRow
    <2> QED
      BY <1>7, <2>1 DEF Present, State
  <1>9. ASSUME state \notin {"active", "complete"} PROVE Ended(warmRows', warmMishaps', i)
    <2>1. ASSUME warmMishaps' = 0 PROVE warmRows[i].state \in {"failed", "evicted"}
      <3>1. RowFine(warmRows, warmMishaps, i)
        BY <1>7 DEF WarmIInv
      <3>2. ~missed /\ warmMishaps = 0
        BY <2>1, <1>3
      <3> HIDE DEF state
      <3> QED
        BY <3>1, <3>2, <1>8, <1>9 DEF RowFine, Ended
    <2> QED
      BY <2>1, <1>2 DEF Ended
  <1>10. ASSUME state \notin {"active", "complete"} PROVE TurnFine(warmRows', warmMishaps', u)
    <2> DEFINE t == warmRows[i].title
               n == warmRows[i].nr + 1
    <2>1. t \in Title /\ n \in 1 .. Releases[t] /\ f.left = From(t, n)
      BY <1>1, <1>7, RowIs DEF RestOf
    <2>2. BetterTried(warmRows', warmMishaps', t, n)
      <3> SUFFICES ASSUME NEW k \in (1 .. n - 1) \ Unwanted[t] PROVE Tried(warmRows', warmMishaps', t, k)
        BY DEF BetterTried
      <3>0. warmRows[i].nr \in Nat /\ n - 1 = warmRows[i].nr
        BY <1>7, RowIs DEF WarmRow
      <3>1. CASE k = warmRows[i].nr
        BY <3>1, <1>2, <1>7, <1>9, <1>10 DEF Tried
      <3>2. CASE k # warmRows[i].nr
        <4>1. k \in (1 .. warmRows[i].nr - 1) \ Unwanted[t]
          BY <3>0, <3>2
        <4>2. RowFine(warmRows', warmMishaps', i)
          BY <1>2, <1>4, <1>7
        <4>3. PICK j \in 1 .. i - 1 : warmRows'[j].title = t /\ warmRows'[j].nr = k /\ Ended(warmRows', warmMishaps', j)
          BY <4>1, <4>2, <1>2 DEF RowFine
        <4>4. j \in DOMAIN warmRows'
          <5>1. i \in 1 .. Len(warmRows) /\ Len(warmRows) \in Nat /\ DOMAIN warmRows' = 1 .. Len(warmRows)
            BY <1>2, <1>7 DEF WarmIInv, WarmTypes
          <5> QED
            BY ONLY <5>1, j \in 1 .. i - 1
        <4> QED
          BY <4>3, <4>4 DEF Tried
      <3> QED
        BY <3>1, <3>2
    <2>3. i \in DOMAIN warmRows' /\ Ended(warmRows', warmMishaps', i)
      BY <1>2, <1>7, <1>9, <1>10
    <2> HIDE DEF n
    <2> QED
      BY <2>1, <2>2, <2>3 DEF TurnFine
  <1>11. agenda' = [q \in Retrier |-> agenda'[q]] /\ \A q \in Retrier : agenda'[q] \subseteq agenda[q]
    BY <1>2 DEF WarmIInv, WarmTypes
  <1>12. DOMAIN fallback' \subseteq DOMAIN fallback /\ \A j \in DOMAIN fallback' : fallback'[j] = fallback[j]
    BY <1>5 DEF Drop
  <1>13. ListsInv'
    BY <1>2, <1>11, <1>12 DEF WarmIInv, ListsInv
  <1>14. KeptInv'
    <2> SUFFICES ASSUME warmMishaps' = 0, NEW j \in DOMAIN warmRows, Needs(warmRows, j)
                 PROVE  j \in DOMAIN fallback' \/ \E b \in Actor : HoldsRow(turn'[b], j)
      BY <1>2 DEF KeptInv
    <2>1. j \in DOMAIN fallback \/ \E b \in Actor : HoldsRow(turn[b], j)
      BY <1>3 DEF WarmIInv, KeptInv
    <2>2. CASE j \in DOMAIN fallback
      <3>1. CASE state = "complete"
        <4>1. warmRows[i].state = "complete"
          BY <3>1
        <4>2. j # i
          BY <4>1 DEF Needs
        <4> QED
          BY <2>2, <4>2, <1>5 DEF Drop
      <3>2. CASE state # "complete"
        BY <2>2, <3>2, <1>5
      <3> QED
        BY <3>1, <3>2
    <2>3. CASE \E b \in Actor : HoldsRow(turn[b], j)
      <3>1. PICK b \in Actor : HoldsRow(turn[b], j)
        BY <2>3
      <3>2. b # r
        BY <3>1, <1>2 DEF HoldsRow
      <3>3. turn'[b] = turn[b]
        BY <3>2, <1>6 DEF WarmIInv, WarmTypes
      <3> QED
        BY <3>1, <3>3
    <2> QED
      BY <2>1, <2>2, <2>3
  <1>15. CASE turn' = turn
    <2>1. \A a \in Actor : TurnFine(warmRows', warmMishaps', turn'[a])
      BY <1>4, <1>15, TriedStays DEF WarmIInv
    <2>2. WarmTypes'
      BY <1>3, <1>4, <1>11, <1>15 DEF WarmIInv, WarmTypes
    <2> QED
      BY <2>1, <2>2, <1>4, <1>13, <1>14 DEF WarmIInv
  <1>16. CASE turn' # turn
    <2>1. turn' = [turn EXCEPT ![r] = u] /\ TurnFine(warmRows', warmMishaps', u)
      BY <1>6, <1>10, <1>16
    <2> HIDE DEF u
    <2> QED
      BY <2>1, <1>1, <1>3, <1>4, <1>11, <1>13, <1>14, TurnMoves
  <1> QED
    BY <1>15, <1>16

LEMMA DeleteListKeeps == ASSUME WarmIInv, NEW r \in Retrier, DeletePrewarmFallback(r) PROVE WarmIInv'
  <1> DEFINE i == turn[r].from
             u == [turn[r] EXCEPT !.step = "dropped"]
  <1>1. /\ turn[r].step = "stored" /\ fallback' = Drop(i) /\ turn' = [turn EXCEPT ![r] = u]
        /\ UNCHANGED <<warmRows, agenda, warmMishaps>> /\ r \in Actor
    BY DEF DeletePrewarmFallback, Replaced, Actor, WarmIInv, WarmTypes
  <1>2. TurnFine(warmRows, warmMishaps, turn[r])
    BY <1>1 DEF WarmIInv
  <1>3. u = [step |-> "dropped", title |-> turn[r].title, left |-> turn[r].left, made |-> turn[r].made, from |-> turn[r].from]
    BY <1>2 DEF TurnFine
  <1>4. TurnFine(warmRows, warmMishaps, u)
    <2>1. i # 0 /\ i \in DOMAIN warmRows /\ Ended(warmRows, warmMishaps, i)
      BY <1>1, <1>2 DEF TurnFine
    <2> HIDE DEF u
    <2> QED
      BY <1>3, <2>1 DEF TurnFine
  <1>5. ListsInv'
    BY <1>1 DEF WarmIInv, ListsInv, Drop
  <1>6. KeptInv'
    <2> SUFFICES ASSUME warmMishaps = 0, NEW j \in DOMAIN warmRows, Needs(warmRows, j)
                 PROVE  j \in DOMAIN fallback' \/ \E b \in Actor : HoldsRow(turn'[b], j)
      BY <1>1 DEF KeptInv
    <2>1. turn'[r] = u /\ \A b \in Actor : b # r => turn'[b] = turn[b]
      BY <1>1 DEF WarmIInv, WarmTypes
    <2>2. j \in DOMAIN fallback \/ \E b \in Actor : HoldsRow(turn[b], j)
      BY DEF WarmIInv, KeptInv
    <2>3. ~HoldsRow(turn[r], j)
      BY <1>1 DEF HoldsRow
    <2>4. CASE j = i
      BY <2>1, <2>4, <1>1, <1>3 DEF HoldsRow
    <2>5. CASE j # i
      BY <2>1, <2>2, <2>3, <2>5, <1>1 DEF Drop
    <2> QED
      BY <2>4, <2>5
  <1> HIDE DEF u
  <1>7. warmMishaps' \in Nat /\ agenda' = [q \in Retrier |-> agenda'[q]] /\ (warmMishaps' = 0 => warmMishaps = 0)
    BY <1>1 DEF WarmIInv, WarmTypes
  <1>8. /\ warmRows' \in Seq(WarmRow) /\ Grows(warmRows, warmMishaps, warmRows', warmMishaps')
        /\ \A k \in DOMAIN warmRows' : RowFine(warmRows', warmMishaps', k)
    BY <1>1, <1>7, RowsSame
  <1>9. TurnFine(warmRows', warmMishaps', u)
    BY <1>1, <1>4
  <1> QED
    BY <1>1, <1>5, <1>6, <1>7, <1>8, <1>9, TurnMoves

\* One row changes: it goes, or its download ends.
LEMMA RowChanges ==
  ASSUME WarmIInv, NEW i \in DOMAIN warmRows, NEW v \in WarmRow, warmRows' = [warmRows EXCEPT ![i] = v],
         UNCHANGED warmMishaps, v.title = warmRows[i].title, v.nr = warmRows[i].nr,
         warmRows[i].state \in {"failed", "evicted"} => v.state = warmRows[i].state,
         v.gone => Ended(warmRows, warmMishaps, i)
  PROVE  /\ warmRows' \in Seq(WarmRow) /\ Grows(warmRows, warmMishaps, warmRows', warmMishaps')
         /\ \A k \in DOMAIN warmRows' : RowFine(warmRows', warmMishaps', k)
         /\ DOMAIN warmRows' = DOMAIN warmRows /\ warmRows'[i] = v
         /\ \A k \in DOMAIN warmRows : k # i => warmRows'[k] = warmRows[k]
  <1>1. warmRows \in Seq(WarmRow)
    BY DEF WarmIInv, WarmTypes
  <1>2. warmRows' \in Seq(WarmRow)
    BY <1>1, ExceptSeq
  <1>3. /\ DOMAIN warmRows' = DOMAIN warmRows /\ warmRows'[i] = v
        /\ \A k \in DOMAIN warmRows : k # i => warmRows'[k] = warmRows[k]
    BY <1>1
  <1>4. Grows(warmRows, warmMishaps, warmRows', warmMishaps')
    BY <1>3 DEF Grows
  <1>5. ASSUME NEW k \in DOMAIN warmRows PROVE RowFine(warmRows', warmMishaps', k)
    <2>1. RowFine(warmRows, warmMishaps, k)
      BY DEF WarmIInv
    <2>2. warmRows'[k].gone => Ended(warmRows, warmMishaps, k)
      BY <2>1, <1>3 DEF RowFine
    <2>3. warmRows'[k].gone => Ended(warmRows', warmMishaps', k)
      BY <2>2, <1>4, TriedStays
    <2> QED
      BY <1>1, <2>1, <2>3, <1>4, RowStaysFine
  <1> QED
    BY <1>2, <1>3, <1>4, <1>5

LEMMA DeleteReplacedKeeps == ASSUME WarmIInv, NEW r \in Retrier, DeleteReplaced(r) PROVE WarmIInv'
  <1> DEFINE i == turn[r].from
             w == warmRows[i]
             v == [title |-> w.title, nr |-> w.nr, state |-> w.state, gone |-> TRUE]
  <1>1. /\ turn[r].step = "dropped" /\ turn' = [turn EXCEPT ![r] = WarmIdle] /\ r \in Actor
        /\ UNCHANGED <<fallback, agenda, warmMishaps>>
    BY DEF DeleteReplaced, Actor
  <1>2. i \in DOMAIN warmRows /\ Ended(warmRows, warmMishaps, i)
    BY <1>1 DEF WarmIInv, TurnFine
  <1>3. w \in WarmRow
    BY <1>2, RowIs
  <1>4. warmRows' = [warmRows EXCEPT ![i] = v]
    <2>1. warmRows' = [warmRows EXCEPT ![i] = [w EXCEPT !.gone = TRUE]]
      BY DEF DeleteReplaced
    <2>2. [w EXCEPT !.gone = TRUE] = v
      <3>1. w = [title |-> w.title, nr |-> w.nr, state |-> w.state, gone |-> w.gone]
        BY <1>3 DEF WarmRow
      <3> DEFINE yes == TRUE
      <3> HIDE DEF w, v, yes
      <3>2. [w EXCEPT !.gone = yes] = [title |-> w.title, nr |-> w.nr, state |-> w.state, gone |-> yes]
        BY <3>1
      <3> QED
        BY <3>2 DEF v, yes
    <2> QED
      BY <2>1, <2>2
  <1>5. v \in WarmRow
    BY <1>3 DEF WarmRow
  <1>6. v.title = w.title /\ v.nr = w.nr /\ v.state = w.state /\ v.gone
    OBVIOUS
  <1> HIDE DEF v, w, i
  <1>7. /\ warmRows' \in Seq(WarmRow) /\ Grows(warmRows, warmMishaps, warmRows', warmMishaps')
        /\ \A k \in DOMAIN warmRows' : RowFine(warmRows', warmMishaps', k)
        /\ DOMAIN warmRows' = DOMAIN warmRows /\ warmRows'[i] = v
        /\ \A k \in DOMAIN warmRows : k # i => warmRows'[k] = warmRows[k]
    BY <1>1, <1>2, <1>4, <1>5, <1>6, RowChanges DEF w
  <1>8. ListsInv'
    BY <1>1, <1>7, ListsStay
  <1>9. KeptInv'
    <2> SUFFICES ASSUME warmMishaps = 0, NEW j \in DOMAIN warmRows, Needs(warmRows', j)
                 PROVE  j \in DOMAIN fallback \/ \E b \in Actor : HoldsRow(turn'[b], j)
      BY <1>1, <1>7 DEF KeptInv
    <2>1. \A b \in Actor : b # r => turn'[b] = turn[b]
      BY <1>1 DEF WarmIInv, WarmTypes
    <2>2. j # i
      BY <1>6, <1>7 DEF Needs
    <2>3. j \in DOMAIN fallback \/ \E b \in Actor : HoldsRow(turn[b], j)
      BY <2>2, <1>7 DEF WarmIInv, KeptInv, Needs
    <2>4. ~HoldsRow(turn[r], j)
      BY <2>2, <1>1 DEF HoldsRow, i
    <2> QED
      BY <2>1, <2>3, <2>4
  <1>10. warmMishaps' \in Nat /\ agenda' = [q \in Retrier |-> agenda'[q]]
    BY <1>1 DEF WarmIInv, WarmTypes
  <1>11. TurnFine(warmRows', warmMishaps', WarmIdle)
    BY IdleFine
  <1> QED
    BY <1>1, <1>7, <1>8, <1>9, <1>10, <1>11, TurnMoves

LEMMA WarmEndsKeeps ==
  ASSUME WarmIInv, NEW i \in DOMAIN warmRows, NEW s \in {"failed", "complete", "evicted"}, WarmEnds(i, s)
  PROVE  WarmIInv'
  <1> DEFINE w == warmRows[i]
             v == [title |-> w.title, nr |-> w.nr, state |-> s, gone |-> w.gone]
  <1>1. /\ \/ w.state = "active" /\ s \in {"failed", "complete"}
           \/ w.state = "complete" /\ s = "evicted"
        /\ ~w.gone /\ UNCHANGED <<fallback, turn, agenda, warmMishaps>>
    BY DEF WarmEnds, Present
  <1>2. w \in WarmRow
    BY RowIs
  <1>3. warmRows' = [warmRows EXCEPT ![i] = v]
    <2>1. warmRows' = [warmRows EXCEPT ![i] = [w EXCEPT !.state = s]]
      BY DEF WarmEnds
    <2>2. [w EXCEPT !.state = s] = v
      <3>1. w = [title |-> w.title, nr |-> w.nr, state |-> w.state, gone |-> w.gone]
        BY <1>2 DEF WarmRow
      <3> HIDE DEF w, v
      <3>2. [w EXCEPT !.state = s] = [title |-> w.title, nr |-> w.nr, state |-> s, gone |-> w.gone]
        BY ONLY <3>1
      <3> QED
        BY <3>2 DEF v
    <2> QED
      BY <2>1, <2>2
  <1>4. v \in WarmRow
    BY <1>2 DEF WarmRow, State
  <1>5. v.title = w.title /\ v.nr = w.nr /\ v.state = s /\ v.gone = w.gone
    OBVIOUS
  <1> HIDE DEF v, w
  <1>6. /\ warmRows' \in Seq(WarmRow) /\ Grows(warmRows, warmMishaps, warmRows', warmMishaps')
        /\ \A k \in DOMAIN warmRows' : RowFine(warmRows', warmMishaps', k)
        /\ DOMAIN warmRows' = DOMAIN warmRows /\ warmRows'[i] = v
        /\ \A k \in DOMAIN warmRows : k # i => warmRows'[k] = warmRows[k]
    BY <1>1, <1>3, <1>4, <1>5, RowChanges DEF w
  <1>7. ListsInv'
    BY <1>1, <1>6, ListsStay
  <1>8. KeptInv'
    <2> SUFFICES ASSUME warmMishaps = 0, NEW j \in DOMAIN warmRows, Needs(warmRows', j)
                 PROVE  j \in DOMAIN fallback \/ \E b \in Actor : HoldsRow(turn[b], j)
      BY <1>1, <1>6 DEF KeptInv
    <2>1. Needs(warmRows, j)
      <3>1. CASE j = i
        BY <3>1, <1>1, <1>5, <1>6 DEF Needs, w
      <3>2. CASE j # i
        BY <3>2, <1>6 DEF Needs
      <3> QED
        BY <3>1, <3>2
    <2> QED
      BY <2>1 DEF WarmIInv, KeptInv
  <1>9. WarmTypes'
    BY <1>1, <1>6 DEF WarmIInv, WarmTypes
  <1>10. \A a \in Actor : TurnFine(warmRows', warmMishaps', turn'[a])
    BY <1>1, <1>6, TriedStays DEF WarmIInv
  <1> QED
    BY <1>6, <1>7, <1>8, <1>9, <1>10 DEF WarmIInv

LEMMA CrashKeeps == ASSUME WarmIInv, NEW a \in Actor, PrewarmCrash(a) PROVE WarmIInv'
  <1>1. /\ turn' = [turn EXCEPT ![a] = WarmIdle] /\ UNCHANGED <<warmRows, fallback>>
        /\ agenda' = [r \in Retrier |-> agenda'[r]] /\ \A r \in Retrier : agenda'[r] \subseteq agenda[r]
    BY DEF PrewarmCrash, WarmIInv, WarmTypes
  <1>2. warmMishaps' \in Nat /\ warmMishaps' # 0
    <2>1. warmMishaps' = warmMishaps + 1
      BY DEF PrewarmCrash
    <2>2. warmMishaps \in Nat
      BY DEF WarmIInv, WarmTypes
    <2> QED
      BY <2>1, <2>2
  <1>3. ListsInv'
    BY <1>1 DEF WarmIInv, ListsInv
  <1>4. KeptInv'
    BY <1>2 DEF KeptInv
  <1>5. /\ warmRows' \in Seq(WarmRow) /\ Grows(warmRows, warmMishaps, warmRows', warmMishaps')
        /\ \A k \in DOMAIN warmRows' : RowFine(warmRows', warmMishaps', k)
    BY <1>1, <1>2, RowsSame
  <1>6. TurnFine(warmRows', warmMishaps', WarmIdle)
    BY IdleFine
  <1> QED
    BY <1>1, <1>2, <1>3, <1>4, <1>5, <1>6, TurnMoves

LEMMA WarmStepKeeps == WarmIInv /\ [PrewarmNext]_prewarmVars => WarmIInv'
  <1> SUFFICES ASSUME WarmIInv, [PrewarmNext]_prewarmVars PROVE WarmIInv'
    OBVIOUS
  <1>1. \A q \in Caller : q \in Actor
    BY DEF Actor
  <1>2. \A r \in Retrier : r \in Actor
    BY DEF Actor
  <1>3. CASE UNCHANGED prewarmVars
    <2>1. UNCHANGED <<warmRows, fallback, turn, agenda, warmMishaps>>
      BY <1>3 DEF prewarmVars
    <2>2. WarmTypes' /\ KeptInv'
      BY <2>1 DEF WarmIInv, WarmTypes, KeptInv
    <2>3. ListsInv'
      BY <2>1 DEF WarmIInv, ListsInv
    <2> QED
      BY <2>1, <2>2, <2>3 DEF WarmIInv
  <1>4. ASSUME NEW a \in Actor, ActorStep(a) PROVE WarmIInv'
    BY <1>4, CreateWarmKeeps, StoreKeeps DEF ActorStep
  <1>5. ASSUME NEW r \in Retrier, RetrierStep(r) PROVE WarmIInv'
    <2>1. CASE \E f \in agenda[r] : LookAt(r, f, FALSE)
      BY <2>1, LookAtKeeps
    <2> QED
      BY <2>1, <1>2, <1>4, <1>5, ListKeeps, DeleteListKeeps, DeleteReplacedKeeps DEF RetrierStep
  <1>6. ASSUME NEW r \in Retrier, NEW f \in agenda[r], LookAt(r, f, TRUE) PROVE WarmIInv'
    BY <1>6, LookAtKeeps
  <1> QED
    BY <1>1, <1>3, <1>4, <1>5, <1>6, AskPrewarmKeeps, WarmEndsKeeps, CrashKeeps DEF PrewarmNext

LEMMA WarmIInvSays == WarmIInv => BetterWereTried /\ NothingForgotten
  <1> SUFFICES ASSUME WarmIInv PROVE BetterWereTried /\ NothingForgotten
    OBVIOUS
  <1>1. BetterWereTried
    BY DEF WarmIInv, RowFine, Ended, BetterWereTried
  <1>2. NothingForgotten
    BY DEF WarmIInv, KeptInv, Needs, HoldsRow, Present, NothingForgotten
  <1> QED
    BY <1>1, <1>2

\* A release is fetched only after every better one the screen lets pass, and a release that
\* failed leaves its title with somebody who goes on (prewarm.go, workers.go).
THEOREM WarmHolds == PrewarmInit /\ [][PrewarmNext]_prewarmVars => [](BetterWereTried /\ NothingForgotten)
  <1>1. PrewarmInit => WarmIInv
    BY WarmInitially
  <1>2. WarmIInv /\ [PrewarmNext]_prewarmVars => WarmIInv'
    BY WarmStepKeeps
  <1>3. WarmIInv => BetterWereTried /\ NothingForgotten
    BY WarmIInvSays
  <1> QED
    BY <1>1, <1>2, <1>3, PTL

-----------------------------------------------------------------------------
(* The money: the ledger adds up, a reference counts once, a plan is given *)
(* once per charge, a code once, and a sale is noted only when its plan    *)
(* has been given.                                                         *)

USE WalletAssumption

-----------------------------------------------------------------------------
(* Types.                                                                  *)

\* The shared operators keep the types of what they write.
LEMMA GotoTyped ==
  ASSUME CallTypeOK, NEW c \in Call, NEW l \in Stage, Goto(c, l)
  PROVE  pc' \in [Call -> Stage]
  BY DEF CallTypeOK, Goto

LEMMA ForgetTyped ==
  ASSUME CallTypeOK, NEW c \in Call, Forget(c)
  PROVE  bal' \in [Call -> Int] /\ seen' \in [Call -> Seen] /\ term' \in [Call -> Nat]
  <1>1. NewAccount \in Seen
    BY DEF NewAccount, Seen
  <1> QED
    BY <1>1 DEF CallTypeOK, Forget

LEMMA EndTyped ==
  ASSUME CallTypeOK, NEW c \in Call, End(c)
  PROVE  /\ pc' \in [Call -> Stage]
         /\ bal' \in [Call -> Int] /\ seen' \in [Call -> Seen] /\ term' \in [Call -> Nat]
  BY GotoTyped, ForgetTyped DEF End, Stage

LEMMA ReplyTyped ==
  ASSUME CallTypeOK, NEW c \in Call, NEW a \in {"paid", "refused"}, Reply(c, a)
  PROVE  answer' \in [Call -> {"none", "paid", "refused"}]
  BY DEF CallTypeOK, Reply

LEMMA QuoteTyped ==
  ASSUME AccountTypeOK, CallTypeOK, NEW c \in Call, NEW s \in Seen, NEW l \in Stage,
         Quote(c, s, l)
  PROVE  /\ pc' \in [Call -> Stage]
         /\ bal' \in [Call -> Int] /\ seen' \in [Call -> Seen] /\ term' \in [Call -> Nat]
  <1>1. NewAccount \in Seen
    BY DEF NewAccount, Seen
  <1>2. Expiry(s) \in Nat
    BY DEF Expiry, Seen, AccountTypeOK
  <1> QED
    BY <1>1, <1>2, GotoTyped DEF CallTypeOK, Quote

LEMMA ReadTyped ==
  ASSUME AccountTypeOK, CallTypeOK, NEW c \in Call, Read(c)
  PROVE  seen' \in [Call -> Seen]
  <1>1. [plan |-> plan[UserOf[c]], until |-> until[UserOf[c]]] \in Seen
    BY DEF AccountTypeOK, Seen
  <1> QED
    BY <1>1 DEF CallTypeOK, Read

LEMMA SetPlanTyped ==
  ASSUME AccountTypeOK, NEW u \in User, NEW p \in {"free", "paid"}, NEW t \in Nat,
         NEW r \in BOOLEAN, SetPlan(u, p, t, r)
  PROVE  /\ plan' \in [User -> {"free", "paid"}]
         /\ until' \in [User -> Nat] /\ renews' \in [User -> BOOLEAN]
  BY DEF AccountTypeOK, SetPlan

LEMMA UnlockTyped ==
  ASSUME MoneyTypeOK, NEW c \in Call, Unlock(c)
  PROVE  lock' \in [User -> Call \cup {NoCall}]
  BY DEF MoneyTypeOK, Unlock

\* What a commit adds to the ledger is an entry.
LEMMA CommitTyped ==
  ASSUME MoneyTypeOK, CallTypeOK, NEW c \in Call, Commit(c)
  PROVE  balance' \in [User -> Int] /\ ledger' \in [User -> Seq(Entry)]
  <1> DEFINE u == UserOf[c]
             e == [ref |-> RefOf[c], delta |-> Delta(c), after |-> bal[c] + Delta(c)]
  <1>1. u \in User /\ bal[c] + Delta(c) \in Int
    BY DEF CallTypeOK, Delta
  <1>2. e \in Entry
    BY <1>1 DEF Entry, Delta
  <1>3. Append(ledger[u], e) \in Seq(Entry)
    BY <1>1, <1>2 DEF MoneyTypeOK
  <1>4. ledger' = [ledger EXCEPT ![u] = Append(ledger[u], e)]
        /\ balance' = [balance EXCEPT ![u] = bal[c] + Delta(c)]
    BY DEF Commit
  <1> HIDE DEF u, e
  <1> QED
    BY <1>1, <1>3, <1>4 DEF MoneyTypeOK

LEMMA StepTyped ==
  ASSUME TypeOK, NEW c \in Call, Step(c)
  PROVE  TypeOK'
  <1> USE DEF TypeOK, Stage
  <1>1. CASE Load(c)
    <2>1. MoneyTypeOK'
      BY <1>1, GotoTyped, ReadTyped DEF MoneyTypeOK, CallTypeOK, Load, wallets, accounts, calls
    <2>2. AccountTypeOK'
      BY <1>1, GotoTyped, ReadTyped DEF AccountTypeOK, CallTypeOK, Load, wallets, accounts, calls
    <2>3. CallTypeOK'
      BY <1>1, GotoTyped, ReadTyped DEF MoneyTypeOK, AccountTypeOK, CallTypeOK, Load, wallets, accounts, calls
    <2> QED
      BY <2>1, <2>2, <2>3
  <1>2. CASE Authorize(c)
    <2> DEFINE lapsed == now > seen[c].until /\ seen[c].plan = "paid"
               row == IF lapsed THEN [plan |-> "free", until |-> now + Day] ELSE seen[c]
    <2>1. now + Day \in Nat /\ row \in Seen
      BY DEF AccountTypeOK, CallTypeOK, Seen
    <2>2. /\ IF lapsed
             THEN SetPlan(UserOf[c], "free", now + Day, FALSE) ELSE UNCHANGED accounts
          /\ \/ Quote(c, row, "lock")
             \/ End(c)
             \/ /\ seen' = [seen EXCEPT ![c] = row]
                /\ Goto(c, "claim") /\ UNCHANGED <<bal, term>>
          /\ UNCHANGED <<now, wallets, recorded, redeemed, answer, granted>>
      BY <1>2 DEF Authorize
    <2> HIDE DEF lapsed, row
    <2>3. MoneyTypeOK'
      BY <2>2 DEF MoneyTypeOK, wallets
    <2>4. plan' \in [User -> {"free", "paid"}]
          /\ until' \in [User -> Nat] /\ renews' \in [User -> BOOLEAN]
      <3>1. CASE lapsed
        BY <2>1, <2>2, <3>1, SetPlanTyped
      <3>2. CASE ~lapsed
        BY <2>2, <3>2 DEF AccountTypeOK, accounts
      <3> QED
        BY <3>1, <3>2
    <2>5. AccountTypeOK'
      BY <2>2, <2>4 DEF AccountTypeOK
    <2>6. CallTypeOK'
      <3>1. CASE Quote(c, row, "lock")
        BY <2>1, <2>2, <3>1, QuoteTyped DEF CallTypeOK
      <3>2. CASE End(c)
        BY <2>2, <3>2, EndTyped DEF CallTypeOK
      <3>3. CASE /\ seen' = [seen EXCEPT ![c] = row]
                 /\ Goto(c, "claim") /\ UNCHANGED <<bal, term>>
        BY <2>1, <2>2, <3>3, GotoTyped DEF CallTypeOK
      <3> QED
        BY <2>2, <3>1, <3>2, <3>3
    <2> QED
      BY <2>3, <2>5, <2>6
  <1>3. CASE RenewTurn(c)
    <2>1. MoneyTypeOK'
      BY <1>3, QuoteTyped DEF MoneyTypeOK, CallTypeOK, RenewTurn, wallets, accounts, calls
    <2>2. AccountTypeOK'
      BY <1>3, QuoteTyped DEF AccountTypeOK, CallTypeOK, RenewTurn, wallets, accounts, calls
    <2>3. CallTypeOK'
      BY <1>3, QuoteTyped DEF MoneyTypeOK, AccountTypeOK, CallTypeOK, RenewTurn, wallets, accounts, calls
    <2> QED
      BY <2>1, <2>2, <2>3
  <1>4. CASE LockWallet(c)
    <2>1. MoneyTypeOK'
      BY <1>4, GotoTyped DEF MoneyTypeOK, CallTypeOK, LockWallet, wallets, accounts, calls
    <2>2. AccountTypeOK'
      BY <1>4, GotoTyped DEF AccountTypeOK, CallTypeOK, LockWallet, wallets, accounts, calls
    <2>3. CallTypeOK'
      BY <1>4, GotoTyped DEF MoneyTypeOK, AccountTypeOK, CallTypeOK, LockWallet, wallets, accounts, calls
    <2> QED
      BY <2>1, <2>2, <2>3
  <1>5. CASE Refuse(c)
    <2>1. MoneyTypeOK'
      BY <1>5, UnlockTyped, EndTyped, ReplyTyped DEF MoneyTypeOK, CallTypeOK, Refuse, wallets, accounts, calls
    <2>2. AccountTypeOK'
      BY <1>5, UnlockTyped, EndTyped, ReplyTyped DEF AccountTypeOK, CallTypeOK, Refuse, wallets, accounts, calls
    <2>3. CallTypeOK'
      BY <1>5, UnlockTyped, EndTyped, ReplyTyped DEF MoneyTypeOK, AccountTypeOK, CallTypeOK, Refuse, wallets, accounts, calls
    <2> QED
      BY <2>1, <2>2, <2>3
  <1>6. CASE Replay(c)
    <2>1. MoneyTypeOK'
      BY <1>6, UnlockTyped, EndTyped, ReplyTyped DEF MoneyTypeOK, CallTypeOK, Replay, wallets, accounts, calls
    <2>2. AccountTypeOK'
      BY <1>6, UnlockTyped, EndTyped, ReplyTyped DEF AccountTypeOK, CallTypeOK, Replay, wallets, accounts, calls
    <2>3. CallTypeOK'
      BY <1>6, UnlockTyped, EndTyped, ReplyTyped DEF MoneyTypeOK, AccountTypeOK, CallTypeOK, Replay, wallets, accounts, calls
    <2> QED
      BY <2>1, <2>2, <2>3
  <1>7. CASE InsertEntry(c)
    <2>1. MoneyTypeOK'
      BY <1>7, GotoTyped DEF MoneyTypeOK, CallTypeOK, InsertEntry, wallets, accounts, calls
    <2>2. AccountTypeOK'
      BY <1>7, GotoTyped DEF AccountTypeOK, CallTypeOK, InsertEntry, wallets, accounts, calls
    <2>3. CallTypeOK'
      BY <1>7, GotoTyped DEF MoneyTypeOK, AccountTypeOK, CallTypeOK, InsertEntry, wallets, accounts, calls
    <2> QED
      BY <2>1, <2>2, <2>3
  <1>8. CASE Commit(c)
    <2>1. term[c] \in Nat /\ (c \in Recurring) \in BOOLEAN
      BY DEF CallTypeOK
    <2>2. /\ Unlock(c) /\ Reply(c, "paid") /\ Forget(c)
          /\ UNCHANGED <<now, recorded, redeemed>>
          /\ \/ /\ SetPlan(UserOf[c], "paid", term[c], c \in Recurring)
                /\ granted' = granted \cup {c} /\ Goto(c, "referral")
             \/ UNCHANGED <<accounts, granted>> /\ Goto(c, "end")
      BY <1>8 DEF Commit
    <2>3. MoneyTypeOK'
      BY <1>8, <2>2, CommitTyped, UnlockTyped DEF MoneyTypeOK
    <2>4. plan' \in [User -> {"free", "paid"}]
          /\ until' \in [User -> Nat] /\ renews' \in [User -> BOOLEAN]
      <3>1. CASE SetPlan(UserOf[c], "paid", term[c], c \in Recurring)
        BY <2>1, <3>1 DEF SetPlan, AccountTypeOK
      <3>2. CASE UNCHANGED accounts
        BY <3>2 DEF AccountTypeOK, accounts
      <3> QED
        BY <2>2, <3>1, <3>2
    <2>5. AccountTypeOK'
      BY <2>2, <2>4 DEF AccountTypeOK
    <2>6. CallTypeOK'
      BY <2>2, ReplyTyped, ForgetTyped, GotoTyped DEF CallTypeOK
    <2> QED
      BY <2>3, <2>5, <2>6
  <1>9. CASE Rollback(c)
    <2>1. MoneyTypeOK'
      BY <1>9, UnlockTyped, EndTyped DEF MoneyTypeOK, CallTypeOK, Rollback, wallets, accounts, calls
    <2>2. AccountTypeOK'
      BY <1>9, UnlockTyped, EndTyped DEF AccountTypeOK, CallTypeOK, Rollback, wallets, accounts, calls
    <2>3. CallTypeOK'
      BY <1>9, UnlockTyped, EndTyped DEF MoneyTypeOK, AccountTypeOK, CallTypeOK, Rollback, wallets, accounts, calls
    <2> QED
      BY <2>1, <2>2, <2>3
  <1>10. CASE HasProcessedSale(c)
    <2>1. MoneyTypeOK'
      BY <1>10, QuoteTyped, EndTyped DEF MoneyTypeOK, CallTypeOK, HasProcessedSale, wallets, accounts, calls
    <2>2. AccountTypeOK'
      BY <1>10, QuoteTyped, EndTyped DEF AccountTypeOK, CallTypeOK, HasProcessedSale, wallets, accounts, calls
    <2>3. CallTypeOK'
      BY <1>10, QuoteTyped, EndTyped DEF MoneyTypeOK, AccountTypeOK, CallTypeOK, HasProcessedSale, wallets, accounts, calls
    <2> QED
      BY <2>1, <2>2, <2>3
  <1>11. CASE ClaimCode(c)
    <2>1. MoneyTypeOK'
      BY <1>11, EndTyped, ReplyTyped, GotoTyped DEF MoneyTypeOK, CallTypeOK, ClaimCode, wallets, accounts, calls
    <2>2. AccountTypeOK'
      BY <1>11, EndTyped, ReplyTyped, GotoTyped DEF AccountTypeOK, CallTypeOK, ClaimCode, wallets, accounts, calls
    <2>3. CallTypeOK'
      BY <1>11, EndTyped, ReplyTyped, GotoTyped DEF MoneyTypeOK, AccountTypeOK, CallTypeOK, ClaimCode, wallets, accounts, calls
    <2> QED
      BY <2>1, <2>2, <2>3
  <1>12. CASE MarkResellerCodeRedeemed(c)
    <2>1. MoneyTypeOK'
      BY <1>12 DEF MoneyTypeOK, MarkResellerCodeRedeemed, wallets
    <2>2. AccountTypeOK'
      <3>1. redeemed' \in [Ref -> User \cup {NoUser}]
        BY <1>12 DEF AccountTypeOK, MarkResellerCodeRedeemed
      <3> QED
        BY <1>12, <3>1 DEF AccountTypeOK, MarkResellerCodeRedeemed, accounts
    <2>3. seen[c] \in Seen
      BY DEF CallTypeOK
    <2>4. CallTypeOK'
      BY <1>12, <2>3, QuoteTyped, EndTyped, ReplyTyped DEF CallTypeOK, MarkResellerCodeRedeemed
    <2> QED
      BY <2>1, <2>2, <2>4
  <1>13. CASE UpdatePlan(c)
    <2>1. MoneyTypeOK'
      BY <1>13, SetPlanTyped, ForgetTyped, GotoTyped, ReplyTyped DEF MoneyTypeOK, CallTypeOK, UpdatePlan, wallets, accounts, calls
    <2>2. AccountTypeOK'
      BY <1>13, SetPlanTyped, ForgetTyped, GotoTyped, ReplyTyped DEF AccountTypeOK, CallTypeOK, UpdatePlan, wallets, accounts, calls
    <2>3. CallTypeOK'
      BY <1>13, SetPlanTyped, ForgetTyped, GotoTyped, ReplyTyped DEF MoneyTypeOK, AccountTypeOK, CallTypeOK, UpdatePlan, wallets, accounts, calls
    <2> QED
      BY <2>1, <2>2, <2>3
  <1>14. CASE RecordProcessedSale(c)
    <2>1. MoneyTypeOK'
      BY <1>14, GotoTyped DEF MoneyTypeOK, CallTypeOK, RecordProcessedSale, wallets, accounts, calls
    <2>2. AccountTypeOK'
      BY <1>14, GotoTyped DEF AccountTypeOK, CallTypeOK, RecordProcessedSale, wallets, accounts, calls
    <2>3. CallTypeOK'
      BY <1>14, GotoTyped DEF MoneyTypeOK, AccountTypeOK, CallTypeOK, RecordProcessedSale, wallets, accounts, calls
    <2> QED
      BY <2>1, <2>2, <2>3
  <1>15. CASE RewardRead(c)
    <2> DEFINE r == Referrer[UserOf[c]]
               from == IF r # NoUser /\ until[r] > now THEN until[r] ELSE now
               t == IF from + Reward > now + MaxReward THEN now + MaxReward ELSE from + Reward
    <2>1. t \in Nat
      BY DEF AccountTypeOK
    <2>2. /\ \/ Goto(c, "end") /\ UNCHANGED term
             \/ term' = [term EXCEPT ![c] = t] /\ Goto(c, "reward")
          /\ UNCHANGED <<now, wallets, accounts, recorded, redeemed, bal, seen, answer, granted>>
      BY <1>15 DEF RewardRead
    <2> HIDE DEF r, from, t
    <2>3. MoneyTypeOK' /\ AccountTypeOK'
      BY <2>2 DEF MoneyTypeOK, AccountTypeOK, wallets, accounts
    <2>4. CallTypeOK'
      BY <2>1, <2>2, GotoTyped DEF CallTypeOK
    <2> QED
      BY <2>3, <2>4
  <1>16. CASE RewardWrite(c)
    <2>1. MoneyTypeOK'
      BY <1>16, EndTyped DEF MoneyTypeOK, CallTypeOK, RewardWrite, wallets, accounts, calls
    <2>2. AccountTypeOK'
      BY <1>16, EndTyped DEF AccountTypeOK, CallTypeOK, RewardWrite, wallets, accounts, calls
    <2>3. CallTypeOK'
      BY <1>16, EndTyped DEF MoneyTypeOK, AccountTypeOK, CallTypeOK, RewardWrite, wallets, accounts, calls
    <2> QED
      BY <2>1, <2>2, <2>3
  <1> QED
    BY <1>1, <1>2, <1>3, <1>4, <1>5, <1>6, <1>7, <1>8, <1>9, <1>10, <1>11, <1>12, <1>13, <1>14, <1>15, <1>16 DEF Step, Transaction

-----------------------------------------------------------------------------
(* The wallets.                                                            *)

\* The steps outside a transaction, and the ends of one that enters nothing.
Elsewhere(c) ==
  \/ Load(c) \/ Authorize(c) \/ RenewTurn(c)
  \/ HasProcessedSale(c) \/ ClaimCode(c) \/ MarkResellerCodeRedeemed(c)
  \/ UpdatePlan(c) \/ RecordProcessedSale(c) \/ RewardRead(c) \/ RewardWrite(c)

Leaving(c) == Refuse(c) \/ Replay(c) \/ Rollback(c)

\* What a step does to other calls' stages and balances, and to the purchases given.
Frame(c) ==
  /\ \A d \in Call \ {c} : pc'[d] = pc[d] /\ bal'[d] = bal[d]
  /\ \A d \in Call : d \in granted' => d \in granted \/ d = c
  /\ \A d \in Call : d \in granted => d \in granted'

LEMMA ElsewhereKeeps ==
  ASSUME TypeOK, StageInv, NEW c \in Call, Elsewhere(c)
  PROVE  /\ UNCHANGED wallets
         /\ Frame(c)
         /\ ~InTransaction(c)'
         /\ Kind[c] \in Buys => granted' = granted
  <1> USE DEF TypeOK, CallTypeOK, Frame, InTransaction, Goto, End, Forget, Quote, Buys, StageInv
  <1>1. CASE Load(c)
    BY <1>1 DEF Load, Read, calls
  <1>2. CASE Authorize(c)
    BY <1>2 DEF Authorize, Read, calls
  <1>3. CASE RenewTurn(c)
    BY <1>3 DEF RenewTurn, Read, calls
  <1>4. CASE HasProcessedSale(c)
    BY <1>4 DEF HasProcessedSale, Read, calls
  <1>5. CASE ClaimCode(c)
    BY <1>5 DEF ClaimCode, Read, calls
  <1>6. CASE MarkResellerCodeRedeemed(c)
    BY <1>6 DEF MarkResellerCodeRedeemed, Read, calls
  <1>7. CASE UpdatePlan(c)
    BY <1>7 DEF UpdatePlan, Read, calls
  <1>8. CASE RecordProcessedSale(c)
    BY <1>8 DEF RecordProcessedSale, Read, calls
  <1>9. CASE RewardRead(c)
    BY <1>9 DEF RewardRead, Read, calls
  <1>10. CASE RewardWrite(c)
    BY <1>10 DEF RewardWrite, Read, calls
  <1> QED
    BY <1>1, <1>2, <1>3, <1>4, <1>5, <1>6, <1>7, <1>8, <1>9, <1>10 DEF Elsewhere

LEMMA LeavingKeeps ==
  ASSUME TypeOK, NEW c \in Call, Leaving(c)
  PROVE  /\ UNCHANGED <<balance, ledger, granted>>
         /\ Frame(c)
         /\ ~InTransaction(c)'
         /\ \A u \in User : lock[u] # c => lock'[u] = lock[u]
  BY DEF TypeOK, CallTypeOK, MoneyTypeOK, Frame, InTransaction, Goto, End, Forget, Unlock, Leaving,
         Refuse, Replay, Rollback, calls, wallets

\* A step that leaves the ledgers and the purchases given as they are.
LEMMA LedgerKept ==
  ASSUME BalanceIsLedger, RefOnce, OneGrantPerCharge, UNCHANGED <<balance, ledger>>,
         \A d \in Call : Kind[d] \in Buys => (d \in granted' <=> d \in granted),
         granted \subseteq Call, granted' \subseteq Call
  PROVE  BalanceIsLedger' /\ RefOnce' /\ OneGrantPerCharge'
  BY DEF BalanceIsLedger, RefOnce, OneGrantPerCharge, After

\* A transaction is alone on its wallet.
LEMMA Alone ==
  ASSUME TransactionInv, NEW c \in Call, NEW d \in Call \ {c}, InTransaction(c), InTransaction(d)
  PROVE  UserOf[c] # UserOf[d]
  BY DEF TransactionInv

\* What a commit does to its wallet.
Entered(c, u, n) ==
  /\ u \in User /\ n \in Nat
  /\ Len(ledger'[u]) = n + 1
  /\ \A i \in 1..n : ledger'[u][i] = ledger[u][i]
  /\ ledger'[u][n + 1].ref = RefOf[c]
  /\ ledger'[u][n + 1].delta = Delta(c)
  /\ ledger'[u][n + 1].after = After(u, n) + Delta(c)
  /\ ledger'[u][n + 1].after >= 0
  /\ balance'[u] = ledger'[u][n + 1].after
  /\ \A v \in User \ {u} : ledger'[v] = ledger[v] /\ balance'[v] = balance[v]

LEMMA CommitEnters ==
  ASSUME TypeOK, StageInv, TransactionInv, BalanceIsLedger, NEW c \in Call, Commit(c)
  PROVE  Entered(c, UserOf[c], Len(ledger[UserOf[c]]))
  <1> DEFINE u == UserOf[c]
             n == Len(ledger[u])
             after == bal[c] + Delta(c)
             e == [ref |-> RefOf[c], delta |-> Delta(c), after |-> after]
  <1>1. u \in User /\ n \in Nat /\ ledger[u] \in Seq(Entry) /\ after \in Int /\ Delta(c) \in Int
    <2>1. u \in User /\ bal[c] \in Int
      BY DEF TypeOK, CallTypeOK
    <2>2. ledger[u] \in Seq(Entry)
      BY <2>1 DEF TypeOK, MoneyTypeOK
    <2>3. n \in Nat
      BY <2>2
    <2>4. Delta(c) \in Int
      BY DEF Delta
    <2> QED
      BY <2>1, <2>2, <2>3, <2>4
  <1>2. ledger' = [ledger EXCEPT ![u] = Append(ledger[u], e)]
        /\ balance' = [balance EXCEPT ![u] = after]
    BY DEF Commit
  <1>3. pc[c] = "commit"
    BY DEF Commit
  <1>4. bal[c] = balance[u] /\ Affordable(c)
    BY <1>3 DEF TransactionInv, InTransaction
  <1>5. balance[u] = After(u, n)
    BY <1>1 DEF BalanceIsLedger
  <1>6. balance[u] >= 0
    <2>1. CASE n = 0
      BY <1>5, <2>1 DEF After
    <2>2. CASE n # 0
      <3>1. n \in DOMAIN ledger[u]
        BY <1>1, <2>2
      <3> QED
        BY <1>1, <1>5, <2>2, <3>1 DEF BalanceIsLedger, After
    <2> QED
      BY <2>1, <2>2
  <1>7. after >= 0
    BY <1>1, <1>4, <1>6 DEF Affordable, Delta, TypeOK, MoneyTypeOK
  <1>8. /\ Len(Append(ledger[u], e)) = n + 1
        /\ \A i \in 1..n : Append(ledger[u], e)[i] = ledger[u][i]
        /\ Append(ledger[u], e)[n + 1] = e
    <2> HIDE DEF e
    <2> QED
      BY <1>1
  <1>9. ledger'[u] = Append(ledger[u], e) /\ balance'[u] = after
        /\ \A v \in User \ {u} : ledger'[v] = ledger[v] /\ balance'[v] = balance[v]
    <2> HIDE DEF e, after
    <2> QED
      BY <1>1, <1>2 DEF TypeOK, MoneyTypeOK
  <1> QED
    BY <1>1, <1>4, <1>5, <1>7, <1>8, <1>9 DEF Entered

LEMMA CommitKeeps ==
  ASSUME TypeOK, StageInv, TransactionInv, BalanceIsLedger, RefOnce, OneGrantPerCharge,
         NEW c \in Call, Commit(c)
  PROVE  BalanceIsLedger' /\ RefOnce' /\ OneGrantPerCharge'
  <1> DEFINE u == UserOf[c]
             n == Len(ledger[u])
  <1>1. /\ u \in User /\ n \in Nat
        /\ Len(ledger'[u]) = n + 1
        /\ \A i \in 1..n : ledger'[u][i] = ledger[u][i]
        /\ ledger'[u][n + 1].ref = RefOf[c]
        /\ ledger'[u][n + 1].delta = Delta(c)
        /\ ledger'[u][n + 1].after = After(u, n) + Delta(c)
        /\ ledger'[u][n + 1].after >= 0
        /\ balance'[u] = ledger'[u][n + 1].after
        /\ \A v \in User \ {u} : ledger'[v] = ledger[v] /\ balance'[v] = balance[v]
    BY CommitEnters DEF Entered
  <1>2. /\ \A v \in User : ledger[v] \in Seq(Entry) /\ ledger'[v] \in Seq(Entry)
        /\ u = UserOf[c] /\ n = Len(ledger[u])
    BY StepTyped DEF Step, Transaction, TypeOK, MoneyTypeOK
  <1>3. pc[c] = "commit"
    BY DEF Commit
  <1>4. RefOf[c] \notin Refs
    BY <1>3 DEF TransactionInv
  <1> HIDE DEF u, n
  <1>5. \A v \in User : DOMAIN ledger[v] = 1..Len(ledger[v]) /\ DOMAIN ledger'[v] = 1..Len(ledger'[v])
    BY <1>2
  <1>6. BalanceIsLedger'
    <2>1. ASSUME NEW v \in User, v # u
          PROVE  /\ balance'[v] = After(v, Len(ledger[v]))'
                 /\ \A i \in DOMAIN ledger'[v] :
                      /\ ledger'[v][i].after = After(v, i - 1)' + ledger'[v][i].delta
                      /\ ledger'[v][i].after >= 0
      <3>1. ledger'[v] = ledger[v] /\ balance'[v] = balance[v]
        BY <1>1, <2>1
      <3>2. \A i : After(v, i)' = After(v, i)
        BY <3>1 DEF After
      <3> QED
        BY <3>1, <3>2 DEF BalanceIsLedger
    <2>2. balance'[u] = After(u, Len(ledger[u]))'
      BY <1>1 DEF After
    <2>3. \A i \in 0..n : After(u, i)' = After(u, i)
      BY <1>1 DEF After
    <2>4. ASSUME NEW i \in 1..(n + 1)
          PROVE  /\ ledger'[u][i].after = After(u, i - 1)' + ledger'[u][i].delta
                 /\ ledger'[u][i].after >= 0
      <3>1. CASE i = n + 1
        <4>1. After(u, i - 1)' = After(u, n)
          BY <1>1, <2>3, <3>1
        <4> QED
          BY <1>1, <3>1, <4>1
      <3>2. CASE i # n + 1
        <4>1. i \in 1..n /\ i - 1 \in 0..n
          BY <1>1, <3>2
        <4>2. ledger[u][i].after = After(u, i - 1) + ledger[u][i].delta /\ ledger[u][i].after >= 0
          BY <1>1, <1>2, <1>5, <4>1 DEF BalanceIsLedger
        <4> QED
          BY <1>1, <2>3, <4>1, <4>2
      <3> QED
        BY <3>1, <3>2
    <2>5. DOMAIN ledger'[u] = 1..(n + 1)
      BY <1>1, <1>5
    <2> QED
      BY <1>1, <2>1, <2>2, <2>4, <2>5 DEF BalanceIsLedger
  <1>7. \A v \in User, i \in Nat :
          i \in DOMAIN ledger'[v] =>
            \/ i \in DOMAIN ledger[v] /\ ledger'[v][i] = ledger[v][i]
            \/ v = u /\ i = n + 1 /\ ledger'[v][i].ref = RefOf[c]
    <2> SUFFICES ASSUME NEW v \in User, NEW i \in Nat, i \in DOMAIN ledger'[v]
                 PROVE  \/ i \in DOMAIN ledger[v] /\ ledger'[v][i] = ledger[v][i]
                        \/ v = u /\ i = n + 1 /\ ledger'[v][i].ref = RefOf[c]
      OBVIOUS
    <2>1. CASE v # u
      BY <1>1, <2>1
    <2>2. CASE v = u
      <3>1. i \in 1..(n + 1)
        BY <1>1, <1>5, <2>2
      <3>2. i \in 1..n \/ i = n + 1
        BY <1>1, <3>1
      <3> QED
        BY <1>1, <1>2, <1>5, <2>2, <3>2
    <2> QED
      BY <2>1, <2>2
  <1>8. \A v \in User : \A i \in DOMAIN ledger[v] :
          i \in DOMAIN ledger'[v] /\ ledger'[v][i] = ledger[v][i]
    <2> SUFFICES ASSUME NEW v \in User, NEW i \in DOMAIN ledger[v]
                 PROVE  i \in DOMAIN ledger'[v] /\ ledger'[v][i] = ledger[v][i]
      OBVIOUS
    <2>1. CASE v # u
      BY <1>1, <2>1
    <2>2. CASE v = u
      <3>1. i \in 1..n
        BY <1>2, <1>5, <2>2
      <3>2. i \in 1..(n + 1)
        BY <1>1, <3>1
      <3> QED
        BY <1>1, <1>5, <2>2, <3>1, <3>2
    <2> QED
      BY <2>1, <2>2
  <1>9. \A v \in User : \A i \in DOMAIN ledger[v] : ledger[v][i].ref # RefOf[c]
    BY <1>4 DEF Refs
  <1>10. RefOnce'
    <2> SUFFICES ASSUME NEW v \in User, NEW w \in User, NEW i \in DOMAIN ledger'[v],
                        NEW j \in DOMAIN ledger'[w], ledger'[v][i].ref = ledger'[w][j].ref
                 PROVE  v = w /\ i = j
      BY DEF RefOnce
    <2>1. i \in Nat /\ j \in Nat
      BY <1>5
    <2> QED
      BY <1>7, <1>9, <2>1 DEF RefOnce
  <1>11. OneGrantPerCharge'
    <2> SUFFICES ASSUME NEW d \in granted', Kind[d] \in Buys
                 PROVE  /\ \E i \in DOMAIN ledger'[UserOf[d]] :
                             /\ ledger'[UserOf[d]][i].ref = RefOf[d]
                             /\ ledger'[UserOf[d]][i].delta = Delta(d)
                        /\ \A f \in granted' : Kind[f] \in Buys /\ RefOf[f] = RefOf[d] => f = d
      BY DEF OneGrantPerCharge, Delta
    <2>1. granted' = IF Kind[c] \in Buys THEN granted \cup {c} ELSE granted
      BY DEF Commit
    <2>2. granted \subseteq Call /\ \A f \in granted : UserOf[f] \in User
      BY DEF TypeOK, CallTypeOK
    <2>3. \A f \in granted : Kind[f] \in Buys => RefOf[f] # RefOf[c]
      BY <1>9, <2>2 DEF OneGrantPerCharge
    <2>4. n + 1 \in DOMAIN ledger'[u]
      BY <1>1, <1>5
    <2>5. CASE d = c
      BY <1>1, <1>2, <2>1, <2>3, <2>4, <2>5
    <2>6. CASE d # c
      <3>1. d \in granted
        BY <2>1, <2>6
      <3>2. PICK i \in DOMAIN ledger[UserOf[d]] :
              ledger[UserOf[d]][i].ref = RefOf[d] /\ ledger[UserOf[d]][i].delta = Delta(d)
        BY <3>1 DEF OneGrantPerCharge
      <3>3. i \in DOMAIN ledger'[UserOf[d]] /\ ledger'[UserOf[d]][i] = ledger[UserOf[d]][i]
        BY <1>8, <2>2, <3>1
      <3>4. \A f \in granted' : Kind[f] \in Buys /\ RefOf[f] = RefOf[d] => f = d
        BY <2>1, <2>3, <3>1 DEF OneGrantPerCharge
      <3> QED
        BY <3>2, <3>3, <3>4
    <2> QED
      BY <2>5, <2>6
  <1> QED
    BY <1>6, <1>10, <1>11

\* Transactions stay apart.
LEMMA TransactionsApart ==
  ASSUME TypeOK, StageInv, TransactionInv, BalanceIsLedger, NEW c \in Call, Step(c)
  PROVE  TransactionInv'
  <1> USE DEF Frame, InTransaction
  <1>1. CASE Elsewhere(c)
    <2>1. Refs' = Refs
      BY <1>1, ElsewhereKeeps DEF wallets, Refs
    <2> QED
      BY <1>1, <2>1, ElsewhereKeeps DEF TransactionInv, wallets, Affordable, Delta
  <1>2. CASE Leaving(c)
    <2>1. Refs' = Refs
      BY <1>2, LeavingKeeps DEF Refs
    <2>2. \A d \in Call \ {c} : InTransaction(d) => lock'[UserOf[d]] = d
      BY <1>2, LeavingKeeps DEF TransactionInv
    <2> QED
      BY <1>2, <2>1, <2>2, LeavingKeeps DEF TransactionInv, Affordable, Delta
  <1>3. CASE LockWallet(c)
    <2>1. Refs' = Refs /\ balance' = balance
      BY <1>3 DEF LockWallet, Refs
    <2>2. /\ pc' = [pc EXCEPT ![c] = "insert"] /\ bal' = [bal EXCEPT ![c] = balance[UserOf[c]]]
          /\ lock' = [lock EXCEPT ![UserOf[c]] = c] /\ lock[UserOf[c]] = NoCall
      BY <1>3 DEF LockWallet, Goto
    <2>3. \A d \in Call \ {c} : InTransaction(d) => UserOf[d] # UserOf[c]
      BY <2>2 DEF TransactionInv
    <2> QED
      BY <2>1, <2>2, <2>3 DEF TransactionInv, Affordable, Delta, TypeOK, CallTypeOK, MoneyTypeOK
  <1>4. CASE InsertEntry(c)
    <2>1. Refs' = Refs /\ UNCHANGED <<balance, lock, bal>> /\ pc' = [pc EXCEPT ![c] = "commit"]
      BY <1>4 DEF InsertEntry, Refs, wallets, Goto
    <2>2. pc[c] = "insert" /\ RefOf[c] \notin Refs /\ Affordable(c)
          /\ \A d \in Call \ {c} : pc[d] = "commit" => RefOf[d] # RefOf[c]
      BY <1>4 DEF InsertEntry, Unsettled
    <2> QED
      BY <2>1, <2>2 DEF TransactionInv, Affordable, Delta, TypeOK, CallTypeOK
  <1>5. CASE Commit(c)
    <2>1. /\ pc[c] = "commit" /\ Unlock(c)
          /\ \A d \in Call \ {c} : pc'[d] = pc[d] /\ bal'[d] = bal[d]
          /\ ~InTransaction(c)'
      BY <1>5 DEF Commit, Goto, Forget, TypeOK, CallTypeOK
    <2>2. Entered(c, UserOf[c], Len(ledger[UserOf[c]]))
      BY <1>5, CommitEnters
    <2>3. Refs' \subseteq Refs \cup {RefOf[c]}
      <3> DEFINE u == UserOf[c]
                 n == Len(ledger[u])
      <3>1. u \in User /\ n \in Nat /\ n = Len(ledger[u])
            /\ \A v \in User : ledger[v] \in Seq(Entry) /\ ledger'[v] \in Seq(Entry)
        BY <1>5, StepTyped DEF Step, Transaction, TypeOK, MoneyTypeOK
      <3>2. Entered(c, u, n)
        BY <2>2
      <3> HIDE DEF u, n
      <3> SUFFICES ASSUME NEW v \in User, NEW i \in DOMAIN ledger'[v]
                   PROVE  ledger'[v][i].ref \in Refs \cup {RefOf[c]}
        BY DEF Refs
      <3>3. CASE v # u
        BY <3>2, <3>3 DEF Entered, Refs
      <3>4. CASE v = u
        <4>1. i \in 1..(n + 1)
          BY <3>1, <3>2, <3>4 DEF Entered
        <4>2. CASE i = n + 1
          BY <3>2, <3>4, <4>2 DEF Entered
        <4>3. CASE i # n + 1
          <5>1. i \in 1..n
            BY <3>1, <4>1, <4>3
          <5>2. i \in DOMAIN ledger[v] /\ ledger'[v][i] = ledger[v][i]
            BY <3>1, <3>2, <3>4, <5>1 DEF Entered
          <5> QED
            BY <5>2 DEF Refs
        <4> QED
          BY <4>2, <4>3
      <3> QED
        BY <3>3, <3>4
    <2>4. \A d \in Call \ {c} : InTransaction(d) =>
            /\ UserOf[d] # UserOf[c]
            /\ lock[UserOf[d]] = d /\ balance[UserOf[d]] = bal[d]
      BY <2>1, Alone DEF TransactionInv
    <2>5. \A d \in Call \ {c} : InTransaction(d) =>
            lock'[UserOf[d]] = d /\ balance'[UserOf[d]] = bal[d]
      BY <2>1, <2>2, <2>4 DEF Unlock, Entered
    <2> QED
      BY <2>1, <2>3, <2>5 DEF TransactionInv, Affordable, Delta
  <1> QED
    BY <1>1, <1>2, <1>3, <1>4, <1>5 DEF Step, Transaction, Elsewhere, Leaving

-----------------------------------------------------------------------------
(* Stages, sales and codes.                                                *)

LEMMA StepStaged ==
  ASSUME TypeOK, StageInv, NEW c \in Call, Step(c)
  PROVE  StageInv'
  <1> USE DEF StageInv, TypeOK, CallTypeOK, Goto, End, Forget, Quote, Moves, Buys, Requests, calls
  <1>1. CASE Load(c)
    BY <1>1 DEF Load
  <1>2. CASE Authorize(c)
    BY <1>2 DEF Authorize
  <1>3. CASE RenewTurn(c)
    BY <1>3 DEF RenewTurn
  <1>4. CASE LockWallet(c)
    BY <1>4 DEF LockWallet
  <1>5. CASE Refuse(c)
    BY <1>5 DEF Refuse
  <1>6. CASE Replay(c)
    BY <1>6 DEF Replay
  <1>7. CASE InsertEntry(c)
    BY <1>7 DEF InsertEntry
  <1>8. CASE Commit(c)
    BY <1>8 DEF Commit
  <1>9. CASE Rollback(c)
    BY <1>9 DEF Rollback
  <1>10. CASE HasProcessedSale(c)
    BY <1>10 DEF HasProcessedSale
  <1>11. CASE ClaimCode(c)
    BY <1>11 DEF ClaimCode
  <1>12. CASE MarkResellerCodeRedeemed(c)
    BY <1>12 DEF MarkResellerCodeRedeemed
  <1>13. CASE UpdatePlan(c)
    BY <1>13 DEF UpdatePlan
  <1>14. CASE RecordProcessedSale(c)
    BY <1>14 DEF RecordProcessedSale
  <1>15. CASE RewardRead(c)
    BY <1>15 DEF RewardRead
  <1>16. CASE RewardWrite(c)
    BY <1>16 DEF RewardWrite
  <1> QED
    BY <1>1, <1>2, <1>3, <1>4, <1>5, <1>6, <1>7, <1>8, <1>9, <1>10, <1>11, <1>12, <1>13, <1>14, <1>15, <1>16 DEF Step, Transaction

LEMMA RecordedKept ==
  ASSUME TypeOK, StageInv, RecordedIsGranted, NEW c \in Call, Step(c)
  PROVE  RecordedIsGranted'
  <1>1. granted \subseteq granted'
    BY DEF Step, Transaction, Load, Authorize, RenewTurn, LockWallet, Refuse, Replay, InsertEntry, Commit,
           Rollback, HasProcessedSale, ClaimCode, MarkResellerCodeRedeemed, UpdatePlan,
           RecordProcessedSale, RewardRead, RewardWrite
  <1>2. CASE RecordProcessedSale(c)
    BY <1>1, <1>2 DEF RecordProcessedSale, RecordedIsGranted, StageInv
  <1>3. CASE ~RecordProcessedSale(c)
    <2>1. recorded' = recorded
      BY <1>3 DEF Step, Transaction, Load, Authorize, RenewTurn, LockWallet, Refuse, Replay, InsertEntry,
             Commit, Rollback, HasProcessedSale, ClaimCode, MarkResellerCodeRedeemed, UpdatePlan,
             RewardRead, RewardWrite
    <2> QED
      BY <1>1, <2>1 DEF RecordedIsGranted
  <1> QED
    BY <1>2, <1>3

\* Who is about to give the plan of a code, or has given it.
Redeeming(c) == Kind[c] = "redeem" /\ (pc[c] = "grant" \/ c \in granted)

LEMMA ClaimKept ==
  ASSUME TypeOK, StageInv, ClaimInv, NEW c \in Call, Step(c)
  PROVE  ClaimInv'
  <1> USE DEF TypeOK, CallTypeOK, AccountTypeOK, Goto
  <1>1. CASE MarkResellerCodeRedeemed(c)
    <2>1. CASE redeemed[RefOf[c]] = NoUser
      <3>1. /\ redeemed' = [redeemed EXCEPT ![RefOf[c]] = UserOf[c]]
            /\ pc' = [pc EXCEPT ![c] = "grant"] /\ granted' = granted
        BY <1>1, <2>1 DEF MarkResellerCodeRedeemed, Quote
      <3>2. \A d \in Call : RefOf[d] = RefOf[c] => ~Redeeming(d)
        BY <2>1 DEF ClaimInv, Redeeming
      <3>3. redeemed'[RefOf[c]] # NoUser /\ \A r \in Ref \ {RefOf[c]} : redeemed'[r] = redeemed[r]
        BY <3>1
      <3> QED
        BY <3>1, <3>2, <3>3 DEF ClaimInv, Redeeming
    <2>2. CASE redeemed[RefOf[c]] # NoUser
      <3>1. redeemed' = redeemed /\ pc' = [pc EXCEPT ![c] = "end"] /\ granted' = granted
        BY <1>1, <2>2 DEF MarkResellerCodeRedeemed, End
      <3> QED
        BY <3>1 DEF ClaimInv
    <2> QED
      BY <2>1, <2>2
  <1>2. CASE UpdatePlan(c)
    <2>1. /\ pc[c] = "grant" /\ redeemed' = redeemed /\ granted' = granted \cup {c}
          /\ pc' \in {[pc EXCEPT ![c] = "record"], [pc EXCEPT ![c] = "end"]}
      BY <1>2 DEF UpdatePlan
    <2> QED
      BY <2>1 DEF ClaimInv
  <1>3. CASE ~MarkResellerCodeRedeemed(c) /\ ~UpdatePlan(c)
    <2>1. redeemed' = redeemed /\ \A d \in Call : Redeeming(d)' => Redeeming(d)
      <3> USE DEF Redeeming, End, Quote, StageInv, Moves, Buys
      <3>1. CASE Load(c)
        BY <3>1 DEF Load
      <3>2. CASE Authorize(c)
        BY <3>2 DEF Authorize
      <3>3. CASE RenewTurn(c)
        BY <3>3 DEF RenewTurn
      <3>4. CASE LockWallet(c)
        BY <3>4 DEF LockWallet
      <3>5. CASE Refuse(c)
        BY <3>5 DEF Refuse
      <3>6. CASE Replay(c)
        BY <3>6 DEF Replay
      <3>7. CASE InsertEntry(c)
        BY <3>7 DEF InsertEntry
      <3>8. CASE Commit(c)
        BY <3>8 DEF Commit
      <3>9. CASE Rollback(c)
        BY <3>9 DEF Rollback
      <3>10. CASE HasProcessedSale(c)
        BY <3>10 DEF HasProcessedSale
      <3>11. CASE ClaimCode(c)
        BY <3>11 DEF ClaimCode
      <3>12. CASE RecordProcessedSale(c)
        BY <3>12 DEF RecordProcessedSale
      <3>13. CASE RewardRead(c)
        BY <3>13 DEF RewardRead
      <3>14. CASE RewardWrite(c)
        BY <3>14 DEF RewardWrite
      <3> QED
        BY <1>3, <3>1, <3>2, <3>3, <3>4, <3>5, <3>6, <3>7, <3>8, <3>9, <3>10, <3>11, <3>12, <3>13, <3>14 DEF Step, Transaction
    <2> QED
      BY <2>1 DEF ClaimInv, Redeeming
  <1> QED
    BY <1>1, <1>2, <1>3

-----------------------------------------------------------------------------
(* The theorems.                                                           *)

\* Whatever calls are made, with whatever references, and however their statements
\* interleave or fail: the inductive invariant.
THEOREM WalletInvariant == Spec => []WalletInv
  <1>1. Init => WalletInv
    <2> SUFFICES ASSUME Init PROVE WalletInv
      OBVIOUS
    <2>1. \A c \in Call : pc[c] \in {"start", "end"}
      BY DEF Init
    <2>2. \A u \in User : ledger[u] = << >> /\ balance[u] = 0
      BY DEF Init
    <2>3. TypeOK
      <3>1. NewAccount \in Seen
        BY DEF NewAccount, Seen
      <3>2. MoneyTypeOK
        BY DEF Init, MoneyTypeOK
      <3>3. AccountTypeOK
        BY DEF Init, AccountTypeOK
      <3>4. CallTypeOK
        BY <3>1 DEF Init, CallTypeOK, Stage
      <3> QED
        BY <3>2, <3>3, <3>4 DEF TypeOK
    <2>4. StageInv /\ TransactionInv /\ ClaimInv /\ OneGrantPerCharge /\ RecordedIsGranted
      BY <2>1 DEF Init, StageInv, TransactionInv, ClaimInv, OneGrantPerCharge, RecordedIsGranted,
                  InTransaction
    <2>5. BalanceIsLedger /\ RefOnce
      BY <2>2 DEF BalanceIsLedger, RefOnce, After
    <2> QED
      BY <2>3, <2>4, <2>5 DEF WalletInv
  <1>2. WalletInv /\ [Next]_vars => WalletInv'
    <2> SUFFICES ASSUME WalletInv, [Next]_vars PROVE WalletInv'
      OBVIOUS
    <2> USE DEF WalletInv
    <2>1. ASSUME NEW c \in Call, Step(c)
          PROVE  WalletInv'
      <3>1. TypeOK' /\ StageInv' /\ TransactionInv' /\ ClaimInv' /\ RecordedIsGranted'
        BY <2>1, StepTyped, StepStaged, TransactionsApart, ClaimKept, RecordedKept
      <3>2. BalanceIsLedger' /\ RefOnce' /\ OneGrantPerCharge'
        <4>1. CASE Commit(c)
          BY <4>1, CommitKeeps
        <4>2. CASE Elsewhere(c)
          BY <2>1, <3>1, <4>2, ElsewhereKeeps, LedgerKept DEF Frame, wallets, TypeOK, CallTypeOK
        <4>3. CASE Leaving(c)
          BY <3>1, <4>3, LeavingKeeps, LedgerKept DEF TypeOK, CallTypeOK
        <4>4. CASE LockWallet(c) \/ InsertEntry(c)
          BY <3>1, <4>4, LedgerKept DEF LockWallet, InsertEntry, wallets, TypeOK, CallTypeOK
        <4> QED
          BY <2>1, <4>1, <4>2, <4>3, <4>4 DEF Step, Transaction, Elsewhere, Leaving
      <3> QED
        BY <3>1, <3>2
    <2>2. CASE Tick \/ UNCHANGED vars
      <3>1. UNCHANGED <<wallets, accounts, recorded, redeemed, calls, granted>> /\ now' \in Nat
        BY <2>2 DEF Tick, vars, TypeOK, AccountTypeOK
      <3>2. TypeOK' /\ StageInv' /\ TransactionInv' /\ ClaimInv' /\ RecordedIsGranted'
        BY <3>1 DEF wallets, accounts, calls, TypeOK, MoneyTypeOK, AccountTypeOK, CallTypeOK, StageInv,
           TransactionInv, ClaimInv, RecordedIsGranted, InTransaction, Affordable, Delta, Refs
      <3>3. BalanceIsLedger' /\ RefOnce' /\ OneGrantPerCharge'
        BY <3>1, <3>2, LedgerKept DEF wallets, TypeOK, CallTypeOK
      <3> QED
        BY <3>2, <3>3
    <2> QED
      BY <2>1, <2>2 DEF Next
  <1> QED
    BY <1>1, <1>2, PTL DEF Spec

\* The ledger of every user adds up to the balance and never goes below zero.
THEOREM BalanceIsLedgerHolds == Spec => []BalanceIsLedger
  <1>1. WalletInv => BalanceIsLedger
    BY DEF WalletInv
  <1> QED
    BY <1>1, WalletInvariant, PTL

\* A reference is entered once: of two deliveries of a payment one counts (pay, EnsureWallet).
THEOREM RefOnceHolds == Spec => []RefOnce
  <1>1. WalletInv => RefOnce
    BY DEF WalletInv
  <1> QED
    BY <1>1, WalletInvariant, PTL

\* A purchase that is submitted twice is charged and given once.
THEOREM OneGrantPerChargeHolds == Spec => []OneGrantPerCharge
  <1>1. WalletInv => OneGrantPerCharge
    BY DEF WalletInv
  <1> QED
    BY <1>1, WalletInvariant, PTL

\* A code that is submitted twice, by whomever, gives one plan.
THEOREM CodeGivesOnceHolds == Spec => []CodeGivesOnce
  <1>1. WalletInv => CodeGivesOnce
    BY DEF WalletInv, ClaimInv, CodeGivesOnce, TypeOK, CallTypeOK
  <1> QED
    BY <1>1, WalletInvariant, PTL

\* A sale is noted as processed only when its plan has been given.
THEOREM RecordedIsGrantedHolds == Spec => []RecordedIsGranted
  <1>1. WalletInv => RecordedIsGranted
    BY DEF WalletInv
  <1> QED
    BY <1>1, WalletInvariant, PTL

=============================================================================
