---------------------------- MODULE ResellerCodes ----------------------------
(***************************************************************************)
(* Codes that partners mint and users redeem (handlers/reseller.go). A     *)
(* partner's key reaches its own codes, the operator's key all of them. A  *)
(* redemption looks the code up, claims it and then extends the plan from  *)
(* the user row its request was authenticated with.                        *)
(*                                                                         *)
(* Abstractions: one plan, and a period of PeriodOf ticks a code; one      *)
(* client address; a random code is any member of Code.                    *)
(***************************************************************************)
EXTENDS Integers, FiniteSets

CONSTANTS
  Code, PeriodOf,        \* the codes that can be drawn, and how long a plan each one gives
  Partner, Operator,     \* who settles; a partner mints under its own name
  Mint, MinterOf,        \* requests for codes, and the partner of each
  Quantity, MaxDraws,    \* codes asked for at once, draws for each of them
  Redeem, RedeemerOf,    \* requests to redeem, and the user of each
  MaxHits, Window,       \* attempts an address has in a window
  MaxNow,                \* bound on the clock
  NoCode, Nobody

ASSUME ResellerAssumption ==
  /\ PeriodOf \in [Code -> Nat \ {0}] /\ MinterOf \in [Mint -> Partner]
  /\ DOMAIN RedeemerOf = Redeem /\ IsFiniteSet(Redeem) /\ Operator \notin Partner
  /\ \A r \in Redeem : RedeemerOf[r] # Nobody
  /\ NoCode \notin Code /\ Nobody \notin Partner \union {Operator}
  /\ {Quantity, MaxDraws, MaxHits, Window, MaxNow} \subseteq Nat \ {0}

Redeemer == {RedeemerOf[r] : r \in Redeem}

VARIABLES
  codes,     \* code -> [owner, by, settler]: the rows; owner NoUser: no such row
  minting,   \* mint -> "open", "handed", "failed"
  draws,     \* mint -> draws made for the code it is at
  made,      \* mint -> the codes it has made so far
  redemption,        \* redemption -> "new", "refused", "looked", "claimed", "done", "lost"
  entered,   \* redemption -> its code
  seenEnd,   \* redemption -> the end of the plan when it was authenticated
  hitAt,     \* redemption -> when the limiter let it through; MaxNow + 1: it has not
  hits,      \* the redemptions whose times the limiter has kept for the address
  endsAt,    \* user -> the end of the plan
  grants,    \* code -> how often its period has been given
  today

minters   == <<minting, draws, made>>
redeemers == <<redemption, entered, seenEnd, hitAt, hits, endsAt, grants>>
codeVars  == <<codes, minters, redeemers, today>>

Unminted   == [owner |-> Nobody, by |-> Nobody, settler |-> Nobody]
Rows    == {c \in Code : codes[c].owner # Nobody}

CodesInit ==
  /\ codes = [c \in Code |-> Unminted]
  /\ minting = [m \in Mint |-> "open"] /\ draws = [m \in Mint |-> 0] /\ made = [m \in Mint |-> {}]
  /\ redemption = [r \in Redeem |-> "new"] /\ entered = [r \in Redeem |-> NoCode]
  /\ seenEnd = [r \in Redeem |-> 0] /\ hitAt = [r \in Redeem |-> MaxNow + 1] /\ hits = {}
  /\ endsAt = [u \in Redeemer |-> 0] /\ grants = [c \in Code |-> 0] /\ today = 0

----------------------------------------------------------------------------
\* Bug: a code that exists is taken for one just made.
InsertsQuietly(c) == TRUE
\* CreateResellerCode: the code is the primary key.
Inserts(c) == c \notin Rows

\* A draw that collides is drawn again; when all do, the request fails and the codes it has
\* made stay, though nobody is told of them.
DrawCode(m, c) ==
  /\ minting[m] = "open" /\ Cardinality(made[m]) < Quantity
  /\ IF Inserts(c)
     THEN /\ codes' = IF c \in Rows THEN codes ELSE [codes EXCEPT ![c].owner = MinterOf[m]]
          /\ made' = [made EXCEPT ![m] = @ \union {c}] /\ draws' = [draws EXCEPT ![m] = 0]
          /\ UNCHANGED minting
     ELSE /\ draws' = [draws EXCEPT ![m] = @ + 1]
          /\ minting' = IF draws'[m] < MaxDraws THEN minting ELSE [minting EXCEPT ![m] = "failed"]
          /\ UNCHANGED <<codes, made>>
  /\ UNCHANGED <<redeemers, today>>

MintFails(m) ==
  /\ minting[m] = "open" /\ minting' = [minting EXCEPT ![m] = "failed"]
  /\ UNCHANGED <<codes, draws, made, redeemers, today>>

HandOut(m) ==
  /\ minting[m] = "open" /\ Cardinality(made[m]) = Quantity
  /\ minting' = [minting EXCEPT ![m] = "handed"]
  /\ UNCHANGED <<codes, draws, made, redeemers, today>>

----------------------------------------------------------------------------
\* Bug: windows follow one another instead of ending now.
AllowFixed(S) == {r \in S : hitAt[r] \div Window = today \div Window}
\* attemptLimiter: the times still inside the window.
Allow(S) == {r \in S : hitAt[r] > today - Window}

\* The middleware reads the user; the limiter counts what it lets through.
EnterCode(r, c) ==
  /\ redemption[r] = "new" /\ entered' = [entered EXCEPT ![r] = c]
  /\ seenEnd' = [seenEnd EXCEPT ![r] = endsAt[RedeemerOf[r]]]
  /\ IF Cardinality(Allow(hits)) >= MaxHits
     THEN /\ redemption' = [redemption EXCEPT ![r] = "refused"]
          /\ hits' = Allow(hits) /\ UNCHANGED hitAt
     ELSE /\ hits' = Allow(hits) \union {r} /\ hitAt' = [hitAt EXCEPT ![r] = today]
          /\ redemption' = [redemption EXCEPT ![r] =
               IF codes[c].owner # Nobody /\ codes[c].by = Nobody THEN "looked" ELSE "refused"]
  /\ UNCHANGED <<codes, minters, endsAt, grants, today>>

\* Bug: the look-up is taken to be still true.
ClaimableSeen(c) == TRUE
\* MarkResellerCodeRedeemed: only an unclaimed row is updated.
Claimable(c) == codes[c].by = Nobody

ClaimsCode(r) ==
  /\ redemption[r] = "looked"
  /\ \/ /\ Claimable(entered[r]) /\ redemption' = [redemption EXCEPT ![r] = "claimed"]
        /\ codes' = [codes EXCEPT ![entered[r]].by = RedeemerOf[r]]
     \/ /\ ~Claimable(entered[r]) /\ redemption' = [redemption EXCEPT ![r] = "refused"]
        /\ UNCHANGED codes
  /\ UNCHANGED <<minters, entered, seenEnd, hitAt, hits, endsAt, grants, today>>

\* redeemExpiry: the period from now, and what was left of the plan when the request came.
RedeemExpiry(r) ==
  today + PeriodOf[entered[r]] + (IF seenEnd[r] > today THEN seenEnd[r] - today ELSE 0)

\* UpdatePlan; when it fails the code is spent all the same.
ActivateCode(r) ==
  /\ redemption[r] = "claimed"
  /\ \/ /\ redemption' = [redemption EXCEPT ![r] = "done"]
        /\ endsAt' = [endsAt EXCEPT ![RedeemerOf[r]] = RedeemExpiry(r)]
        /\ grants' = [grants EXCEPT ![entered[r]] = @ + 1]
     \/ redemption' = [redemption EXCEPT ![r] = "lost"] /\ UNCHANGED <<endsAt, grants>>
  /\ UNCHANGED <<codes, minters, entered, seenEnd, hitAt, hits, today>>

----------------------------------------------------------------------------
\* Bug: a partner that names a code reaches everybody's.
ScopeByCode(k, S) == S
\* authReseller: whose codes of S a key reaches.
Scope(k, S) == {c \in S : k = Operator \/ codes[c].owner = k}

\* settleCodes, of one code or of all codes of one partner.
Settle(k) ==
  \E S \in {{c} : c \in Rows} \union {{c \in Rows : codes[c].owner = p} : p \in Partner} :
    LET mine == Scope(k, S)
        Set(T, s) == [c \in Code |-> IF c \in T THEN [codes[c] EXCEPT !.settler = s] ELSE codes[c]]
    IN /\ codes' \in {Set({c \in mine : codes[c].settler = Nobody}, k), Set(mine, Nobody)}
       /\ UNCHANGED <<minters, redeemers, today>>

CodeTick == today < MaxNow /\ today' = today + 1 /\ UNCHANGED <<codes, minters, redeemers>>

CodesNext ==
  \/ CodeTick \/ \E k \in Partner \union {Operator} : Settle(k)
  \/ \E m \in Mint : MintFails(m) \/ HandOut(m) \/ \E c \in Code : DrawCode(m, c)
  \/ \E r \in Redeem : ClaimsCode(r) \/ ActivateCode(r) \/ \E c \in Code : EnterCode(r, c)
CodesSpec == CodesInit /\ [][CodesNext]_codeVars

----------------------------------------------------------------------------
\* The variables have the types the code gives them.
CodesTypeOK ==
  /\ codes \in [Code -> [owner : Partner \union {Nobody}, by : Redeemer \union {Nobody},
                         settler : Partner \union {Operator, Nobody}]]
  /\ minting \in [Mint -> {"open", "handed", "failed"}]
  /\ redemption \in [Redeem -> {"new", "refused", "looked", "claimed", "done", "lost"}]
  /\ hits \subseteq Redeem /\ Cardinality(hits) <= MaxHits

\* A code is given to one minting only, and a code of a minting is its partner's: no two
\* customers are sold the same code, however the draws of concurrent mintings collide.
SoldOnce ==
  \A m \in Mint : minting[m] = "handed" => \A c \in made[m] :
    /\ codes[c].owner = MinterOf[m]
    /\ \A n \in Mint \ {m} : c \notin made[n]

\* A code gives its period at most once, to the user its row names, also when two requests
\* have looked it up before either claims it.
CodeGrantsOnce ==
  \A c \in Code :
    /\ grants[c] <= 1
    /\ \A r \in Redeem : redemption[r] \in {"claimed", "done", "lost"} /\ entered[r] = c =>
         codes[c].by = RedeemerOf[r]

\* A settlement is the operator's or the partner's own.
OwnSettlements == \A c \in Rows : codes[c].settler \in {Nobody, Operator, codes[c].owner}

\* No window of time, wherever it begins, lets more than MaxHits attempts through.
AttemptsBounded ==
  \A t \in 0 .. today : 
    Cardinality({r \in Redeem : hitAt[r] <= today /\ hitAt[r] \in t .. t + Window - 1}) <= MaxHits
=============================================================================
