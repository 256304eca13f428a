------------------------------ MODULE SpeedTest ------------------------------
(***************************************************************************)
(* The speed test of the stream server (stream/internal/server/            *)
(* speedtest.go): a budget of bytes per client address and minute, and a   *)
(* number of tokens for the tests that run.  Amounts are in chunks of one  *)
(* MB; one address stands for all, as the budgets are independent.         *)
(***************************************************************************)
EXTENDS Naturals, FiniteSets

CONSTANTS
    SpeedBudget,   \* speedtestBytesPerMin
    SpeedMost,     \* speedtestMaxMB: the longest test
    SpeedSlots,    \* speedtestMaxConcurrent
    Tester         \* the requests for a test

ASSUME SpeedAssumption == SpeedBudget \in Nat /\ SpeedMost \in Nat \ {0} /\ SpeedSlots \in Nat

VARIABLES
    charged,   \* stBudget.bytes of the address; a fresh budget is zero
    allowed,   \* what has been let through since the budget is fresh
    testing,   \* the requests whose handler sends
    tokens     \* those in the semaphore

speedVars == <<charged, allowed, testing, tokens>>

SpeedInit == charged = 0 /\ allowed = 0 /\ testing = {} /\ tokens = 0

(* The length asked for: ckSize, 4 when it is none, cut at the longest.    *)
TestLength(ckSize) ==
    LET n == IF ckSize = 0 THEN 4 ELSE ckSize IN IF n > SpeedMost THEN SpeedMost ELSE n

(* The token: taken at once or not at all.                                 *)
TakeToken(t, n) ==
    IF tokens < SpeedSlots
      THEN tokens' = tokens + 1 /\ testing' = testing \cup {t} /\ allowed' = allowed + n
      ELSE UNCHANGED <<tokens, testing, allowed>>

\* Bug: a spent budget still lets one more test through.
SpeedDownloadLate(t, ckSize) ==
    LET n == TestLength(ckSize) IN
    /\ t \notin testing /\ charged <= SpeedBudget
    /\ charged' = charged + n
    /\ TakeToken(t, n)

(* allowIP charges a test before the token is tried: a test refused as     *)
(* busy has used its part of the budget.                                   *)
SpeedDownload(t, ckSize) ==
    LET n == TestLength(ckSize) IN
    /\ t \notin testing /\ charged < SpeedBudget
    /\ charged' = charged + n
    /\ TakeToken(t, n)

\* Bug: the token is given back twice when the client goes away.
SpeedOverTwice(t) ==
    /\ t \in testing
    /\ testing' = testing \ {t} /\ tokens' = tokens - 2
    /\ UNCHANGED <<charged, allowed>>

(* The last chunk is written, or the client has gone: the deferred receive.*)
SpeedOver(t) ==
    /\ t \in testing
    /\ testing' = testing \ {t} /\ tokens' = tokens - 1
    /\ UNCHANGED <<charged, allowed>>

(* The minute is over: the next request finds, or makes, a fresh budget.   *)
SpeedMinute ==
    /\ charged > 0
    /\ charged' = 0 /\ allowed' = 0
    /\ UNCHANGED <<testing, tokens>>

SpeedNext ==
    \/ \E t \in Tester, ckSize \in 0..(SpeedMost + 1) : SpeedDownload(t, ckSize)
    \/ \E t \in Tester : SpeedOver(t)
    \/ SpeedMinute

SpeedSpec == SpeedInit /\ [][SpeedNext]_speedVars

-----------------------------------------------------------------------------
(* The types of the variables; a token is out for every test that runs.    *)
SpeedTypeOK ==
    /\ charged \in Nat /\ allowed \in 0..charged
    /\ testing \subseteq Tester /\ tokens = Cardinality(testing) /\ tokens \in 0..SpeedSlots

(* allowIP compares before it charges, so the last test of a minute may go *)
(* over the budget, but what an address is sent in a minute exceeds the    *)
(* budget by less than one test.                                           *)
SpeedBounded == allowed < SpeedBudget + SpeedMost

=============================================================================
