------------------------------- MODULE Wallet -------------------------------
(***************************************************************************)
(* Prepaid wallets and the plans that are paid for: shared/auth/wallet.go, *)
(* shared/auth/billing.go and shared/billing, with the callers in the API. *)
(*                                                                         *)
(* A call is one delivery of a webhook, one request, or one user's turn in *)
(* a renewal round; it goes through its statements one at a time while the *)
(* others do.  A transaction holds the row lock of its wallet from its     *)
(* first statement to its end and shows its writes at the commit.  Times   *)
(* are absolute; a plan is free or paid, for the plans differ in price and *)
(* limits only.                                                            *)
(***************************************************************************)
EXTENDS Integers, Sequences

CONSTANTS
  User, NoUser,
  Call, NoCall,
  Made,             \* bound: the sets of calls that are made together
  Ref,              \* ledger references, sale ids and redeem codes
  Kind,             \* what a call does
  UserOf,           \* whose wallet or plan it is about
  RefOf,            \* what it is identified by; deliveries of one event share it
  Cents,            \* the amount of a top-up or adjustment, the price of a plan
  Recurring,        \* the purchases that ask to be renewed
  Referrer,         \* who referred a user, or NoUser
  Period,           \* how long a plan is paid for
  Reward, MaxReward,\* ReferralDaysPerPayment and ReferralMaxDays
  Trial,            \* until of a new account
  Day,
  MaxTime           \* bound: the clock

Kinds    == {"topup", "debit", "buy", "renew", "sale", "redeem", "visit"}
Moves    == {"topup", "debit"}
Buys     == {"buy", "renew"}
Requests == {"buy", "redeem", "visit"}     \* through the middleware Auth

ASSUME WalletAssumption ==
  /\ NoUser \notin User /\ NoCall \notin Call
  /\ Kind \in [Call -> Kinds]
  /\ UserOf \in [Call -> User]
  /\ RefOf \in [Call -> Ref]
  /\ Cents \in [Call -> Nat]
  /\ Recurring \subseteq Call /\ Made \subseteq SUBSET Call
  /\ Referrer \in [User -> User \cup {NoUser}]
  /\ {Period, Reward, MaxReward, Trial, Day, MaxTime} \subseteq Nat

VARIABLES
  now,
  balance,      \* wallets.balance_cents
  ledger,       \* wallet_ledger, the rows of each user in the order of their ids
  plan, until, renews,  \* users: plan_id, expires_at, subscription_id is "wallet:..."
  recorded,     \* processed_sales
  redeemed,     \* reseller_codes.redeemed_by
  lock,         \* who holds the row lock of a wallet
  pc, bal,      \* a call's next statement and the balance its transaction read
  seen, term,   \* the user row it has read and the expiry it has computed
  answer,       \* what it has told its caller
  granted       \* the calls that have given a plan

accounts == <<plan, until, renews>>
wallets  == <<balance, ledger, lock>>
calls    == <<pc, bal, seen, term, answer>>
vars     == <<now, wallets, accounts, recorded, redeemed, calls, granted>>

Stage == {"start", "auth", "price", "lock", "insert", "commit", "check", "claim", "mark",
          "grant", "record", "referral", "reward", "end"}

Entry == [ref : Ref, delta : Int, after : Int]
Seen  == [plan : {"free", "paid"}, until : Nat]

\* The references a ledger row has: ref is unique in the whole table.
Refs == UNION {{ledger[u][i].ref : i \in DOMAIN ledger[u]} : u \in User}

Delta(c) == IF Kind[c] = "topup" THEN Cents[c] ELSE 0 - Cents[c]

NewAccount == [plan |-> "free", until |-> Trial]

Due(u) == renews[u] /\ plan[u] = "paid" /\ until[u] < now + Day

Init ==
  /\ now = 0
  /\ balance = [u \in User |-> 0]
  /\ ledger = [u \in User |-> << >>]
  /\ plan = [u \in User |-> "free"]
  /\ until = [u \in User |-> Trial]
  /\ renews = [u \in User |-> FALSE]
  /\ recorded = {}
  /\ redeemed = [r \in Ref |-> NoUser]
  /\ lock = [u \in User |-> NoCall]
  /\ \E made \in Made : pc = [c \in Call |-> IF c \in made THEN "start" ELSE "end"]
  /\ bal = [c \in Call |-> 0]
  /\ seen = [c \in Call |-> NewAccount]
  /\ term = [c \in Call |-> 0]
  /\ answer = [c \in Call |-> "none"]
  /\ granted = {}

Goto(c, l) == pc' = [pc EXCEPT ![c] = l]

\* What a call has read and computed is of no use once it has written it.
Forget(c) ==
  /\ bal' = [bal EXCEPT ![c] = 0]
  /\ seen' = [seen EXCEPT ![c] = NewAccount]
  /\ term' = [term EXCEPT ![c] = 0]

End(c) == Goto(c, "end") /\ Forget(c)

Reply(c, a) == answer' = [answer EXCEPT ![c] = a]

\* The end of a call's transaction, whether it commits or rolls back.
Unlock(c) == lock' = [u \in User |-> IF lock[u] = c THEN NoCall ELSE lock[u]]

SetPlan(u, p, t, r) ==
  /\ plan' = [plan EXCEPT ![u] = p]
  /\ until' = [until EXCEPT ![u] = t]
  /\ renews' = [renews EXCEPT ![u] = r]

-----------------------------------------------------------------------------
(* What a call reads before it decides.                                    *)

\* planExpiry, redeemExpiry: what is left of a paid plan is added to the new period.
Expiry(s) == IF s.plan = "paid" /\ s.until > now THEN s.until + Period ELSE now + Period

\* A call goes on to pay or to give a plan that lasts until it has computed here.
Quote(c, s, l) ==
  /\ term' = [term EXCEPT ![c] = Expiry(s)]
  /\ seen' = [seen EXCEPT ![c] = NewAccount]
  /\ UNCHANGED bal
  /\ Goto(c, l)

\* The row as the caller gets it: middleware.Auth, the webhooks' look-up by e-mail,
\* WalletRecurringDue.  A top-up needs the user's id only.
Read(c) == seen' = [seen EXCEPT ![c] = [plan |-> plan[UserOf[c]], until |-> until[UserOf[c]]]]

Load(c) ==
  /\ pc[c] = "start"
  /\ \/ Kind[c] \in Moves    /\ Goto(c, "lock") /\ UNCHANGED seen
     \/ Kind[c] \in Requests /\ Goto(c, "auth") /\ Read(c)
     \/ Kind[c] = "sale"     /\ Goto(c, "check") /\ Read(c)
     \/ Kind[c] = "renew" /\ Due(UserOf[c])  /\ Goto(c, "price") /\ Read(c)
     \/ Kind[c] = "renew" /\ ~Due(UserOf[c]) /\ Goto(c, "end") /\ UNCHANGED seen
  /\ UNCHANGED <<now, wallets, accounts, recorded, redeemed, bal, term, answer, granted>>

\* Auth: a paid plan that was over when the row was read is replaced by a free day.
Authorize(c) ==
  LET lapsed == now > seen[c].until /\ seen[c].plan = "paid"
      row == IF lapsed THEN [plan |-> "free", until |-> now + Day] ELSE seen[c]
  IN  /\ pc[c] = "auth"
      /\ IF lapsed
         THEN SetPlan(UserOf[c], "free", now + Day, FALSE) ELSE UNCHANGED accounts
      /\ \/ Kind[c] = "buy"   /\ Quote(c, row, "lock")
         \/ Kind[c] = "visit" /\ End(c)
         \/ /\ Kind[c] = "redeem"
            /\ seen' = [seen EXCEPT ![c] = row]
            /\ Goto(c, "claim") /\ UNCHANGED <<bal, term>>
      /\ UNCHANGED <<now, wallets, recorded, redeemed, answer, granted>>

\* RenewWalletPlans: the turn of a user comes after those listed before it.
RenewTurn(c) ==
  /\ pc[c] = "price"
  /\ Quote(c, seen[c], "lock")
  /\ UNCHANGED <<now, wallets, accounts, recorded, redeemed, answer, granted>>

-----------------------------------------------------------------------------
(* The transactions on a wallet: move and WalletBuyPlan.                   *)

\* Bug: the balance is read with a plain SELECT.
LockWalletUnlocked(c) ==
  /\ pc[c] = "lock"
  /\ bal' = [bal EXCEPT ![c] = balance[UserOf[c]]]
  /\ Goto(c, "insert")
  /\ UNCHANGED <<now, wallets, accounts, recorded, redeemed, seen, term, answer, granted>>

\* INSERT ... ON CONFLICT DO UPDATE ... RETURNING locks the row.
LockWallet(c) ==
  LET u == UserOf[c]
  IN  /\ pc[c] = "lock"
      /\ lock[u] = NoCall
      /\ lock' = [lock EXCEPT ![u] = c]
      /\ bal' = [bal EXCEPT ![c] = balance[u]]
      /\ Goto(c, "insert")
      /\ UNCHANGED <<now, balance, ledger, accounts, recorded, redeemed, seen, term, answer,
                     granted>>

\* Everything but a top-up is guarded.
Affordable(c) == Kind[c] = "topup" \/ bal[c] + Delta(c) >= 0

Refuse(c) ==
  /\ pc[c] = "insert"
  /\ ~Affordable(c)
  /\ Unlock(c)
  /\ Reply(c, "refused")
  /\ End(c)
  /\ UNCHANGED <<now, balance, ledger, accounts, recorded, redeemed, granted>>

\* Another transaction's row with the same reference is waited for.
Unsettled(c) ==
  \E d \in Call \ {c} : pc[d] = "commit" /\ RefOf[d] = RefOf[c]

\* Bug: the conflict is taken for a new row.
ReplayAsNew(c) ==
  /\ pc[c] = "insert" /\ RefOf[c] \in Refs
  /\ Affordable(c) /\ ~Unsettled(c)
  /\ Goto(c, "commit")
  /\ UNCHANGED <<now, wallets, accounts, recorded, redeemed, bal, seen, term, answer, granted>>

\* ON CONFLICT (ref) DO NOTHING, and nothing else happens.
Replay(c) ==
  /\ pc[c] = "insert" /\ RefOf[c] \in Refs
  /\ Affordable(c) /\ ~Unsettled(c)
  /\ Unlock(c)
  /\ Reply(c, "paid")
  /\ End(c)
  /\ UNCHANGED <<now, balance, ledger, accounts, recorded, redeemed, granted>>

\* Bug: the plan is given by a statement of its own, outside the transaction.
InsertEntryGranting(c) ==
  /\ pc[c] = "insert" /\ RefOf[c] \notin Refs
  /\ Affordable(c) /\ ~Unsettled(c)
  /\ IF Kind[c] \in Buys
     THEN SetPlan(UserOf[c], "paid", term[c], c \in Recurring) /\ granted' = granted \cup {c}
     ELSE UNCHANGED <<accounts, granted>>
  /\ Goto(c, "commit")
  /\ UNCHANGED <<now, wallets, recorded, redeemed, bal, seen, term, answer>>

InsertEntry(c) ==
  /\ pc[c] = "insert" /\ RefOf[c] \notin Refs
  /\ Affordable(c) /\ ~Unsettled(c)
  /\ Goto(c, "commit")
  /\ UNCHANGED <<now, wallets, accounts, recorded, redeemed, bal, seen, term, answer, granted>>

\* The entry, the balance and, for a purchase, the plan appear together.
Commit(c) ==
  LET u == UserOf[c]
      after == bal[c] + Delta(c)
  IN  /\ pc[c] = "commit"
      /\ ledger' = [ledger EXCEPT ![u] =
           Append(@, [ref |-> RefOf[c], delta |-> Delta(c), after |-> after])]
      /\ balance' = [balance EXCEPT ![u] = after]
      /\ Unlock(c)
      /\ Reply(c, "paid")
      /\ Forget(c)
      /\ IF Kind[c] \in Buys
         THEN /\ SetPlan(u, "paid", term[c], c \in Recurring)
              /\ granted' = granted \cup {c}
              /\ Goto(c, "referral")
         ELSE /\ UNCHANGED <<accounts, granted>>
              /\ Goto(c, "end")
      /\ UNCHANGED <<now, recorded, redeemed>>

-----------------------------------------------------------------------------
(* Plans paid elsewhere: the webhooks' activate, and redeemCode.           *)

\* Bug: the sale is noted first, so that no second delivery gets past the check.
HasProcessedSaleRecording(c) ==
  /\ pc[c] = "check"
  /\ recorded' = recorded \cup {RefOf[c]}
  /\ IF RefOf[c] \in recorded
     THEN End(c)
     ELSE Quote(c, seen[c], "grant")
  /\ UNCHANGED <<now, wallets, accounts, redeemed, answer, granted>>

HasProcessedSale(c) ==
  /\ pc[c] = "check"
  /\ IF RefOf[c] \in recorded
     THEN End(c)
     ELSE Quote(c, seen[c], "grant")
  /\ UNCHANGED <<now, wallets, accounts, recorded, redeemed, answer, granted>>

\* Bug: whoever reads the code as unused redeems it.
MarkBlindly(c) ==
  /\ pc[c] = "mark"
  /\ redeemed' = [redeemed EXCEPT ![RefOf[c]] = UserOf[c]]
  /\ Quote(c, seen[c], "grant")
  /\ UNCHANGED <<now, wallets, accounts, recorded, answer, granted>>

\* GetResellerCode: a code that is used up is refused before it is claimed.
ClaimCode(c) ==
  /\ pc[c] = "claim"
  /\ IF redeemed[RefOf[c]] = NoUser
     THEN Goto(c, "mark") /\ UNCHANGED <<bal, seen, term, answer>>
     ELSE End(c) /\ Reply(c, "refused")
  /\ UNCHANGED <<now, wallets, accounts, recorded, redeemed, granted>>

\* UPDATE ... WHERE redeemed_by = '': one call's update counts a row.
MarkResellerCodeRedeemed(c) ==
  /\ pc[c] = "mark"
  /\ IF redeemed[RefOf[c]] = NoUser
     THEN /\ redeemed' = [redeemed EXCEPT ![RefOf[c]] = UserOf[c]]
          /\ Quote(c, seen[c], "grant") /\ UNCHANGED answer
     ELSE End(c) /\ Reply(c, "refused") /\ UNCHANGED redeemed
  /\ UNCHANGED <<now, wallets, accounts, recorded, granted>>

\* UpdatePlan with neither subscription: a purchase's renewal ends with it.
UpdatePlan(c) ==
  /\ pc[c] = "grant"
  /\ SetPlan(UserOf[c], "paid", term[c], FALSE)
  /\ granted' = granted \cup {c}
  /\ Forget(c)
  /\ IF Kind[c] = "sale"
     THEN Goto(c, "record") /\ UNCHANGED answer
     ELSE Goto(c, "end") /\ Reply(c, "paid")
  /\ UNCHANGED <<now, wallets, recorded, redeemed>>

RecordProcessedSale(c) ==
  /\ pc[c] = "record"
  /\ recorded' = recorded \cup {RefOf[c]}
  /\ Goto(c, "referral")
  /\ UNCHANGED <<now, wallets, accounts, redeemed, bal, seen, term, answer, granted>>

-----------------------------------------------------------------------------
(* CreditReferral, after a purchase or a sale.                             *)

\* ApplyReferralReward reads the referrer's row and computes the new expiry ...
RewardRead(c) ==
  LET r == Referrer[UserOf[c]]
      from == IF r # NoUser /\ until[r] > now THEN until[r] ELSE now
  IN  /\ pc[c] = "referral"
      /\ IF r = NoUser
         THEN Goto(c, "end") /\ UNCHANGED term
         ELSE /\ term' = [term EXCEPT ![c] =
                   IF from + Reward > now + MaxReward THEN now + MaxReward ELSE from + Reward]
              /\ Goto(c, "reward")
      /\ UNCHANGED <<now, wallets, accounts, recorded, redeemed, bal, seen, answer, granted>>

\* ... and writes it in a later statement.
RewardWrite(c) ==
  /\ pc[c] = "reward"
  /\ until' = [until EXCEPT ![Referrer[UserOf[c]]] = term[c]]
  /\ End(c)
  /\ UNCHANGED <<now, wallets, plan, renews, recorded, redeemed, answer, granted>>

-----------------------------------------------------------------------------
\* A transaction whose process dies, whose client goes away or whose statement fails is
\* rolled back.  A call that dies elsewhere is one that takes no further step.
Rollback(c) ==
  /\ pc[c] \in {"insert", "commit"}
  /\ Unlock(c)
  /\ End(c)
  /\ UNCHANGED <<now, balance, ledger, accounts, recorded, redeemed, answer, granted>>

Tick ==
  /\ now < MaxTime
  /\ now' = now + 1
  /\ UNCHANGED <<wallets, accounts, recorded, redeemed, calls, granted>>

Transaction(c) ==
  \/ LockWallet(c) \/ Refuse(c) \/ Replay(c) \/ InsertEntry(c) \/ Commit(c)
  \/ Rollback(c)

Step(c) ==
  \/ Load(c) \/ Authorize(c) \/ RenewTurn(c)
  \/ Transaction(c)
  \/ HasProcessedSale(c) \/ ClaimCode(c) \/ MarkResellerCodeRedeemed(c)
  \/ UpdatePlan(c) \/ RecordProcessedSale(c)
  \/ RewardRead(c) \/ RewardWrite(c)

Next == Tick \/ \E c \in Call : Step(c)

Spec == Init /\ [][Next]_vars

-----------------------------------------------------------------------------
MoneyTypeOK ==
  /\ balance \in [User -> Int]
  /\ ledger \in [User -> Seq(Entry)]
  /\ lock \in [User -> Call \cup {NoCall}]

AccountTypeOK ==
  /\ now \in Nat
  /\ plan \in [User -> {"free", "paid"}]
  /\ until \in [User -> Nat]
  /\ renews \in [User -> BOOLEAN]
  /\ recorded \subseteq Ref
  /\ redeemed \in [Ref -> User \cup {NoUser}]

CallTypeOK ==
  /\ pc \in [Call -> Stage]
  /\ bal \in [Call -> Int]
  /\ seen \in [Call -> Seen]
  /\ term \in [Call -> Nat]
  /\ answer \in [Call -> {"none", "paid", "refused"}]
  /\ granted \subseteq Call

TypeOK == MoneyTypeOK /\ AccountTypeOK /\ CallTypeOK

InTransaction(c) == pc[c] \in {"insert", "commit"}

\* A transaction holds the lock of its wallet, and what it has read is still there; what
\* it has inserted is in nobody else's ledger, nor about to be.
TransactionInv ==
  \A c \in Call :
    /\ InTransaction(c) => lock[UserOf[c]] = c /\ bal[c] = balance[UserOf[c]]
    /\ pc[c] = "commit" =>
         /\ Affordable(c) /\ RefOf[c] \notin Refs
         /\ \A d \in Call \ {c} : pc[d] = "commit" => RefOf[d] # RefOf[c]

\* The ledger adds up: every entry's balance_after is the one before it plus its own
\* delta, never below zero, and the wallet's balance is the last of them. Two purchases
\* that read the same balance, or a delivery counted twice, would break the chain.
After(u, i) == IF i = 0 THEN 0 ELSE ledger[u][i].after

BalanceIsLedger ==
  \A u \in User :
    /\ balance[u] = After(u, Len(ledger[u]))
    /\ \A i \in DOMAIN ledger[u] :
         /\ ledger[u][i].after = After(u, i - 1) + ledger[u][i].delta
         /\ ledger[u][i].after >= 0

\* A reference is entered once, in whatever ledger: of two deliveries of an event, and of
\* two submissions of a purchase, one counts.
RefOnce ==
  \A u, v \in User : \A i \in DOMAIN ledger[u], j \in DOMAIN ledger[v] :
    ledger[u][i].ref = ledger[v][j].ref => u = v /\ i = j

\* "double-click with same key must charge/grant once" (wallet_test.go:94): whoever has
\* given a plan for a reference is the only one, and the ledger has charged it.
OneGrantPerCharge ==
  \A c \in granted :
    Kind[c] \in Buys =>
      /\ \E i \in DOMAIN ledger[UserOf[c]] :
           ledger[UserOf[c]][i].ref = RefOf[c] /\ ledger[UserOf[c]][i].delta = Delta(c)
      /\ \A d \in granted : Kind[d] \in Buys /\ RefOf[d] = RefOf[c] => d = c

\* A reseller's code gives one plan, whoever submits it at the same time.
CodeGivesOnce ==
  \A c, d \in granted :
    Kind[c] = "redeem" /\ Kind[d] = "redeem" /\ RefOf[c] = RefOf[d] => c = d

\* A sale is noted as processed only when its plan has been given: a delivery that dies
\* before leaves it to the next one.
RecordedIsGranted ==
  \A r \in recorded : \E c \in granted : Kind[c] = "sale" /\ RefOf[c] = r
\* The code's claim under way: at most one call is past the redemption of a code.
ClaimInv ==
  \A c \in Call :
    Kind[c] = "redeem" /\ (pc[c] = "grant" \/ c \in granted) =>
      /\ redeemed[RefOf[c]] # NoUser
      /\ \A d \in Call \ {c} :
           Kind[d] = "redeem" /\ RefOf[d] = RefOf[c] =>
             pc[d] # "grant" /\ d \notin granted

\* What a call still has to do is what its kind does.
StageInv ==
  \A c \in Call :
    /\ pc[c] \in {"lock", "insert", "commit"} => Kind[c] \in Moves \cup Buys
    /\ pc[c] = "price" => Kind[c] = "renew"
    /\ pc[c] \in {"check", "record"} => Kind[c] = "sale"
    /\ pc[c] \in {"claim", "mark"} => Kind[c] = "redeem"
    /\ pc[c] = "grant" => Kind[c] \in {"sale", "redeem"}
    /\ pc[c] = "record" => c \in granted

\* The inductive invariant.
WalletInv ==
  /\ TypeOK /\ StageInv /\ TransactionInv /\ ClaimInv
  /\ BalanceIsLedger /\ RefOnce /\ OneGrantPerCharge /\ RecordedIsGranted
=============================================================================
