------------------------------ MODULE PlanLife ------------------------------
(***************************************************************************)
(* The life of one account's plan: payments once and by subscription       *)
(* (shared/billing), pauses (shared/auth/account.go), codes, and the       *)
(* lapse in the middleware, all of which rewrite the plan in the account's *)
(* row.                                                                    *)
(*                                                                         *)
(* A provider's notification is delivered late, again, or not at all: what *)
(* it has sent it may deliver at any time.  Each notification is handled   *)
(* as one step (the statements of one are interleaved in Wallet); pausing, *)
(* resuming and the middleware read the row first and write it later.      *)
(***************************************************************************)
EXTENDS Integers, FiniteSets

CONSTANTS
  SaleId,       \* payments made once: invoices, sales, codes
  SubId,        \* subscriptions at a provider
  Announces,    \* those whose renewals are sales of their own (Gumroad); the others state the end
  SlotSubs,     \* those that pay for seed slots
  Customers,    \* bound: the sets of subscriptions a customer takes out
  NoSub,
  Length,       \* what a payment buys, in ticks
  DayLen,       \* ticks of a day
  FreeDay,      \* the free time a lapse or an ended subscription leaves
  MaxPauses,    \* 3 pauses for each plan
  MaxEnd, MaxClock  \* bounds: the end of the time a subscription is paid to, the clock

ASSUME PlanAssumption ==
  /\ {Length, DayLen, FreeDay, MaxPauses, MaxEnd, MaxClock} \subseteq Nat \ {0}
  /\ SlotSubs \subseteq Announces /\ Announces \subseteq SubId
  /\ Customers \subseteq SUBSET SubId /\ NoSub \notin SubId

VARIABLES
  planRow,    \* users: the plan, its subscription, its end, the pause
  seedSlots,  \* seed_slot_packs, and the subscription that pays for them
  processed,  \* processed_sales
  mail,       \* what the providers have sent
  subEnd,     \* per subscription, the end of what has been paid for; 0: not begun
  subOver,    \* subscriptions that have ended at the provider
  acting,     \* a request of the account that has read the row: its operation and what it read
  clock,
  credit,     \* ticks paid for, and what pauses may have rounded up, less those served
  giver       \* the subscription whose payment wrote the newest plan, or NoSub

planVars == <<planRow, seedSlots, processed, mail, subEnd, subOver, acting, clock, credit, giver>>

Larger(a, b) == IF a > b THEN a ELSE b
HasPaidPlan(r) == r.plan = "paid"
Left(r) == IF ~HasPaidPlan(r) THEN 0
           ELSE IF r.paused THEN r.days * DayLen ELSE Larger(r.ends - clock, 0)

\* Each Gumroad charge is a sale, known by its subscription and the end it pays to.
SaleIds == (SaleId \X {0}) \union (Announces \X (1 .. MaxEnd))
Idle == [op |-> "none", row |-> [plan |-> "none"]]

PlanInit ==
  /\ planRow = [plan |-> "free", sub |-> NoSub, ends |-> FreeDay, paused |-> FALSE, days |-> 0,
                pauses |-> 0, pausedAt |-> -DayLen]
  /\ seedSlots = [packs |-> 0, sub |-> NoSub] /\ processed = {} /\ mail = {}
  /\ subEnd = [s \in SubId |-> 0] /\ (\E mine \in Customers : subOver = SubId \ mine) /\ acting = Idle
  /\ clock = 0 /\ credit = 0 /\ giver = NoSub

-----------------------------------------------------------------------------
(* The providers and their customer.                                       *)

\* An invoice, a checkout session or a code, paid for.
PayOnce ==
  /\ \E id \in SaleId :
       /\ \A n \in mail : n.id # <<id, 0>>
       /\ mail' = mail \union {[kind |-> "paid", id |-> <<id, 0>>, sub |-> NoSub, to |-> 0]}
  /\ credit' = credit + Length
  /\ UNCHANGED <<planRow, seedSlots, processed, subEnd, subOver, acting, clock, giver>>

\* A subscription's first charge, or its next one when its time is up.
ChargeSubscription(s) ==
  /\ s \notin subOver \union SlotSubs /\ (subEnd[s] = 0 \/ clock >= subEnd[s])
  /\ LET end == clock + Length IN
       /\ end <= MaxEnd
       /\ subEnd' = [subEnd EXCEPT ![s] = end]
       /\ mail' = mail \union
            {IF s \in Announces THEN [kind |-> "sale", id |-> <<s, end>>, sub |-> s, to |-> 0]
             ELSE [kind |-> "synced", id |-> <<s, end>>, sub |-> s, to |-> end]}
  /\ credit' = credit + Length
  /\ UNCHANGED <<planRow, seedSlots, processed, subOver, acting, clock, giver>>

\* Seed slots come with a subscription of their own.
ChargeSlots(s) ==
  /\ s \in SlotSubs \ subOver /\ subEnd[s] = 0
  /\ mail' = mail \union {[kind |-> "slots", id |-> <<s, 1>>, sub |-> s, to |-> 0]}
  /\ subEnd' = [subEnd EXCEPT ![s] = MaxEnd]
  /\ UNCHANGED <<planRow, seedSlots, processed, subOver, acting, clock, credit, giver>>

EndSubscription(s) ==
  /\ subEnd[s] > 0 /\ s \notin subOver /\ subOver' = subOver \union {s}
  /\ mail' = mail \union {[kind |-> "ended", id |-> <<s, 0>>, sub |-> s, to |-> 0]}
  /\ UNCHANGED <<planRow, seedSlots, processed, subEnd, acting, clock, credit, giver>>

\* The notification of a sale comes again with the mark of a dispute.
Dispute ==
  /\ \E n \in mail :
       /\ n.kind = "sale" /\ mail' = mail \union {[n EXCEPT !.kind = "disputed"]}
  /\ UNCHANGED <<planRow, seedSlots, processed, subEnd, subOver, acting, clock, credit, giver>>

-----------------------------------------------------------------------------
(* The webhooks.                                                           *)

\* UpdatePlan: whatever it writes, a pause and its days are gone.
UpdatePlanRow(plan, sub, end) ==
  planRow' = [planRow EXCEPT !.plan = plan, !.sub = sub, !.ends = end, !.paused = FALSE, !.days = 0,
                             !.pauses = 0]
GivePlan(sub, end) ==
  UpdatePlanRow("paid", sub, end) /\ giver' = sub

\* planExpiry, redeemExpiry and handleSale: what is left of a running plan is added.
SaleExpiry ==
  clock + Length + (IF HasPaidPlan(planRow) /\ ~planRow.paused THEN Larger(planRow.ends - clock, 0) ELSE 0)

\* Bug: a purchase keeps the subscription the row names.
ActivateKeeps(n) ==
  IF n.id \in processed THEN UNCHANGED <<planRow, processed, giver>>
  ELSE /\ UpdatePlanRow("paid", IF n.sub = NoSub THEN planRow.sub ELSE n.sub, SaleExpiry)
       /\ giver' = n.sub
       /\ processed' = processed \union {n.id}

\* Bug: a notification that comes again is a sale again.
ActivateAgain(n) ==
  GivePlan(n.sub, SaleExpiry) /\ processed' = processed \union {n.id}

\* activate, handleSale and redeemCode: a sale that has been processed gives nothing.
Activate(n) ==
  IF n.id \in processed THEN UNCHANGED <<planRow, processed, giver>>
  ELSE GivePlan(n.sub, SaleExpiry) /\ processed' = processed \union {n.id}

BesidesRow == UNCHANGED <<mail, subEnd, subOver, acting, clock, credit>>

\* Crypto and card payments, and codes.
InvoicePaid ==
  /\ \E n \in mail : n.kind = "paid" /\ Activate(n)
  /\ BesidesRow /\ UNCHANGED seedSlots

\* Gumroad's charges, by the subscription or else the address of the sale.
SaleNotified ==
  /\ \E n \in mail : n.kind = "sale" /\ Activate(n)
  /\ BesidesRow /\ UNCHANGED seedSlots

\* syncSubscription: the end the provider names, whatever the row says.
SubscriptionSynced ==
  /\ \E n \in mail : n.kind = "synced" /\ GivePlan(n.sub, n.to)
  /\ BesidesRow /\ UNCHANGED <<seedSlots, processed>>

SlotsNotified ==
  /\ \E n \in mail :
       /\ n.kind = "slots" /\ n.id \notin processed /\ processed' = processed \union {n.id}
       /\ seedSlots' = [packs |-> 1, sub |-> n.sub]
  /\ BesidesRow /\ UNCHANGED <<planRow, giver>>

\* Downgrade and ClearSeedSlotsBySub, by the subscription the row names.  Gumroad only: a
\* subscription that states its end rides to it.
SubscriptionEnded ==
  /\ \E n \in mail :
       /\ n.kind = "ended" /\ n.sub \in Announces
       /\ IF planRow.sub # n.sub THEN UNCHANGED planRow
          ELSE planRow' = [planRow EXCEPT !.plan = "free", !.sub = NoSub, !.ends = clock + FreeDay,
                                          !.paused = FALSE, !.days = 0]
       /\ seedSlots' = IF seedSlots.sub = n.sub THEN [packs |-> 0, sub |-> NoSub] ELSE seedSlots
  /\ BesidesRow /\ UNCHANGED <<processed, giver>>

\* handleDispute takes the plan; the sale that comes with it is handled as any other.
DisputeNotified ==
  /\ \E n \in mail :
       /\ n.kind = "disputed"
       /\ IF n.id \in processed
            THEN UpdatePlanRow("free", NoSub, -1) /\ UNCHANGED <<processed, giver>>
            ELSE GivePlan(n.sub, clock + Length) /\ processed' = processed \union {n.id}
  /\ BesidesRow /\ UNCHANGED seedSlots

-----------------------------------------------------------------------------
(* The account's own requests.                                             *)

\* The middleware has let a request through, or the handler has read the row again.
ReadRow ==
  /\ acting = Idle
  /\ \E op \in {"pause", "resume", "lapse"} :
       /\ acting' = [op |-> op, row |-> planRow]
       /\ op = "lapse" => HasPaidPlan(planRow) /\ clock >= planRow.ends
       \* While the plan is over, the middleware has let it lapse first.
       /\ op # "lapse" => clock < planRow.ends
  /\ UNCHANGED <<planRow, seedSlots, processed, mail, subEnd, subOver, clock, credit, giver>>

\* The row as it was read decides; the fields written are written whatever it has become.
Writes(row) ==
  /\ acting' = Idle /\ planRow' = row
  /\ UNCHANGED <<seedSlots, processed, mail, subEnd, subOver, clock, giver>>

\* PauseSub keeps the days that are left, rounded up.
PauseSub ==
  /\ acting.op = "pause"
  /\ LET r == acting.row IN
       IF HasPaidPlan(r) /\ ~r.paused /\ r.pauses < MaxPauses /\ clock - r.pausedAt >= DayLen
         THEN /\ Writes([planRow EXCEPT !.paused = TRUE, !.pausedAt = clock, !.pauses = @ + 1,
                          !.days = (r.ends - clock + DayLen - 1) \div DayLen])
              /\ credit' = credit + DayLen - 1
         ELSE Writes(planRow) /\ UNCHANGED credit

ResumeSub ==
  /\ acting.op = "resume"
  /\ Writes(IF ~acting.row.paused THEN planRow
            ELSE [planRow EXCEPT !.ends = clock + acting.row.days * DayLen, !.paused = FALSE, !.days = 0])
  /\ UNCHANGED credit

\* A paid plan that is over becomes a free day, whatever the row has become.
LapsePlan ==
  /\ acting.op = "lapse"
  /\ Writes([planRow EXCEPT !.plan = "free", !.sub = NoSub, !.ends = clock + FreeDay,
                            !.paused = FALSE, !.days = 0, !.pauses = 0])
  /\ UNCHANGED credit

\* Time passes; a request is answered within its tick.
TickPlan ==
  /\ acting = Idle /\ clock < MaxClock /\ clock' = clock + 1
  /\ credit' = IF HasPaidPlan(planRow) /\ ~planRow.paused /\ clock < planRow.ends
               THEN credit - 1 ELSE credit
  /\ UNCHANGED <<planRow, seedSlots, processed, mail, subEnd, subOver, acting, giver>>

PlanNext ==
  \/ PayOnce \/ Dispute
  \/ \E s \in SubId : ChargeSubscription(s) \/ ChargeSlots(s) \/ EndSubscription(s)
  \/ InvoicePaid \/ SaleNotified \/ SubscriptionSynced \/ SlotsNotified \/ SubscriptionEnded
  \/ DisputeNotified
  \/ ReadRow \/ PauseSub \/ ResumeSub \/ LapsePlan \/ TickPlan

PlanSpec == PlanInit /\ [][PlanNext]_planVars

-----------------------------------------------------------------------------
PlanTypeOK ==
  /\ planRow.plan \in {"free", "paid"} /\ planRow.sub \in SubId \union {NoSub}
  /\ planRow.ends \in -1 .. MaxClock + MaxEnd * 8 /\ planRow.paused \in BOOLEAN
  /\ planRow.days \in Nat /\ planRow.pauses \in 0 .. MaxPauses
  /\ seedSlots.packs \in {0, 1} /\ seedSlots.sub \in SubId \union {NoSub}
  /\ processed \subseteq SaleIds /\ subOver \subseteq SubId
  /\ clock \in 0 .. MaxClock /\ acting.op \in {"none", "pause", "resume", "lapse"}

\* Nobody is served a paid plan for longer than has been paid for, whatever is delivered again,
\* out of order or between a request's read and its write, but for what a pause rounds up.
NoFreeTime == Left(planRow) <= credit

\* The end of a subscription never takes a plan that was paid for in another way since.
PlanOutlivesOldSub ==
  [][SubscriptionEnded /\ HasPaidPlan(planRow) /\ ~HasPaidPlan(planRow') =>
       giver \in subOver]_planVars
=============================================================================
