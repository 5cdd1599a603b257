------------------------------ MODULE Billing ------------------------------
(***************************************************************************)
(* The subscriptions and the credits of a user: what the webhook of the    *)
(* realm server makes of the events Stripe sends (packages/billing), and   *)
(* what the AI bot charges for its answers (ai-bot/main.ts and             *)
(* ai-bot/lib/ai-billing.ts).  Both work on the tables of one database.    *)
(*                                                                         *)
(* Stripe repeats an event until it is answered, in any order, and its     *)
(* events say what the customer did there.  A transaction of the server    *)
(* or of the bot is a step that reads and a step that commits, at the      *)
(* isolation of READ COMMITTED.                                            *)
(*                                                                         *)
(* Two premises, which the code does not enforce.  The handlers of the     *)
(* server follow one another: nothing makes them wait for each other, and  *)
(* two that overlap share the connections of a pool, which mixes up their  *)
(* statements (PooledTransactions).  And a transaction has its connection  *)
(* to itself, but for HandlerStrays and StraySpend, where statements of it *)
(* have gone to another one.                                               *)
(*                                                                         *)
(* Credits spent and expired are negative entries of the ledger; here they *)
(* are amounts that are taken away.                                        *)
(***************************************************************************)
EXTENDS Integers, Sequences, FiniteSets

CONSTANTS
    Plans, FreePlan,    \* the plans; one of them costs nothing
    Price, Included,    \* what a plan costs, and the credits that come with it
    Reload,             \* the extra credits one can buy
    Halves,             \* the halves of a period that may be left: 1, 2
    Answers,            \* the answers of the AI bot
    Cost, Minimum,      \* the price of an answer, the credits needed to ask
    MaxEvents,          \* bound: the events the customer brings about
    MaxFailures         \* bound: transactions that fail or stray, and crashes

ASSUME PlansAssumption ==
    /\ FreePlan \in Plans
    /\ Price \in [Plans -> Nat] /\ Included \in [Plans -> Nat]
    /\ \A p \in Plans : Price[p] = 0 <=> p = FreePlan
    /\ \A p, q \in Plans : Price[p] <= Price[q] => Included[p] <= Included[q]
ASSUME AmountsAssumption ==
    Reload \in Nat /\ Cost \in Nat /\ Minimum \in Nat /\ Halves \subseteq 1..2
ASSUME BoundsAssumption == MaxEvents \in Nat /\ MaxFailures \in Nat

VARIABLES
    customer,           \* Stripe: the customer's subscriptions, and the period
    events,             \* Stripe: the events, in the order they happened
    eventRow,           \* stripe_events: what is recorded of each event
    known,              \* users: the customer id of Stripe is stored
    subscriptions,      \* subscriptions
    cycles,             \* subscription_cycles
    ledger,             \* credits_ledger: the plan allowance of each cycle
    extra,              \* credits_ledger: the extra credits of the user
    tx,                 \* the open transaction of the server, if any
    answer, spend,      \* where each answer is, and its open transaction
    mishaps,            \* history: what went wrong so far
    failures            \* how much of the budget is used

stripe == <<customer, events>>
tables == <<known, subscriptions, cycles, ledger>>
bot == <<answer, spend>>
vars == <<stripe, eventRow, tables, extra, tx, bot, mishaps, failures>>

Kinds == {"signup", "create", "cycle", "update", "deleted", "purchase"}
Mishap == {"reordered", "overlapped", "ambiguous", "resubscribed", "unmarked",
           "strayed", "leaked"}
Status == {"active", "ended_due_to_plan_change", "canceled", "expired"}

Event == [kind : Kinds, sub : Nat, plan : Plans, period : Nat,
          left : 0..2, reason : {"cancellation_requested", "payment_failure"}]
Subscription == [plan : Plans, stripe : Nat, status : Status]
Cycle == [sub : Nat, end : Nat]
Allowance == [allowance : Int, used : Nat, expired : Int]
Transactions ==
    [event : Nat \ {0}, committed : BOOLEAN, known : BOOLEAN, subscriptions : Seq(Subscription),
     closes : Nat, expires : Int, opens : Seq(Cycle), grant : Int, buys : Nat]
Spending == [cycle : Nat \ {0}, plan : Nat, extra : Nat]

NoTx == [event |-> 0, committed |-> FALSE]
NoSpend == [cycle |-> 0]
Open(t) == t # NoTx

TypeOK ==
    /\ customer \in [subs : Seq([plan : Plans, live : BOOLEAN]), period : Nat]
    /\ events \in Seq(Event)
    /\ eventRow \in Seq({"none", "inserted", "processed"})
    /\ Len(eventRow) = Len(events)
    /\ known \in BOOLEAN
    /\ subscriptions \in Seq(Subscription)
    /\ cycles \in Seq(Cycle)
    /\ \A c \in DOMAIN cycles : cycles[c].sub \in DOMAIN subscriptions
    /\ ledger \in Seq(Allowance) /\ Len(ledger) = Len(cycles)
    /\ extra \in [bought : Nat, used : Nat]
    /\ tx \in {NoTx} \cup Transactions /\ tx.event \in 0..Len(events)
    /\ answer \in [Answers -> {"idle", "asking", "generating", "tracking", "over"}]
    /\ spend \in [Answers -> {NoSpend} \cup Spending]
    /\ \A a \in Answers : spend[a] # NoSpend =>
          answer[a] \in {"tracking", "over"} /\ spend[a].cycle <= Len(cycles)
    /\ mishaps \subseteq Mishap
    /\ failures \in 0..MaxFailures

Init ==
    /\ customer = [subs |-> <<>>, period |-> 1]
    /\ events = <<>>
    /\ eventRow = <<>>
    /\ known = FALSE
    /\ subscriptions = <<>>
    /\ cycles = <<>>
    /\ ledger = <<>>
    /\ extra = [bought |-> 0, used |-> 0]
    /\ tx = NoTx
    /\ answer = [a \in Answers |-> "idle"]
    /\ spend = [a \in Answers |-> NoSpend]
    /\ mishaps = {}
    /\ failures = 0

-----------------------------------------------------------------------------
(* What the queries of billing-queries.ts answer. *)

ActiveIn(rows) == {s \in DOMAIN rows : rows[s].status = "active"}
Active == ActiveIn(subscriptions)

(* getCurrentActiveSubscription would throw if there were several. *)
HasActive == Cardinality(Active) = 1
CurrentActive == CHOOSE s \in Active : TRUE

(* The trigger of the table: a row that is inserted or updated is not active
   beside another one, or the statement throws. *)
EnsureSingleActive(rows) == Cardinality(ActiveIn(rows)) <= 1

CyclesOf(s) == {c \in DOMAIN cycles : cycles[c].sub = s}

MostRecentCycle(s) ==
    CHOOSE c \in CyclesOf(s) : \A d \in CyclesOf(s) : cycles[d].end <= cycles[c].end

(* The rows of a subscription of Stripe: one for each plan it has had. *)
RowsOf(stripeSub) == {s \in DOMAIN subscriptions : subscriptions[s].stripe = stripeSub}

(* What is left of the allowance of a cycle, if it has not been expired:
   sumUpCreditsLedger over plan_allowance and plan_allowance_used. *)
Remaining(c) == ledger[c].allowance - ledger[c].used

(* The sum of the numbers of a sequence. *)
Total(s) == LET sum[n \in 0..Len(s)] == IF n = 0 THEN 0 ELSE sum[n - 1] + s[n]
            IN  sum[Len(s)]

PlanBalance == Total([c \in DOMAIN ledger |-> Remaining(c) - ledger[c].expired])
ExtraBalance == extra.bought - extra.used

-----------------------------------------------------------------------------
(* Stripe: what the customer does, and the events that tell of it. *)

NoEvent == [kind |-> "signup", sub |-> 0, plan |-> FreePlan, period |-> 0,
            left |-> 0, reason |-> "payment_failure"]

(* New events: nothing is recorded of them. *)
Emit(new) ==
    /\ events' = events \o new
    /\ eventRow' = eventRow \o [i \in DOMAIN new |-> "none"]

Lives == {s \in DOMAIN customer.subs : customer.subs[s].live}

(* The payment link of the free plan. *)
FirstInvoice == [NoEvent EXCEPT !.kind = "create", !.sub = Len(customer.subs) + 1,
                                !.period = customer.period]
NewSubscription == Append(customer.subs, [plan |-> FreePlan, live |-> TRUE])

SignUp ==
    /\ Lives = {}
    /\ customer' = [customer EXCEPT !.subs = NewSubscription]
    /\ Emit(<<NoEvent, FirstInvoice>>)

Invoice(kind, s, plan, period, left) ==
    [NoEvent EXCEPT !.kind = kind, !.sub = s, !.plan = plan, !.period = period, !.left = left]

Renew(s) ==
    /\ customer' = [customer EXCEPT !.period = @ + 1]
    /\ Emit(<<Invoice("cycle", s, customer.subs[s].plan, customer.period + 1, 2)>>)

(* An upgrade takes effect at once, with so many halves of the period left;
   a downgrade at the end of the period. *)
ChangePlan(s, plan) ==
    LET upgrade == Price[plan] > Price[customer.subs[s].plan]
        period == IF upgrade THEN customer.period ELSE customer.period + 1
    IN  /\ plan # customer.subs[s].plan
        /\ customer' = [subs |-> [customer.subs EXCEPT ![s].plan = plan],
                        period |-> period]
        /\ \E left \in IF upgrade THEN Halves ELSE {2} :
              Emit(<<Invoice("update", s, plan, period, left)>>)

(* At the end of the period, or because payments fail. *)
EndSubscription(s) ==
    /\ customer' = [customer EXCEPT !.subs[s].live = FALSE, !.period = @ + 1]
    /\ \E why \in {"cancellation_requested", "payment_failure"} :
          Emit(<<[NoEvent EXCEPT !.kind = "deleted", !.sub = s, !.reason = why]>>)

BuyCredits ==
    /\ Lives # {}
    /\ Emit(<<[NoEvent EXCEPT !.kind = "purchase"]>>)
    /\ UNCHANGED customer

CustomerActs ==
    /\ Len(events) < MaxEvents
    /\ \/ SignUp
       \/ BuyCredits
       \/ \E s \in Lives : \/ Renew(s) \/ EndSubscription(s)
                           \/ \E plan \in Plans : ChangePlan(s, plan)
    /\ UNCHANGED <<tables, extra, tx, bot, mishaps, failures>>

-----------------------------------------------------------------------------
(* The webhook.  A handler that throws rolls its transaction back, and Stripe
   will send the event again: nothing has changed.  One that does not throw
   has a transaction to commit: the rows of subscriptions it leaves, a cycle
   to be closed and what expires of it, a cycle to be opened and its grant. *)

Transaction(e) ==
    [event |-> e, committed |-> FALSE, known |-> known, subscriptions |-> subscriptions,
     closes |-> 0, expires |-> 0, opens |-> <<>>, grant |-> 0, buys |-> 0]

(* Mutant: a duplicate is refused only if the event has been processed. *)
InsertUnlessProcessed(e) == eventRow[e] # "processed"

(* insertStripeEvent: the row is there already, whatever its state: it throws. *)
InsertStripeEvent(e) == eventRow[e] = "none"

(* Mutant: the new subscription has the allowance, and so has the old one. *)
ExpiresNothing(t, c) == [t EXCEPT !.closes = c]

(* expireRemainingPlanAllowanceInSubscriptionCycle *)
ExpireRemaining(t, c) == [t EXCEPT !.closes = c, !.expires = Remaining(c)]

(* createSubscription, on top of what t does to the rows there are. *)
CreateSubscription(t, event, allowance) ==
    [t EXCEPT !.subscriptions = Append(@, [plan |-> event.plan, stripe |-> event.sub,
                                           status |-> "active"]),
              !.opens = <<[sub |-> Len(t.subscriptions) + 1, end |-> event.period]>>,
              !.grant = allowance]

CreateSubscriptionCycle(t, event, s) ==
    [ExpireRemaining(t, MostRecentCycle(s))
        EXCEPT !.opens = <<[sub |-> s, end |-> event.period]>>,
               !.grant = Included[event.plan]]

(* centsToCredits of the lines of an invoice, which charge and refund the
   halves of the period that are left, rounded.  (Of the free plan it would
   divide by zero.) *)
CentsToCredits(plan, left) == (Included[plan] * left + 1) \div 2

(* calculateUpgradeProration: nothing is carried over from the free plan. *)
CreditsToAdd(current, currentAllowance, event) ==
    (IF current = FreePlan THEN 0
     ELSE currentAllowance - CentsToCredits(current, event.left))
    + CentsToCredits(event.plan, event.left)

(* updateSubscription: handlePlanDowngrade or handlePlanUpgrade. *)
UpdateSubscription(t, event, s) ==
    LET c == MostRecentCycle(s)
        current == subscriptions[s].plan
        isDowngrade == Price[current] > Price[event.plan]
        ended == [ExpireRemaining(t, c)
                     EXCEPT !.subscriptions[s].status = "ended_due_to_plan_change"]
    IN  CreateSubscription(ended, event,
            IF isDowngrade THEN Included[event.plan]
            ELSE CreditsToAdd(current, Remaining(c), event))

(* Mutant: a subscription that is not paid any more stays active. *)
DeleteIfRequested(t, event, s) ==
    [ExpireRemaining(t, MostRecentCycle(s))
        EXCEPT !.subscriptions[s].status =
                  IF event.reason = "cancellation_requested" THEN "canceled" ELSE @]

(* handleSubscriptionDeleted, for one of the rows of the subscription. *)
DeleteSubscription(t, event, s) ==
    [ExpireRemaining(t, MostRecentCycle(s))
        EXCEPT !.subscriptions[s].status =
                  IF event.reason = "cancellation_requested" THEN "canceled" ELSE "expired"]

Late(e) == IF \E d \in 1..(e - 1) : eventRow[d] = "none" THEN {"reordered"} ELSE {}

(* handlePaymentSucceeded, handleSubscriptionDeleted and
   handleCheckoutSessionCompleted, where they do not throw. *)
Handling(e, t) ==
    LET event == events[e]  base == Transaction(e)
    IN  \/ event.kind = "signup" /\ t = [base EXCEPT !.known = TRUE]
        \/ event.kind = "create" /\ known
           /\ t = CreateSubscription(base, event, Included[event.plan])
        \/ event.kind = "cycle" /\ known /\ HasActive
           /\ t = CreateSubscriptionCycle(base, event, CurrentActive)
        \/ event.kind = "update" /\ known /\ HasActive
           /\ FreePlan \notin {event.plan} \cap {subscriptions[CurrentActive].plan}
           /\ t = UpdateSubscription(base, event, CurrentActive)
        \/ event.kind = "purchase" /\ known /\ HasActive
           /\ t = [base EXCEPT !.buys = Reload]
        \/ event.kind = "deleted"
           /\ \E s \in RowsOf(event.sub) : t = DeleteSubscription(base, event, s)

Expires(e) == events[e].kind = "deleted" /\ events[e].reason = "payment_failure"

(* subscribeUserToFreePlan asks Stripe for a new subscription before the
   transaction commits; if Stripe will not, the error is only reported. *)
SubscribeToFreePlan(e) ==
    \/ /\ Expires(e)
       /\ customer' = [customer EXCEPT !.subs = NewSubscription]
       /\ Emit(<<FirstInvoice>>)
    \/ UNCHANGED stripe /\ UNCHANGED eventRow

(* The handlers follow one another: that is a premise.  It leaves nothing to
   do for the retry of handlePaymentSucceeded, which waits for the customer id
   that a checkout handled beside it stores: without one, the event throws. *)
HandleEvent(e) ==
    /\ ~Open(tx)
    /\ InsertStripeEvent(e)
    /\ Handling(e, tx') /\ EnsureSingleActive(tx'.subscriptions)
    /\ SubscribeToFreePlan(e)
    /\ mishaps' = mishaps
          \cup Late(e)
          \cup (IF events[e].kind = "deleted" /\ Cardinality(RowsOf(events[e].sub)) > 1
                THEN {"ambiguous"} ELSE {})
          \cup (IF customer'.subs # customer.subs /\ Lives # {} THEN {"resubscribed"} ELSE {})
    /\ UNCHANGED <<tables, extra, bot, failures>>

(* The cycles and the ledger, once t has committed. *)
CloseAndOpen(t) ==
    /\ cycles' = cycles \o t.opens
    /\ ledger' =
          [c \in DOMAIN ledger |-> IF c = t.closes
                                   THEN [ledger[c] EXCEPT !.expired = @ + t.expires]
                                   ELSE ledger[c]]
          \o [i \in DOMAIN t.opens |-> [allowance |-> t.grant, used |-> 0, expired |-> 0]]

Overlap(other) == IF other THEN {"overlapped"} ELSE {}

IsCheckout(e) == events[e].kind \in {"signup", "purchase"}

(* Mutant: none of the transactions marks its event. *)
NeverMarked(e) == "inserted"

(* markStripeEventAsProcessed is part of the transaction, but for a checkout,
   where it follows it. *)
RowAfterCommit(e) == IF IsCheckout(e) THEN "inserted" ELSE "processed"

(* All of it, if it has had its connection to itself. *)
Commit ==
    /\ Open(tx) /\ ~tx.committed
    /\ known' = tx.known
    /\ subscriptions' = tx.subscriptions
    /\ CloseAndOpen(tx)
    /\ extra' = [extra EXCEPT !.bought = @ + tx.buys]
    /\ eventRow' = [eventRow EXCEPT ![tx.event] = RowAfterCommit(tx.event)]
    /\ tx' = IF IsCheckout(tx.event) THEN [tx EXCEPT !.committed = TRUE] ELSE NoTx
    /\ mishaps' = mishaps \cup Overlap(\E a \in Answers : spend[a] # NoSpend)
    /\ UNCHANGED <<stripe, bot, failures>>

MarkAsProcessed ==
    /\ tx.committed
    /\ eventRow' = [eventRow EXCEPT ![tx.event] = "processed"]
    /\ tx' = NoTx
    /\ UNCHANGED <<stripe, tables, extra, bot, mishaps, failures>>

(* The transaction fails, or the server dies: nothing of it is left, but what
   Stripe was asked to do; after the commit of a checkout, all of it is. *)
HandlerFails ==
    /\ Open(tx) /\ failures < MaxFailures
    /\ failures' = failures + 1
    /\ tx' = NoTx
    /\ mishaps' = mishaps \cup
          IF tx.committed THEN {"unmarked"} ELSE {}
    /\ UNCHANGED <<stripe, eventRow, tables, extra, bot>>

(* Statements of t, those that were committed outside of it: rows of
   subscriptions that it ends or also the one it inserts, and the entries of
   the ledger.  (Here a row is inserted with its cycle, a cycle with its grant;
   and a row not without the end of the one it follows, as the trigger would
   see both active.) *)
Strays(t) ==
    {[t EXCEPT !.known = k, !.subscriptions = rows[1], !.opens = rows[2],
               !.closes = c, !.buys = b] :
        k \in {known, t.known}, c \in {0, t.closes}, b \in {0, t.buys},
        rows \in {<<subscriptions, <<>>>>,
                  <<SubSeq(t.subscriptions, 1, Len(subscriptions)), <<>>>>,
                  <<t.subscriptions, t.opens>>}}

(* Another task used the pool, or the connection was closed while the handler
   awaited Stripe.  Each statement, BEGIN, COMMIT and ROLLBACK too, took the
   connection that was free: some were committed on their own or with the
   other task, the rest is lost, whether the handler noticed or not. *)
HandlerStrays ==
    /\ Open(tx) /\ ~tx.committed /\ failures < MaxFailures
    /\ failures' = failures + 1
    /\ \E t \in Strays(tx) :
          /\ known' = t.known
          /\ subscriptions' = t.subscriptions
          /\ CloseAndOpen(t)
          /\ extra' = [extra EXCEPT !.bought = @ + t.buys]
    /\ \E row \in {"none", "inserted", "processed"} : eventRow' = [eventRow EXCEPT ![tx.event] = row]
    /\ tx' = NoTx
    /\ mishaps' = mishaps \cup {"strayed"} \cup Overlap(\E a \in Answers : spend[a] # NoSpend)
    /\ UNCHANGED <<stripe, bot>>

-----------------------------------------------------------------------------
(* The AI bot. *)
Tracking == {a \in Answers : answer[a] = "tracking"}

Goto(a, where) == answer' = [answer EXCEPT ![a] = where]

BotOnly == UNCHANGED <<stripe, eventRow, tables, extra, tx, mishaps, failures>>

(* A message of the user, who waits for the cost of an answer that is being
   tracked. *)
Message(a) ==
    /\ answer[a] = "idle" /\ Tracking = {}
    /\ Goto(a, "asking")
    /\ UNCHANGED spend /\ BotOnly

(* getAvailableCredits, the sum of the whole ledger, must do for an answer. *)
Ask(a) ==
    /\ answer[a] = "asking"
    /\ Goto(a, IF PlanBalance + ExtraBalance >= Minimum THEN "generating" ELSE "over")
    /\ UNCHANGED spend /\ BotOnly

(* Mutant: two costs of a user are tracked side by side. *)
TrackEveryCost(a) ==
    /\ answer[a] = "generating"
    /\ Goto(a, "tracking")
    /\ UNCHANGED spend /\ BotOnly

(* The answer is complete.  Its cost is not tracked while another one is. *)
TrackAiUsageCost(a) ==
    /\ answer[a] = "generating"
    /\ Goto(a, IF Tracking = {} THEN "tracking" ELSE "over")
    /\ UNCHANGED spend /\ BotOnly

(* Mutant: the amounts are not compared with zero. *)
SpendAnyAmount ==
    LET fromPlan == IF PlanBalance >= Cost THEN Cost ELSE PlanBalance
        rest == Cost - fromPlan
    IN  [cycle |-> MostRecentCycle(CurrentActive), plan |-> fromPlan,
         extra |-> IF rest > ExtraBalance THEN ExtraBalance ELSE rest]

(* spendCredits: the plan allowance first, whatever its sign, then extra
   credits as far as they go. *)
Spend ==
    LET fromPlan == IF PlanBalance >= Cost THEN Cost ELSE PlanBalance
        rest == Cost - fromPlan
        fromExtra == IF rest > ExtraBalance THEN ExtraBalance ELSE rest
    IN  [cycle |-> MostRecentCycle(CurrentActive),
         plan |-> IF fromPlan > 0 THEN fromPlan ELSE 0,
         extra |-> IF fromExtra > 0 THEN fromExtra ELSE 0]

SpendCredits(a) ==
    /\ answer[a] = "tracking" /\ spend[a] = NoSpend
    /\ HasActive
    /\ spend' = [spend EXCEPT ![a] = Spend]
    /\ UNCHANGED answer /\ BotOnly

(* No subscription: the cost is not charged, and only a log tells. *)
SkipUsage(a) ==
    /\ answer[a] = "tracking" /\ spend[a] = NoSpend
    /\ ~HasActive
    /\ Goto(a, "over")
    /\ UNCHANGED spend /\ BotOnly

(* All of it, or all that has not strayed. *)
CommitSpend(a) ==
    /\ spend[a] # NoSpend
    /\ ledger' = [ledger EXCEPT ![spend[a].cycle].used = @ + spend[a].plan]
    /\ extra' = [extra EXCEPT !.used = @ + spend[a].extra]
    /\ Goto(a, "over")
    /\ spend' = [spend EXCEPT ![a] = NoSpend]
    /\ mishaps' = mishaps \cup Overlap(Open(tx))
    /\ UNCHANGED <<stripe, eventRow, known, subscriptions, cycles, tx, failures>>

(* The error is swallowed: the bot goes on. *)
SpendFails(a) ==
    /\ spend[a] # NoSpend /\ failures < MaxFailures
    /\ failures' = failures + 1
    /\ Goto(a, "over")
    /\ spend' = [spend EXCEPT ![a] = NoSpend]
    /\ UNCHANGED <<stripe, eventRow, tables, extra, tx, mishaps>>

(* Another task of the bot used the pool: entries of the ledger were committed
   on their own, and the COMMIT went to another connection.  The rest is left
   in an open transaction, for whoever gets that connection to end. *)
StraySpend(a) ==
    /\ answer[a] = "tracking" /\ spend[a] # NoSpend /\ failures < MaxFailures
    /\ failures' = failures + 1
    /\ \E plan \in {0, spend[a].plan}, more \in {0, spend[a].extra} :
          /\ ledger' = [ledger EXCEPT ![spend[a].cycle].used = @ + plan]
          /\ extra' = [extra EXCEPT !.used = @ + more]
          /\ spend' = [spend EXCEPT ![a].plan = @ - plan, ![a].extra = @ - more]
    /\ Goto(a, "over")
    /\ mishaps' = mishaps \cup {"leaked"} \cup Overlap(Open(tx))
    /\ UNCHANGED <<stripe, eventRow, known, subscriptions, cycles, tx>>

-----------------------------------------------------------------------------
Next ==
    \/ CustomerActs
    \/ \E e \in DOMAIN events : HandleEvent(e)
    \/ Commit \/ MarkAsProcessed \/ HandlerFails \/ HandlerStrays
    \/ \E a \in Answers : \/ Message(a) \/ Ask(a) \/ TrackAiUsageCost(a)
                          \/ SpendCredits(a) \/ SkipUsage(a)
                          \/ CommitSpend(a) \/ SpendFails(a) \/ StraySpend(a)

Spec == Init /\ [][Next]_vars

(* Stripe sends an event again until it is handled; that this is so for the
   oldest event that is not is all that is needed.  Transactions end. *)
HandleOldest == \E e \in DOMAIN events : Late(e) = {} /\ HandleEvent(e)

Fairness == SF_vars(HandleOldest) /\ WF_vars(Commit) /\ WF_vars(MarkAsProcessed)

FairSpec == Spec /\ Fairness

-----------------------------------------------------------------------------
(* However often Stripe repeats itself, and whatever fails, a purchase is
   credited exactly when stripe_events has its event: never twice, and never
   half; unless statements of a handler have strayed to other connections. *)
PurchasesAreCreditedOnce ==
    "strayed" \notin mishaps =>
        extra.bought = Reload * Cardinality({e \in DOMAIN events :
                                    events[e].kind = "purchase" /\ eventRow[e] # "none"})

(* Extra credits are never overdrawn, in any order of events and answers, and
   whatever strays of a handler: what spendCredits takes was there when it
   looked, and still is.  Only a charge that is left in an open transaction
   may take what others have taken since. *)
ExtraIsNotOverdrawn == "leaked" \notin mishaps => ExtraBalance >= 0

(* Of all cycles only the last one of the active subscription has an
   allowance left, none is expired twice, and no plan is overdrawn.  What may
   spoil that is: events that are handled out of their order (a late renewal
   expires the wrong cycle), an answer charged while a cycle is being closed,
   the deletion of a subscription that has several rows, and statements that
   stray from their transaction, of the server or of the bot.  (And handlers
   that overlap, which the premise excludes.) *)
OldCyclesAreSettled ==
    mishaps \cap {"reordered", "overlapped", "ambiguous", "strayed", "leaked"} = {} =>
        /\ PlanBalance >= 0
        /\ \A c \in DOMAIN cycles :
              (\A s \in Active : c # MostRecentCycle(s)) => Remaining(c) = ledger[c].expired

(* Once all events are handled, the active row is that of the subscription
   the customer has at Stripe, with its plan, and there is none if he has
   none; if the events were handled in their order, no deletion found several
   rows, and no statement strayed.  A customer who has got two subscriptions
   is no exception: the trigger refuses the second one, whose event is not
   handled while the first lives. *)
SubscriptionIsTheCustomers ==
    /\ \A e \in DOMAIN events : eventRow[e] = "processed"
    /\ mishaps \cap {"reordered", "ambiguous", "strayed"} = {}
    => {<<subscriptions[s].stripe, subscriptions[s].plan>> : s \in Active}
       = {<<x, customer.subs[x].plan>> : x \in Lives}

(* Every event of Stripe is handled in the end, if they come in their order,
   deletions find one row, the customer has one subscription at a time, no
   server died between the commit of a checkout and its mark, and no statement
   of a handler strayed: one that records the event alone makes every further
   delivery fail.  Failures before the commit, and anything the bot does, are
   no obstacle. *)
EveryEventIsHandled ==
    []<>(\/ \A e \in DOMAIN events : eventRow[e] = "processed"
         \/ mishaps \cap (Mishap \ {"overlapped", "leaked"}) # {})
=============================================================================
