--------------------------- MODULE BillingProofs ---------------------------
(***************************************************************************)
(* Theorems about Billing, for any plans, answers, amounts and bounds:     *)
(* what the webhook credits and what the bot takes, whatever Stripe sends  *)
(* again or late and wherever a transaction fails; and, as long as the     *)
(* mishaps named do not happen, that the active row is that of the         *)
(* customer's subscription, with its plan, and that old cycles are         *)
(* settled.  All of it under the two premises of Billing.                  *)
(*                                                                         *)
(* The invariant says what the events tell (EventInv), what an open        *)
(* transaction will do to the tables (Shape, in TxInv), and that the       *)
(* active rows are the subscriptions that were created and not deleted, as *)
(* far as the events have been handled (RowInv).                           *)
(***************************************************************************)
EXTENDS Billing, SequenceLemmas, FiniteSetTheorems, TLAPS

Handled(e) == eventRow[e] # "none"

Clean(which) == mishaps \cap which = {}

(* What Stripe tells of a subscription: it is created, once, before anything
   else happens to it, and deleted at most once, after everything else; and the
   last event that names its plan names the one it has. *)
SetsPlan(event, x) == event.kind \in {"create", "update"} /\ event.sub = x

Told(subs, period, es) ==
    /\ \A e \in DOMAIN es :
          /\ es[e].kind \notin {"signup", "purchase"} => es[e].sub \in DOMAIN subs
          /\ es[e].period <= period
          /\ es[e].kind \in {"cycle", "update", "deleted"} =>
                /\ \E d \in 1..(e - 1) : es[d].kind = "create" /\ es[d].sub = es[e].sub
                /\ ~\E d \in 1..(e - 1) : es[d].kind = "deleted" /\ es[d].sub = es[e].sub
          /\ es[e].kind = "cycle" => \A d \in 1..(e - 1) : es[d].period < es[e].period
    /\ \A d, e \in DOMAIN es :
          es[d].kind = "create" /\ es[e].kind = "create" /\ es[d].sub = es[e].sub => d = e
    /\ \A s \in DOMAIN subs :
          /\ \E e \in DOMAIN es : es[e].kind = "create" /\ es[e].sub = s
          /\ subs[s].live <=> ~\E e \in DOMAIN es : es[e].kind = "deleted" /\ es[e].sub = s
    /\ \A s \in DOMAIN subs, e \in DOMAIN es :
          /\ SetsPlan(es[e], s)
          /\ \A d \in DOMAIN es : d > e => ~SetsPlan(es[d], s)
          => subs[s].plan = es[e].plan

EventInv == Told(customer.subs, customer.period, events)

(* What a transaction for event does to the rows of subscriptions and to their
   cycles; clean, if the subscription that is deleted had a single row. *)
Row(event) == [plan |-> event.plan, stripe |-> event.sub, status |-> "active"]
Ended(rows, s, status) == [rows EXCEPT ![s].status = status]
Opens(s, event) == <<[sub |-> s, end |-> event.period]>>

CyclesIn(cs, s) == {c \in DOMAIN cs : cs[c].sub = s}
Latest(cs, s) == CHOOSE c \in CyclesIn(cs, s) : \A d \in CyclesIn(cs, s) : cs[d].end <= cs[c].end

Shape(t, event, rows, cs, clean) ==
    /\ ~t.committed
    /\ t.buys = IF event.kind = "purchase" THEN Reload ELSE 0
    /\ \/ /\ event.kind \in {"signup", "purchase"}
          /\ t.subscriptions = rows /\ t.closes = 0 /\ t.opens = <<>>
       \/ /\ event.kind = "create"
          /\ t.subscriptions = Append(rows, Row(event))
          /\ t.closes = 0 /\ t.opens = Opens(Len(rows) + 1, event)
       \/ /\ event.kind = "cycle"
          /\ \E s \in ActiveIn(rows) :
                /\ ActiveIn(rows) = {s} /\ t.subscriptions = rows
                /\ t.closes = Latest(cs, s) /\ t.opens = Opens(s, event)
       \/ /\ event.kind = "update"
          /\ \E s \in ActiveIn(rows) :
                /\ ActiveIn(rows) = {s} /\ t.closes = Latest(cs, s)
                /\ t.subscriptions = Append(Ended(rows, s, "ended_due_to_plan_change"), Row(event))
                /\ t.opens = Opens(Len(rows) + 1, event)
       \/ /\ event.kind = "deleted"
          /\ \E s \in DOMAIN rows :
                /\ rows[s].stripe = event.sub
                /\ clean => \A u \in DOMAIN rows : rows[u].stripe = event.sub => u = s
                /\ t.closes = Latest(cs, s)
                /\ t.subscriptions \in {Ended(rows, s, "canceled"), Ended(rows, s, "expired")}
                /\ t.opens = <<>>

TxInv ==
    /\ Open(tx) /\ tx.committed => eventRow[tx.event] = "inserted"
    /\ Open(tx) /\ ~tx.committed =>
          /\ eventRow[tx.event] = "none"
          /\ Shape(tx, events[tx.event], subscriptions, cycles, Clean({"ambiguous"}))

(* Every subscription has a cycle, and none ends later than Stripe's period. *)
CycleInv ==
    /\ \A s \in DOMAIN subscriptions : CyclesOf(s) # {}
    /\ \A c \in DOMAIN cycles : cycles[c].end <= customer.period

(* Events that are handled in their order: nothing before one is left out. *)
InOrder == \A e \in DOMAIN events : \A d \in 1..(e - 1) : Handled(e) => Handled(d)

OrderInv ==
    Clean({"reordered", "strayed"}) =>
        /\ InOrder
        /\ Open(tx) /\ ~tx.committed => \A d \in 1..(tx.event - 1) : Handled(d)

(* The active rows are, one for one, the subscriptions that were created and
   not deleted, and have their plans, as far as the events have been handled. *)
Lasts(x) ==
    /\ \E e \in DOMAIN events : Handled(e) /\ events[e].kind = "create" /\ events[e].sub = x
    /\ ~\E e \in DOMAIN events : Handled(e) /\ events[e].kind = "deleted" /\ events[e].sub = x

PlanTold(x, plan) ==
    \A e \in DOMAIN events :
       /\ Handled(e) /\ SetsPlan(events[e], x)
       /\ \A d \in DOMAIN events : d > e /\ Handled(d) => ~SetsPlan(events[d], x)
       => plan = events[e].plan

RowInv ==
    Clean({"reordered", "ambiguous", "strayed"}) =>
        /\ \A s \in Active : Lasts(subscriptions[s].stripe)
        /\ \A s, u \in Active : subscriptions[s].stripe = subscriptions[u].stripe => s = u
        /\ \A x \in DOMAIN customer.subs : Lasts(x) => \E s \in Active : subscriptions[s].stripe = x
        /\ \A s \in Active : PlanTold(subscriptions[s].stripe, subscriptions[s].plan)

(* At most one cost is being tracked, and what it takes is there, if none was
   left in an open transaction. *)
ExtraInv ==
    /\ \A a, b \in Tracking : a = b
    /\ Clean({"leaked"}) =>
          /\ ExtraBalance >= 0
          /\ \A a \in Answers : spend[a] # NoSpend =>
                answer[a] = "tracking" /\ spend[a].extra <= ExtraBalance

(* The cycles of a subscription follow one another, and the renewals to come
   follow them; only the last one of the active subscription is not settled.
   What a transaction is about to do, and a cost about to take, is still right
   when it commits. *)
Settled(c) == Remaining(c) = ledger[c].expired

CleanLedger == Clean({"reordered", "overlapped", "ambiguous", "strayed", "leaked"})

LedgerInv ==
    CleanLedger =>
        /\ \A c, d \in DOMAIN cycles : c < d /\ cycles[c].sub = cycles[d].sub => cycles[c].end < cycles[d].end
        /\ \A c \in DOMAIN cycles, e \in DOMAIN events :
              ~Handled(e) /\ events[e].kind = "cycle" => cycles[c].end < events[e].period
        /\ \A c \in DOMAIN cycles : (\A s \in Active : c # Latest(cycles, s)) => Settled(c)
        /\ \A s \in Active : /\ ledger[Latest(cycles, s)].expired = 0
                             /\ Remaining(Latest(cycles, s)) >= 0
        /\ \A a \in Answers : spend[a] # NoSpend =>
              \E s \in Active : /\ Active = {s} /\ spend[a].cycle = Latest(cycles, s)
                                /\ spend[a].plan <= Remaining(spend[a].cycle)

PendingInv ==
    CleanLedger /\ Open(tx) /\ ~tx.committed =>
        /\ tx.closes # 0 => tx.expires = Remaining(tx.closes)
        /\ tx.opens # <<>> => tx.grant >= 0

CreditInv == LedgerInv /\ PendingInv

Inv ==
    /\ TypeOK /\ PurchasesAreCreditedOnce
    /\ EventInv /\ TxInv /\ CycleInv /\ OrderInv /\ RowInv /\ ExtraInv

-----------------------------------------------------------------------------
(* Sums. *)

(* g adds up the numbers of s, from the first. *)
SumsUp(g, s) ==
    /\ g \in [0..Len(s) -> Int] /\ g[0] = 0
    /\ \A n \in 1..Len(s) : g[n] = g[n - 1] + s[n]

LEMMA SumsExist ==
    ASSUME NEW s \in Seq(Int)
    PROVE  \E g : SumsUp(g, s)
<1> DEFINE Upto(m, g) == /\ g \in [0..m -> Int] /\ g[0] = 0
                         /\ \A n \in 1..m : g[n] = g[n - 1] + s[n]
           T == {m \in 0..Len(s) : ~\E g : Upto(m, g)}
<1>1. Len(s) \in Nat /\ \A n \in 1..Len(s) : s[n] \in Int
  BY LenProperties, ElementOfSeq
<1>2. T = {}
  <2> SUFFICES ASSUME T # {} PROVE FALSE
    OBVIOUS
  <2>1. T \subseteq Nat
    BY <1>1
  <2> HIDE DEF Upto
  <2>2. PICK m \in T : \A k \in T : m <= k
    <3> HIDE DEF T
    <3> QED
      BY <2>1, Smallest, Zenon
  <2>3. m \in 0..Len(s) /\ ~\E g : Upto(m, g)
    OBVIOUS
  <2>4. CASE m = 0
    <3>1. Upto(m, [n \in 0..0 |-> 0])
      BY <2>4 DEF Upto
    <3> QED
      BY <2>3, <3>1
  <2>5. CASE m # 0
    <3>1. m - 1 \in 0..Len(s) /\ ~ (m <= m - 1) /\ m \in 1..Len(s)
      BY <1>1, <2>3, <2>5
    <3>2. PICK g : Upto(m - 1, g)
      BY <2>2, <3>1
    <3> DEFINE h == [n \in 0..m |-> IF n = m THEN g[m - 1] + s[m] ELSE g[n]]
    <3>3. g \in [0..(m - 1) -> Int] /\ g[0] = 0
          /\ \A n \in 1..(m - 1) : g[n] = g[n - 1] + s[n]
      BY <3>2 DEF Upto
    <3>4. s[m] \in Int
      BY <1>1, <3>1
    <3>5. h \in [0..m -> Int] /\ h[0] = 0
      BY <3>1, <3>3, <3>4
    <3>6. ASSUME NEW n \in 1..m PROVE h[n] = h[n - 1] + s[n]
      <4>1. CASE n = m
        BY <3>1, <4>1
      <4>2. CASE n # m
        BY <3>1, <3>3, <4>2
      <4> QED
        BY <4>1, <4>2
    <3>7. Upto(m, h)
      BY <3>5, <3>6 DEF Upto
    <3> QED
      BY <2>3, <3>7
  <2> QED
    BY <2>4, <2>5
<1>3. Len(s) \in 0..Len(s)
  BY <1>1
<1> HIDE DEF Upto
<1>4. PICK g : Upto(Len(s), g)
  BY <1>2, <1>3
<1> QED
  BY <1>4 DEF Upto, SumsUp

LEMMA SumsAreUnique ==
    ASSUME NEW s \in Seq(Int), NEW g, NEW h, SumsUp(g, s),
           h[0] = 0, \A n \in 1..Len(s) : h[n] = h[n - 1] + s[n]
    PROVE  \A n \in 0..Len(s) : g[n] = h[n]
<1> DEFINE T == {m \in 0..Len(s) : g[m] # h[m]}
<1>1. Len(s) \in Nat
  BY LenProperties
<1>2. T = {}
  <2> SUFFICES ASSUME T # {} PROVE FALSE
    OBVIOUS
  <2>1. T \subseteq Nat
    BY <1>1
  <2>2. PICK m \in T : \A k \in T : m <= k
    <3> HIDE DEF T
    <3> QED
      BY <2>1, Smallest, Zenon
  <2>3. m \in 0..Len(s) /\ g[m] # h[m]
    OBVIOUS
  <2>4. m # 0
    BY <2>3 DEF SumsUp
  <2>5. m - 1 \in 0..Len(s) /\ ~ (m <= m - 1) /\ m \in 1..Len(s)
    BY <1>1, <2>3, <2>4
  <2>6. g[m - 1] = h[m - 1]
    BY <2>2, <2>5
  <2> QED
    BY <2>3, <2>5, <2>6 DEF SumsUp
<1> QED
  BY <1>2

LEMMA TotalIs ==
    ASSUME NEW s \in Seq(Int), NEW g, SumsUp(g, s)
    PROVE  Total(s) = g[Len(s)] /\ Total(s) \in Int
<1> DEFINE F(f) == [n \in 0..Len(s) |-> IF n = 0 THEN 0 ELSE f[n - 1] + s[n]]
           h == CHOOSE f : f = F(f)
<1>1. Len(s) \in Nat /\ \A n \in 1..Len(s) : s[n] \in Int
  BY LenProperties, ElementOfSeq
<1>2. g = F(g)
  BY <1>1 DEF SumsUp
<1> HIDE DEF F
<1>3. h = F(h)
  BY <1>2
<1>4. Total(s) = h[Len(s)]
  BY DEF Total, F
<1> HIDE DEF h
<1>5. h[0] = 0 /\ \A n \in 1..Len(s) : h[n] = h[n - 1] + s[n]
  BY <1>1, <1>3 DEF F
<1>6. \A n \in 0..Len(s) : g[n] = h[n]
  BY <1>5, SumsAreUnique
<1>7. Len(s) \in 0..Len(s)
  BY <1>1
<1> QED
  BY <1>4, <1>6, <1>7 DEF SumsUp

(* All the terms but one are nothing. *)
LEMMA TotalOfOne ==
    ASSUME NEW s \in Seq(Int), NEW k \in 1..Len(s), \A n \in 1..Len(s) : n # k => s[n] = 0
    PROVE  Total(s) = s[k]
<1> DEFINE g == [n \in 0..Len(s) |-> IF n < k THEN 0 ELSE s[k]]
<1>1. Len(s) \in Nat /\ s[k] \in Int
  BY LenProperties, ElementOfSeq
<1>2. SumsUp(g, s)
  BY <1>1 DEF SumsUp
<1>3. g[Len(s)] = s[k]
  BY <1>1
<1> HIDE DEF g
<1> QED
  BY <1>2, <1>3, TotalIs

LEMMA TotalIsNatural ==
    ASSUME NEW s \in Seq(Int), \A n \in 1..Len(s) : s[n] >= 0
    PROVE  Total(s) >= 0
<1>1. Len(s) \in Nat /\ \A n \in 1..Len(s) : s[n] \in Int
  BY LenProperties, ElementOfSeq
<1>2. PICK g : SumsUp(g, s)
  BY SumsExist
<1> DEFINE T == {m \in 0..Len(s) : ~(g[m] >= 0)}
<1>3. T = {}
  <2> SUFFICES ASSUME T # {} PROVE FALSE
    OBVIOUS
  <2>1. T \subseteq Nat
    BY <1>1
  <2>2. PICK m \in T : \A k \in T : m <= k
    <3> HIDE DEF T
    <3> QED
      BY <2>1, Smallest, Zenon
  <2>3. m \in 0..Len(s) /\ ~(g[m] >= 0)
    OBVIOUS
  <2>4. m # 0
    BY <1>2, <2>3 DEF SumsUp
  <2>5. m - 1 \in 0..Len(s) /\ ~ (m <= m - 1) /\ m \in 1..Len(s)
    BY <1>1, <2>3, <2>4
  <2>6. g[m - 1] >= 0
    BY <2>2, <2>5
  <2>7. g[m - 1] \in Int /\ g[m] = g[m - 1] + s[m] /\ s[m] \in Int /\ s[m] >= 0
    BY <1>1, <1>2, <2>5 DEF SumsUp
  <2> QED
    BY <2>3, <2>6, <2>7
<1>4. Len(s) \in 0..Len(s)
  BY <1>1
<1>5. g[Len(s)] >= 0
  BY <1>3, <1>4
<1> QED
  BY <1>2, <1>5, TotalIs

-----------------------------------------------------------------------------
(* What the types say of the parts. *)
LEMMA EventTypes ==
    ASSUME TypeOK
    PROVE  /\ Len(events) \in Nat /\ DOMAIN events = 1..Len(events)
           /\ DOMAIN eventRow = DOMAIN events
           /\ \A e \in DOMAIN events :
                 /\ events[e] \in Event /\ events[e].kind \in Kinds /\ events[e].sub \in Nat
                 /\ events[e].plan \in Plans /\ events[e].period \in Nat
                 /\ events[e].left \in 0..2
                 /\ eventRow[e] \in {"none", "inserted", "processed"}
           /\ Len(customer.subs) \in Nat /\ DOMAIN customer.subs = 1..Len(customer.subs)
           /\ customer.subs \in Seq([plan : Plans, live : BOOLEAN]) /\ customer.period \in Nat
           /\ \A s \in DOMAIN customer.subs : customer.subs[s] \in [plan : Plans, live : BOOLEAN]
<1>1. /\ events \in Seq(Event) /\ eventRow \in Seq({"none", "inserted", "processed"})
      /\ Len(eventRow) = Len(events)
      /\ customer.subs \in Seq([plan : Plans, live : BOOLEAN]) /\ customer.period \in Nat
  BY DEF TypeOK
<1>2. /\ Len(events) \in Nat /\ DOMAIN events = 1..Len(events)
      /\ \A e \in 1..Len(events) : events[e] \in Event
  BY <1>1, LenProperties, ElementOfSeq
<1>3. /\ DOMAIN eventRow = 1..Len(events)
      /\ \A e \in 1..Len(events) : eventRow[e] \in {"none", "inserted", "processed"}
  BY <1>1, LenProperties, ElementOfSeq
<1>4. /\ Len(customer.subs) \in Nat /\ DOMAIN customer.subs = 1..Len(customer.subs)
      /\ \A s \in 1..Len(customer.subs) : customer.subs[s] \in [plan : Plans, live : BOOLEAN]
  BY <1>1, LenProperties, ElementOfSeq
<1>5. \A x \in Event : /\ x.kind \in Kinds /\ x.sub \in Nat /\ x.plan \in Plans
                       /\ x.period \in Nat /\ x.left \in 0..2
  BY DEF Event
<1> QED
  BY <1>1, <1>2, <1>3, <1>4, <1>5

LEMMA TableTypes ==
    ASSUME TypeOK
    PROVE  /\ Len(subscriptions) \in Nat /\ DOMAIN subscriptions = 1..Len(subscriptions)
           /\ \A s \in DOMAIN subscriptions :
                 /\ subscriptions[s] \in Subscription /\ subscriptions[s].plan \in Plans
                 /\ subscriptions[s].stripe \in Nat
           /\ Len(cycles) \in Nat /\ DOMAIN cycles = 1..Len(cycles)
           /\ DOMAIN ledger = DOMAIN cycles /\ Len(ledger) = Len(cycles)
           /\ \A c \in DOMAIN cycles :
                 /\ cycles[c] \in Cycle /\ cycles[c].end \in Nat /\ cycles[c].sub \in Nat
                 /\ ledger[c] \in Allowance /\ ledger[c].allowance \in Int
                 /\ ledger[c].used \in Nat /\ ledger[c].expired \in Int
                 /\ Remaining(c) \in Int
           /\ extra.bought \in Nat /\ extra.used \in Nat /\ ExtraBalance \in Int
<1>1. /\ subscriptions \in Seq(Subscription) /\ cycles \in Seq(Cycle)
      /\ ledger \in Seq(Allowance) /\ Len(ledger) = Len(cycles)
      /\ extra \in [bought : Nat, used : Nat]
  BY DEF TypeOK
<1>2. /\ Len(subscriptions) \in Nat /\ DOMAIN subscriptions = 1..Len(subscriptions)
      /\ \A s \in 1..Len(subscriptions) : subscriptions[s] \in Subscription
  BY <1>1, LenProperties, ElementOfSeq
<1>3. /\ Len(cycles) \in Nat /\ DOMAIN cycles = 1..Len(cycles)
      /\ \A c \in 1..Len(cycles) : cycles[c] \in Cycle
  BY <1>1, LenProperties, ElementOfSeq
<1>4. /\ DOMAIN ledger = 1..Len(cycles)
      /\ \A c \in 1..Len(cycles) : ledger[c] \in Allowance
  BY <1>1, LenProperties, ElementOfSeq
<1>5. \A x \in Subscription : x.plan \in Plans /\ x.stripe \in Nat
  BY DEF Subscription
<1>6. \A x \in Cycle : x.end \in Nat /\ x.sub \in Nat
  BY DEF Cycle
<1>7. \A x \in Allowance : /\ x.allowance \in Int /\ x.used \in Nat /\ x.expired \in Int
                           /\ x.allowance - x.used \in Int
  BY DEF Allowance
<1>8. extra.bought \in Nat /\ extra.used \in Nat /\ ExtraBalance \in Int
  BY <1>1 DEF ExtraBalance
<1> QED
  BY <1>1, <1>2, <1>3, <1>4, <1>5, <1>6, <1>7, <1>8 DEF Remaining

LEMMA ActiveFacts ==
    ASSUME TypeOK
    PROVE  /\ Active = ActiveIn(subscriptions) /\ Active \subseteq DOMAIN subscriptions
           /\ IsFiniteSet(Active)
           /\ HasActive => Active = {CurrentActive} /\ CurrentActive \in DOMAIN subscriptions
<1>1. Active = ActiveIn(subscriptions) /\ Active \subseteq DOMAIN subscriptions
  BY DEF Active, ActiveIn
<1>2. IsFiniteSet(Active)
  <2>1. IsFiniteSet(1..Len(subscriptions)) /\ DOMAIN subscriptions = 1..Len(subscriptions)
    BY TableTypes, FS_Interval
  <2> QED
    BY <1>1, <2>1, FS_Subset
<1>3. HasActive => \E s : Active = {s}
  BY <1>2, FS_Singleton, Zenon DEF HasActive
<1>4. ASSUME NEW s, Active = {s} PROVE CurrentActive = s
  BY <1>4 DEF CurrentActive
<1> QED
  BY <1>1, <1>2, <1>3, <1>4

(* Of the cycles of a subscription, one ends last. *)
LEMMA LatestIn ==
    ASSUME NEW cs \in Seq(Cycle), NEW s, NEW bound \in Nat, CyclesIn(cs, s) # {},
           \A c \in DOMAIN cs : cs[c].end <= bound
    PROVE  /\ Latest(cs, s) \in CyclesIn(cs, s)
           /\ \A d \in CyclesIn(cs, s) : cs[d].end <= cs[Latest(cs, s)].end
<1> DEFINE T == {bound - cs[c].end : c \in CyclesIn(cs, s)}
<1>1. \A c \in CyclesIn(cs, s) : cs[c].end \in Nat /\ cs[c].end <= bound
  <2>1. DOMAIN cs = 1..Len(cs) /\ \A c \in 1..Len(cs) : cs[c] \in Cycle
    BY LenProperties, ElementOfSeq
  <2>2. \A x \in Cycle : x.end \in Nat
    BY DEF Cycle
  <2> QED
    BY <2>1, <2>2 DEF CyclesIn
<1>2. T \subseteq Nat /\ T # {}
  BY <1>1
<1>3. PICK n \in T : \A m \in T : n <= m
  <2> HIDE DEF T
  <2> QED
    BY <1>2, Smallest, Zenon
<1>4. PICK c \in CyclesIn(cs, s) : n = bound - cs[c].end
  OBVIOUS
<1>5. \A d \in CyclesIn(cs, s) : bound - cs[c].end <= bound - cs[d].end
  BY <1>3, <1>4
<1>6. \A d \in CyclesIn(cs, s) : cs[d].end <= cs[c].end
  BY <1>1, <1>5
<1> HIDE DEF T
<1> QED
  BY <1>6 DEF Latest

LEMMA LatestFacts ==
    ASSUME TypeOK, CycleInv, NEW s \in DOMAIN subscriptions
    PROVE  /\ MostRecentCycle(s) = Latest(cycles, s)
           /\ Latest(cycles, s) \in DOMAIN cycles /\ cycles[Latest(cycles, s)].sub = s
           /\ \A d \in DOMAIN cycles : cycles[d].sub = s => cycles[d].end <= cycles[Latest(cycles, s)].end
<1>1. MostRecentCycle(s) = Latest(cycles, s) /\ CyclesOf(s) = CyclesIn(cycles, s)
  BY DEF MostRecentCycle, Latest, CyclesOf, CyclesIn
<1>2. cycles \in Seq(Cycle) /\ CyclesIn(cycles, s) # {} /\ customer.period \in Nat
      /\ \A c \in DOMAIN cycles : cycles[c].end <= customer.period
  BY <1>1, EventTypes DEF TypeOK, CycleInv
<1>3. /\ Latest(cycles, s) \in CyclesIn(cycles, s)
      /\ \A d \in CyclesIn(cycles, s) : cycles[d].end <= cycles[Latest(cycles, s)].end
  BY <1>2, LatestIn
<1> QED
  BY <1>1, <1>3 DEF CyclesIn

(* Cycles that follow one another: the one that ends last is the last. *)
LEMMA LatestIsLast ==
    ASSUME NEW cs, NEW s, NEW c \in CyclesIn(cs, s),
           \A d \in CyclesIn(cs, s) : cs[d].end \in Nat /\ (d # c => cs[d].end < cs[c].end)
    PROVE  Latest(cs, s) = c
<1>1. \A d \in CyclesIn(cs, s) : cs[d].end <= cs[c].end
  OBVIOUS
<1>2. Latest(cs, s) \in CyclesIn(cs, s)
      /\ \A d \in CyclesIn(cs, s) : cs[d].end <= cs[Latest(cs, s)].end
  BY <1>1 DEF Latest
<1> QED
  BY <1>2

(* The balance of the plans is a number; where all cycles but one are settled
   it is what is left of that one, and where all are, it is nothing. *)
LEMMA BalanceFacts ==
    ASSUME TypeOK
    PROVE  /\ PlanBalance \in Int
           /\ (\A c \in DOMAIN cycles : Remaining(c) - ledger[c].expired >= 0) => PlanBalance >= 0
           /\ \A k \in DOMAIN cycles : (\A c \in DOMAIN cycles : c # k => Settled(c)) =>
                 PlanBalance = Remaining(k) - ledger[k].expired
<1> DEFINE s == [c \in DOMAIN ledger |-> Remaining(c) - ledger[c].expired]
<1>1. PlanBalance = Total(s)
  BY DEF PlanBalance
<1>2. /\ Len(ledger) \in Nat /\ DOMAIN ledger = 1..Len(ledger) /\ DOMAIN cycles = DOMAIN ledger
      /\ \A c \in DOMAIN ledger : Remaining(c) \in Int /\ ledger[c].expired \in Int
  BY TableTypes
<1>3. s \in Seq(Int) /\ Len(s) = Len(ledger)
  BY <1>2
<1>4. \A c \in DOMAIN ledger : s[c] = Remaining(c) - ledger[c].expired
  OBVIOUS
<1> HIDE DEF s
<1>5. PlanBalance \in Int
  BY <1>1, <1>3, SumsExist, TotalIs
<1>6. ASSUME \A c \in DOMAIN cycles : Remaining(c) - ledger[c].expired >= 0
      PROVE  PlanBalance >= 0
  BY <1>1, <1>2, <1>3, <1>4, <1>6, TotalIsNatural
<1>7. ASSUME NEW k \in DOMAIN cycles, \A c \in DOMAIN cycles : c # k => Settled(c)
      PROVE  PlanBalance = Remaining(k) - ledger[k].expired
  <2>1. k \in 1..Len(s) /\ \A n \in 1..Len(s) : n # k => s[n] = 0
    BY <1>2, <1>3, <1>4, <1>7 DEF Settled
  <2>2. Total(s) = s[k]
    BY <1>3, <2>1, TotalOfOne
  <2> QED
    BY <1>1, <1>2, <1>4, <1>7, <2>2
<1> QED
  BY <1>5, <1>6, <1>7

-----------------------------------------------------------------------------
(* What the handlers prepare. *)
LEMMA ExpireFacts ==
    ASSUME TypeOK, NEW t \in Transactions, NEW c \in DOMAIN cycles
    PROVE  LET u == ExpireRemaining(t, c)
           IN  /\ u \in Transactions /\ u.event = t.event /\ u.committed = t.committed
               /\ u.known = t.known /\ u.subscriptions = t.subscriptions
               /\ u.closes = c /\ u.expires = Remaining(c)
               /\ u.opens = t.opens /\ u.grant = t.grant /\ u.buys = t.buys
<1>1. c \in Nat /\ Remaining(c) \in Int
  BY TableTypes
<1> QED
  BY <1>1 DEF ExpireRemaining, Transactions

Created(u, t, event, allowance) ==
    /\ u \in Transactions /\ u.event = t.event /\ u.committed = t.committed
    /\ u.subscriptions = Append(t.subscriptions, Row(event))
    /\ u.closes = t.closes /\ u.expires = t.expires
    /\ u.opens = Opens(Len(t.subscriptions) + 1, event)
    /\ u.grant = allowance /\ u.buys = t.buys

LEMMA CreateFacts ==
    ASSUME NEW t \in Transactions, NEW event \in Event, NEW allowance \in Int
    PROVE  Created(CreateSubscription(t, event, allowance), t, event, allowance)
<1>u. PICK u : u = CreateSubscription(t, event, allowance)
  OBVIOUS
<1>1. t.subscriptions \in Seq(Subscription) /\ Len(t.subscriptions) \in Nat
  BY LenProperties DEF Transactions
<1>2. Row(event) \in Subscription
  BY DEF Row, Event, Subscription, Status
<1>3. Append(t.subscriptions, Row(event)) \in Seq(Subscription)
  BY <1>1, <1>2, AppendProperties
<1>4. [sub |-> Len(t.subscriptions) + 1, end |-> event.period] \in Cycle
  BY <1>1 DEF Event, Cycle
<1>5. Opens(Len(t.subscriptions) + 1, event) \in Seq(Cycle)
  BY <1>4 DEF Opens
<1> DEFINE rows == Append(t.subscriptions, Row(event))
           opens == Opens(Len(t.subscriptions) + 1, event)
<1>6. u = [t EXCEPT !.subscriptions = rows, !.opens = opens, !.grant = allowance]
  BY <1>u DEF CreateSubscription, Row, Opens, Transactions
<1>7. rows \in Seq(Subscription) /\ opens \in Seq(Cycle)
  BY <1>3, <1>5
<1> HIDE DEF rows, opens
<1>8. /\ u \in Transactions /\ u.event = t.event /\ u.committed = t.committed
      /\ u.subscriptions = rows /\ u.closes = t.closes /\ u.expires = t.expires
      /\ u.opens = opens /\ u.grant = allowance /\ u.buys = t.buys
  BY <1>6, <1>7 DEF Transactions
<1> QED
  BY <1>u, <1>8 DEF rows, opens, Created

LEMMA TransactionFacts ==
    ASSUME TypeOK, NEW e \in DOMAIN events
    PROVE  LET t == Transaction(e)
           IN  /\ t \in Transactions /\ t.event = e /\ ~t.committed
               /\ t.known = known /\ t.subscriptions = subscriptions
               /\ t.closes = 0 /\ t.expires = 0 /\ t.opens = <<>> /\ t.grant = 0 /\ t.buys = 0
<1>1. e \in Nat \ {0} /\ known \in BOOLEAN /\ subscriptions \in Seq(Subscription)
      /\ <<>> \in Seq(Cycle)
  BY EventTypes DEF TypeOK
<1> QED
  BY <1>1 DEF Transaction, Transactions

LEMMA EndedFacts ==
    ASSUME NEW rows \in Seq(Subscription), NEW s \in DOMAIN rows, NEW status \in Status
    PROVE  /\ Ended(rows, s, status) \in Seq(Subscription)
           /\ DOMAIN Ended(rows, s, status) = DOMAIN rows
           /\ Len(Ended(rows, s, status)) = Len(rows)
           /\ \A u \in DOMAIN rows :
                 /\ Ended(rows, s, status)[u].stripe = rows[u].stripe
                 /\ Ended(rows, s, status)[u].plan = rows[u].plan
                 /\ Ended(rows, s, status)[u].status = IF u = s THEN status ELSE rows[u].status
<1>1. Len(rows) \in Nat /\ DOMAIN rows = 1..Len(rows)
      /\ \A u \in DOMAIN rows : rows[u] \in Subscription
  BY LenProperties, ElementOfSeq
<1>2. [rows[s] EXCEPT !.status = status] \in Subscription
      /\ [rows[s] EXCEPT !.status = status].stripe = rows[s].stripe
      /\ [rows[s] EXCEPT !.status = status].plan = rows[s].plan
      /\ [rows[s] EXCEPT !.status = status].status = status
  BY <1>1 DEF Subscription
<1> DEFINE row == [rows[s] EXCEPT !.status = status]
<1>3. Ended(rows, s, status) = [rows EXCEPT ![s] = row]
  BY DEF Ended
<1> HIDE DEF row
<1>4. /\ [rows EXCEPT ![s] = row] \in Seq(Subscription)
      /\ Len([rows EXCEPT ![s] = row]) = Len(rows)
      /\ \A u \in 1..Len(rows) : [rows EXCEPT ![s] = row][u] = IF u = s THEN row ELSE rows[u]
  BY <1>1, <1>2, ExceptSeq DEF row
<1>5. DOMAIN [rows EXCEPT ![s] = row] = DOMAIN rows
  OBVIOUS
<1> QED
  BY <1>1, <1>2, <1>3, <1>4, <1>5 DEF row

(* An upgrade adds no less than nothing. *)
LEMMA ProrationFacts ==
    ASSUME NEW current \in Plans, NEW event \in Event, NEW remaining \in Int
    PROVE  LET credits == CreditsToAdd(current, remaining, event)
           IN  /\ credits \in Int
               /\ remaining >= 0 /\ Price[current] <= Price[event.plan] => credits >= 0
<1>1. /\ event.plan \in Plans /\ event.left \in 0..2
      /\ Included[current] \in Nat /\ Included[event.plan] \in Nat
      /\ Price[current] <= Price[event.plan] => Included[current] <= Included[event.plan]
  BY PlansAssumption DEF Event
<1> DEFINE Cents(n, left) == (n * left + 1) \div 2
<1>2. ASSUME NEW n \in Nat, NEW left \in 0..2
      PROVE  Cents(n, left) = IF left = 0 THEN 0 ELSE IF left = 1 THEN (n + 1) \div 2 ELSE n
  <2>1. left = 0 \/ left = 1 \/ left = 2
    OBVIOUS
  <2>2. n * 0 = 0 /\ n * 1 = n /\ n * 2 = n + n /\ (0 + 1) \div 2 = 0 /\ (n + n + 1) \div 2 = n
    OBVIOUS
  <2> QED
    BY <2>1, <2>2
<1>3. ASSUME NEW m \in Nat, NEW n \in Nat, NEW left \in 0..2
      PROVE  /\ Cents(n, left) \in Nat
             /\ m <= n => Cents(m, left) <= Cents(n, left)
  <2>1. /\ (n + 1) \div 2 \in Nat
        /\ m <= n => (m + 1) \div 2 <= (n + 1) \div 2
    OBVIOUS
  <2>2. /\ Cents(n, left) = IF left = 0 THEN 0 ELSE IF left = 1 THEN (n + 1) \div 2 ELSE n
        /\ Cents(m, left) = IF left = 0 THEN 0 ELSE IF left = 1 THEN (m + 1) \div 2 ELSE m
    BY <1>2
  <2> HIDE DEF Cents
  <2> QED
    BY <2>1, <2>2
<1>4. /\ CentsToCredits(current, event.left) = Cents(Included[current], event.left)
      /\ CentsToCredits(event.plan, event.left) = Cents(Included[event.plan], event.left)
  BY DEF CentsToCredits
<1> HIDE DEF Cents
<1>5. /\ CentsToCredits(current, event.left) \in Nat
      /\ CentsToCredits(event.plan, event.left) \in Nat
      /\ Price[current] <= Price[event.plan] =>
            CentsToCredits(current, event.left) <= CentsToCredits(event.plan, event.left)
  BY <1>1, <1>3, <1>4
<1> QED
  BY <1>5 DEF CreditsToAdd

WithStatus(t, s, status) == [t EXCEPT !.subscriptions[s].status = status]

LEMMA StatusFacts ==
    ASSUME NEW t \in Transactions, NEW s \in DOMAIN t.subscriptions, NEW status \in Status,
           NEW u, u = WithStatus(t, s, status)
    PROVE  /\ u \in Transactions /\ u.event = t.event /\ u.committed = t.committed
           /\ u.subscriptions = Ended(t.subscriptions, s, status)
           /\ u.closes = t.closes /\ u.expires = t.expires
           /\ u.opens = t.opens /\ u.grant = t.grant /\ u.buys = t.buys
<1> DEFINE rows == Ended(t.subscriptions, s, status)
<1>1. t.subscriptions \in Seq(Subscription)
  BY DEF Transactions
<1>2. rows \in Seq(Subscription)
  BY <1>1, EndedFacts
<1>3. u = [t EXCEPT !.subscriptions = rows]
  BY DEF Ended, Transactions, WithStatus
<1> HIDE DEF rows
<1>4. /\ u \in Transactions /\ u.event = t.event /\ u.committed = t.committed
      /\ u.subscriptions = rows /\ u.closes = t.closes /\ u.expires = t.expires
      /\ u.opens = t.opens /\ u.grant = t.grant /\ u.buys = t.buys
  BY <1>2, <1>3 DEF Transactions
<1> QED
  BY <1>4 DEF rows

(* What is true of the transaction of an event: what it does to the rows, and
   that it expires what is left and grants nothing negative. *)
Prepared(e, t) ==
    /\ t \in Transactions /\ t.event = e
    /\ \A clean \in BOOLEAN :
          (clean /\ events[e].kind = "deleted" => Cardinality(RowsOf(events[e].sub)) <= 1) =>
              Shape(t, events[e], subscriptions, cycles, clean)
    /\ t.closes # 0 => t.expires = Remaining(t.closes)
    /\ (\A s \in Active : Remaining(Latest(cycles, s)) >= 0) /\ t.opens # <<>> => t.grant >= 0

LEMMA SimplePrepared ==
    ASSUME TypeOK, NEW e \in DOMAIN events, NEW t \in Transactions, t.event = e, ~t.committed,
           t.subscriptions = subscriptions, t.closes = 0, t.opens = <<>>,
           events[e].kind \in {"signup", "purchase"},
           t.buys = IF events[e].kind = "purchase" THEN Reload ELSE 0
    PROVE  Prepared(e, t)
BY DEF Prepared, Shape

LEMMA CreatePrepared ==
    ASSUME TypeOK, NEW e \in DOMAIN events, events[e].kind = "create",
           NEW t, t = CreateSubscription(Transaction(e), events[e], Included[events[e].plan])
    PROVE  Prepared(e, t)
<1>1. events[e] \in Event /\ events[e].plan \in Plans
  BY EventTypes
<1>2. Included[events[e].plan] \in Int /\ Included[events[e].plan] >= 0
  BY <1>1, PlansAssumption
<1> DEFINE base == Transaction(e)
<1>3. /\ base \in Transactions /\ base.event = e /\ ~base.committed
      /\ base.subscriptions = subscriptions /\ base.closes = 0 /\ base.buys = 0
  BY TransactionFacts
<1> DEFINE event == events[e]
           grant == Included[event.plan]
<1>4. t = CreateSubscription(base, event, grant)
  OBVIOUS
<1>5. event \in Event /\ grant \in Int
  BY <1>1, <1>2
<1> HIDE DEF base, event, grant
<1>6. /\ t \in Transactions /\ t.event = base.event /\ t.committed = base.committed
      /\ t.subscriptions = Append(base.subscriptions, Row(event))
      /\ t.closes = base.closes /\ t.expires = base.expires
      /\ t.opens = Opens(Len(base.subscriptions) + 1, event)
      /\ t.grant = grant /\ t.buys = base.buys
  <2>1. base \in Transactions /\ event \in Event /\ grant \in Int
    BY <1>3, <1>5
  <2>2. Created(t, base, event, grant)
    BY <1>4, <2>1, CreateFacts
  <2> QED
    BY <2>2 DEF Created
<1>7. /\ t \in Transactions /\ t.event = e /\ ~t.committed
      /\ t.subscriptions = Append(subscriptions, Row(events[e]))
      /\ t.closes = 0 /\ t.opens = Opens(Len(subscriptions) + 1, events[e])
      /\ t.grant = Included[events[e].plan] /\ t.buys = 0
  BY <1>3, <1>6 DEF event, grant
<1> QED
  BY <1>2, <1>7 DEF Prepared, Shape

LEMMA CyclePrepared ==
    ASSUME TypeOK, CycleInv, NEW e \in DOMAIN events, events[e].kind = "cycle", HasActive,
           NEW t, t = CreateSubscriptionCycle(Transaction(e), events[e], CurrentActive)
    PROVE  Prepared(e, t)
<1>1. PICK s \in DOMAIN subscriptions : s = CurrentActive /\ ActiveIn(subscriptions) = {s}
  BY ActiveFacts
<1>2. /\ MostRecentCycle(s) = Latest(cycles, s) /\ Latest(cycles, s) \in DOMAIN cycles
      /\ Latest(cycles, s) # 0
  BY LatestFacts, TableTypes
<1>3. events[e] \in Event /\ events[e].plan \in Plans
  BY EventTypes
<1>4. Included[events[e].plan] \in Int /\ Included[events[e].plan] >= 0
  BY <1>3, PlansAssumption
<1> DEFINE c == Latest(cycles, s)
           u == ExpireRemaining(Transaction(e), c)
           opens == Opens(s, events[e])
           grant == Included[events[e].plan]
<1>5. /\ u \in Transactions /\ u.event = e /\ ~u.committed /\ u.subscriptions = subscriptions
      /\ u.closes = c /\ u.expires = Remaining(c) /\ u.buys = 0
  BY <1>2, TransactionFacts, ExpireFacts
<1>6. opens \in Seq(Cycle)
  <2>1. [sub |-> s, end |-> events[e].period] \in Cycle
    BY <1>3, TableTypes DEF Event, Cycle
  <2> QED
    BY <2>1 DEF Opens
<1>7. t = [u EXCEPT !.opens = opens, !.grant = grant]
  BY <1>1, <1>2 DEF CreateSubscriptionCycle, Opens
<1> HIDE DEF u, opens, grant, c
<1>8. /\ t \in Transactions /\ t.event = u.event /\ t.committed = u.committed
      /\ t.subscriptions = u.subscriptions /\ t.closes = u.closes /\ t.expires = u.expires
      /\ t.opens = opens /\ t.grant = grant /\ t.buys = u.buys
  BY <1>4, <1>5, <1>6, <1>7 DEF Transactions, grant
<1>9. \A clean \in BOOLEAN : Shape(t, events[e], subscriptions, cycles, clean)
  BY <1>1, <1>5, <1>8 DEF Shape, opens, c
<1> QED
  BY <1>4, <1>5, <1>8, <1>9 DEF Prepared, grant

LEMMA UpdatePrepared ==
    ASSUME TypeOK, CycleInv, NEW e \in DOMAIN events, events[e].kind = "update", HasActive,
           NEW t, t = UpdateSubscription(Transaction(e), events[e], CurrentActive)
    PROVE  Prepared(e, t)
<1>1. PICK s \in DOMAIN subscriptions : s = CurrentActive /\ ActiveIn(subscriptions) = {s}
  BY ActiveFacts
<1>2. /\ MostRecentCycle(s) = Latest(cycles, s) /\ Latest(cycles, s) \in DOMAIN cycles
      /\ Latest(cycles, s) # 0 /\ Remaining(Latest(cycles, s)) \in Int
  BY LatestFacts, TableTypes
<1>3. events[e] \in Event /\ events[e].plan \in Plans /\ subscriptions[s].plan \in Plans
      /\ subscriptions \in Seq(Subscription)
  BY EventTypes, TableTypes DEF TypeOK
<1> DEFINE c == Latest(cycles, s)
           current == subscriptions[s].plan
           grant == IF Price[current] > Price[events[e].plan] THEN Included[events[e].plan]
                    ELSE CreditsToAdd(current, Remaining(c), events[e])
           u == ExpireRemaining(Transaction(e), c)
           ended == [u EXCEPT !.subscriptions[s].status = "ended_due_to_plan_change"]
<1>4. grant \in Int /\ (Remaining(c) >= 0 => grant >= 0)
  <2>1. Price[current] \in Nat /\ Price[events[e].plan] \in Nat /\ Included[events[e].plan] \in Nat
    BY <1>3, PlansAssumption
  <2>2. /\ CreditsToAdd(current, Remaining(c), events[e]) \in Int
        /\ Remaining(c) >= 0 /\ Price[current] <= Price[events[e].plan] =>
              CreditsToAdd(current, Remaining(c), events[e]) >= 0
    BY <1>2, <1>3, ProrationFacts
  <2> QED
    BY <2>1, <2>2
<1>5. /\ u \in Transactions /\ u.event = e /\ ~u.committed /\ u.subscriptions = subscriptions
      /\ u.closes = c /\ u.expires = Remaining(c) /\ u.buys = 0
  BY <1>2, TransactionFacts, ExpireFacts
<1>6. t = CreateSubscription(ended, events[e], grant)
  BY <1>1, <1>2 DEF UpdateSubscription
<1> HIDE DEF u, grant, c
<1>7. /\ ended \in Transactions /\ ended.event = e /\ ~ended.committed
      /\ ended.subscriptions = Ended(subscriptions, s, "ended_due_to_plan_change")
      /\ ended.closes = c /\ ended.expires = Remaining(c) /\ ended.buys = 0
  <2> DEFINE status == "ended_due_to_plan_change"
  <2>1. status \in Status /\ s \in DOMAIN u.subscriptions /\ u \in Transactions
    BY <1>5 DEF Status
  <2>2. ended = WithStatus(u, s, status)
    BY DEF WithStatus
  <2> HIDE DEF ended, status
  <2>3. /\ ended \in Transactions /\ ended.event = u.event /\ ended.committed = u.committed
        /\ ended.subscriptions = Ended(u.subscriptions, s, status)
        /\ ended.closes = u.closes /\ ended.expires = u.expires /\ ended.buys = u.buys
    BY <2>1, <2>2, StatusFacts, SMTT(30)
  <2> QED
    BY <1>5, <2>3 DEF status
<1>8. Len(Ended(subscriptions, s, "ended_due_to_plan_change")) = Len(subscriptions)
  BY <1>3, EndedFacts DEF Status
<1> DEFINE event == events[e]
<1>12. event \in Event /\ t = CreateSubscription(ended, event, grant)
  BY <1>3, <1>6
<1> HIDE DEF ended, event
<1>13. /\ t \in Transactions /\ t.event = ended.event /\ t.committed = ended.committed
       /\ t.subscriptions = Append(ended.subscriptions, Row(event))
       /\ t.closes = ended.closes /\ t.expires = ended.expires
       /\ t.opens = Opens(Len(ended.subscriptions) + 1, event)
       /\ t.grant = grant /\ t.buys = ended.buys
  <2>1. ended \in Transactions /\ grant \in Int
    BY <1>4, <1>7
  <2>2. Created(t, ended, event, grant)
    BY <1>12, <2>1, CreateFacts
  <2> QED
    BY <2>2 DEF Created
<1>9. /\ t \in Transactions /\ t.event = e /\ ~t.committed
      /\ t.subscriptions = Append(Ended(subscriptions, s, "ended_due_to_plan_change"), Row(events[e]))
      /\ t.closes = c /\ t.expires = Remaining(c)
      /\ t.opens = Opens(Len(subscriptions) + 1, events[e])
      /\ t.grant = grant /\ t.buys = 0
  BY <1>7, <1>8, <1>13 DEF event
<1>10. \A clean \in BOOLEAN : Shape(t, events[e], subscriptions, cycles, clean)
  BY <1>1, <1>9 DEF Shape, c
<1>11. (\A x \in Active : Remaining(Latest(cycles, x)) >= 0) => grant >= 0
  BY <1>1, <1>4, ActiveFacts DEF c
<1> QED
  BY <1>9, <1>10, <1>11 DEF Prepared

LEMMA DeletePrepared ==
    ASSUME TypeOK, CycleInv, NEW e \in DOMAIN events, events[e].kind = "deleted",
           NEW s \in RowsOf(events[e].sub),
           NEW t, t = DeleteSubscription(Transaction(e), events[e], s)
    PROVE  Prepared(e, t)
<1>1. s \in DOMAIN subscriptions /\ subscriptions[s].stripe = events[e].sub
  BY DEF RowsOf
<1>2. /\ MostRecentCycle(s) = Latest(cycles, s) /\ Latest(cycles, s) \in DOMAIN cycles
      /\ Latest(cycles, s) # 0
  BY <1>1, LatestFacts, TableTypes
<1> DEFINE c == Latest(cycles, s)
           status == IF events[e].reason = "cancellation_requested" THEN "canceled" ELSE "expired"
           u == ExpireRemaining(Transaction(e), c)
<1>3. /\ u \in Transactions /\ u.event = e /\ ~u.committed /\ u.subscriptions = subscriptions
      /\ u.closes = c /\ u.expires = Remaining(c) /\ u.buys = 0 /\ u.opens = <<>>
  BY <1>2, TransactionFacts, ExpireFacts
<1>4. t = WithStatus(u, s, status) /\ status \in {"canceled", "expired"}
  BY <1>2 DEF DeleteSubscription, WithStatus
<1> HIDE DEF u, c, status
<1>5. /\ t \in Transactions /\ t.event = e /\ ~t.committed
      /\ t.subscriptions = Ended(subscriptions, s, status)
      /\ t.closes = c /\ t.expires = Remaining(c) /\ t.opens = <<>> /\ t.buys = 0
  <2>1. status \in Status /\ s \in DOMAIN u.subscriptions /\ u \in Transactions
    BY <1>1, <1>3, <1>4 DEF Status
  <2>2. /\ t \in Transactions /\ t.event = u.event /\ t.committed = u.committed
        /\ t.subscriptions = Ended(u.subscriptions, s, status)
        /\ t.closes = u.closes /\ t.expires = u.expires /\ t.opens = u.opens /\ t.buys = u.buys
    BY <1>4, <2>1, StatusFacts, SMTT(30)
  <2> QED
    BY <1>3, <2>2
<1>6. ASSUME NEW clean \in BOOLEAN, clean => Cardinality(RowsOf(events[e].sub)) <= 1
      PROVE  Shape(t, events[e], subscriptions, cycles, clean)
  <2>1. ASSUME clean, NEW x \in DOMAIN subscriptions, subscriptions[x].stripe = events[e].sub
        PROVE  x = s
    <3> DEFINE rows == RowsOf(events[e].sub)
    <3>1. IsFiniteSet(1..Len(subscriptions)) /\ DOMAIN subscriptions = 1..Len(subscriptions)
      BY TableTypes, FS_Interval
    <3>2. IsFiniteSet(rows)
      BY <3>1, FS_Subset DEF RowsOf
    <3>3. s \in rows /\ x \in rows
      BY <2>1 DEF RowsOf
    <3>4. Cardinality(rows) <= 1
      BY <1>6, <2>1
    <3> HIDE DEF rows
    <3>5. s # x => Cardinality({s, x}) = 2
      <4>1. IsFiniteSet({s}) /\ Cardinality({s}) = 1
        BY FS_Singleton
      <4>2. s # x => Cardinality({s} \cup {x}) = Cardinality({s}) + 1
        BY <4>1, FS_AddElement
      <4>3. {s} \cup {x} = {s, x}
        OBVIOUS
      <4> QED
        BY <4>1, <4>2, <4>3
    <3>6. Cardinality({s, x}) <= Cardinality(rows) /\ Cardinality(rows) \in Nat
      BY <3>2, <3>3, FS_Subset, FS_CardinalityType
    <3> QED
      BY <3>4, <3>5, <3>6
  <2> QED
    BY <1>1, <1>4, <1>5, <2>1 DEF Shape, c
<1> QED
  BY <1>5, <1>6 DEF Prepared

LEMMA HandlingPrepared ==
    ASSUME TypeOK, CycleInv, NEW e \in DOMAIN events, NEW t, Handling(e, t)
    PROVE  Prepared(e, t)
<1> DEFINE base == Transaction(e)
<1>1. /\ base \in Transactions /\ base.event = e /\ ~base.committed
      /\ base.subscriptions = subscriptions /\ base.closes = 0 /\ base.buys = 0
      /\ base.opens = <<>>
  BY TransactionFacts
<1>2. ASSUME events[e].kind = "signup", t = [base EXCEPT !.known = TRUE] PROVE Prepared(e, t)
  <2> HIDE DEF base
  <2>1. /\ t \in Transactions /\ t.event = e /\ ~t.committed
        /\ t.subscriptions = subscriptions /\ t.closes = 0 /\ t.buys = 0 /\ t.opens = <<>>
    BY <1>1, <1>2 DEF Transactions
  <2> QED
    BY <1>2, <2>1, SimplePrepared
<1>3. ASSUME events[e].kind = "purchase", t = [base EXCEPT !.buys = Reload] PROVE Prepared(e, t)
  <2> HIDE DEF base
  <2>1. /\ t \in Transactions /\ t.event = e /\ ~t.committed
        /\ t.subscriptions = subscriptions /\ t.closes = 0 /\ t.buys = Reload /\ t.opens = <<>>
    BY <1>1, <1>3, AmountsAssumption DEF Transactions
  <2> QED
    BY <1>3, <2>1, SimplePrepared
<1> QED
  BY <1>2, <1>3, CreatePrepared, CyclePrepared, UpdatePrepared, DeletePrepared
     DEF Handling

-----------------------------------------------------------------------------
(* Steps that leave Stripe, the subscriptions and their cycles alone. *)
LEMMA Frame ==
    ASSUME Inv, UNCHANGED <<customer, events, subscriptions, cycles>>, mishaps \subseteq mishaps',
           \A e \in DOMAIN events : Handled(e)' <=> Handled(e),
           extra'.bought = extra.bought,
           \/ tx' = tx /\ eventRow' = eventRow
           \/ tx' = NoTx
    PROVE  /\ EventInv' /\ TxInv' /\ CycleInv' /\ OrderInv' /\ RowInv'
           /\ PurchasesAreCreditedOnce'
<1>1. \A which : Clean(which)' => Clean(which)
  BY DEF Clean, CleanLedger
<1>2. EventInv'
  BY DEF Inv, EventInv
<1>3. TxInv'
  <2>1. CASE tx' = NoTx
    BY <2>1 DEF TxInv, Open
  <2>2. CASE tx' = tx /\ eventRow' = eventRow
    <3>1. Open(tx)' = Open(tx)
      BY <2>2 DEF Open
    <3>2. ASSUME NEW t, NEW event, Shape(t, event, subscriptions, cycles, Clean({"ambiguous"}))
          PROVE  Shape(t, event, subscriptions, cycles, Clean({"ambiguous"})')
      BY <1>1, <3>2 DEF Shape
    <3> QED
      BY <2>2, <3>1, <3>2 DEF Inv, TxInv
  <2> QED
    BY <2>1, <2>2
<1>4. CycleInv'
  BY DEF Inv, CycleInv, CyclesOf
<1>5. OrderInv'
  <2>1. CASE tx' = NoTx
    BY <1>1, <2>1, EventTypes DEF Inv, OrderInv, InOrder, Open
  <2>2. CASE tx' = tx /\ eventRow' = eventRow
    BY <1>1, <2>2 DEF Inv, OrderInv, InOrder, Open, Handled
  <2> QED
    BY <2>1, <2>2
<1>6. RowInv'
  <2>1. \A x : Lasts(x)' <=> Lasts(x)
    BY DEF Lasts
  <2>2. \A x, plan : PlanTold(x, plan) => PlanTold(x, plan)'
    BY DEF PlanTold
  <2> QED
    BY <1>1, <2>1, <2>2 DEF Inv, RowInv, Active
<1>7. PurchasesAreCreditedOnce'
  <2>1. {e \in DOMAIN events : events[e].kind = "purchase" /\ eventRow[e] # "none"}' =
           {e \in DOMAIN events : events[e].kind = "purchase" /\ eventRow[e] # "none"}
    BY DEF Handled
  <2> QED
    BY <2>1 DEF Inv, PurchasesAreCreditedOnce
<1> QED
  BY <1>2, <1>3, <1>4, <1>5, <1>6, <1>7

LEMMA InitInv == Init => Inv /\ CreditInv
<1> SUFFICES ASSUME Init PROVE Inv /\ CreditInv
  OBVIOUS
<1>1. /\ events = <<>> /\ eventRow = <<>> /\ subscriptions = <<>> /\ cycles = <<>> /\ ledger = <<>>
      /\ customer.subs = <<>> /\ customer.period = 1 /\ tx = NoTx /\ mishaps = {}
      /\ extra.bought = 0 /\ extra.used = 0
      /\ \A a \in Answers : answer[a] = "idle" /\ spend[a] = NoSpend
  BY DEF Init
<1>2. Len(<<>>) = 0 /\ DOMAIN <<>> = {}
  OBVIOUS
<1>3. ~Open(tx) /\ tx.event = 0
  BY <1>1 DEF Open, NoTx
<1>4. TypeOK
  <2>1. /\ customer \in [subs : Seq([plan : Plans, live : BOOLEAN]), period : Nat]
        /\ extra \in [bought : Nat, used : Nat]
    BY DEF Init
  <2>2. spend \in [Answers -> {NoSpend} \cup Spending]
        /\ answer \in [Answers -> {"idle", "asking", "generating", "tracking", "over"}]
    BY DEF Init
  <2>3. failures \in 0..MaxFailures /\ known \in BOOLEAN
    <3>1. failures = 0 /\ known = FALSE
      BY DEF Init
    <3>2. MaxFailures \in Nat
      BY BoundsAssumption
    <3>3. 0 \in 0..MaxFailures
      BY <3>2
    <3> QED
      BY <3>1, <3>3
  <2> QED
    BY <1>1, <1>2, <1>3, <2>1, <2>2, <2>3 DEF TypeOK
<1>5. PurchasesAreCreditedOnce
  <2>1. {e \in DOMAIN events : events[e].kind = "purchase" /\ eventRow[e] # "none"} = {}
    BY <1>1, <1>2
  <2>2. Reload * 0 = 0
    BY AmountsAssumption
  <2> QED
    BY <1>1, <2>1, <2>2, FS_EmptySet DEF PurchasesAreCreditedOnce
<1>6. EventInv /\ TxInv /\ CycleInv /\ OrderInv
  BY <1>1, <1>2, <1>3 DEF EventInv, Told, TxInv, CycleInv, OrderInv, InOrder
<1>7. RowInv /\ ExtraInv
  BY <1>1, <1>2 DEF RowInv, ExtraInv, Active, ActiveIn, Lasts, Tracking, ExtraBalance
<1>8. CreditInv
  BY <1>1, <1>2, <1>3 DEF CreditInv, LedgerInv, PendingInv, CleanLedger, Active, ActiveIn
<1> QED
  BY <1>4, <1>5, <1>6, <1>7, <1>8 DEF Inv

-----------------------------------------------------------------------------
(* The steps of the AI bot. *)
LEMMA MoveInv ==
    ASSUME Inv, CreditInv, NEW a \in Answers,
           NEW where \in {"asking", "generating", "tracking", "over"},
           Goto(a, where), answer[a] # where, UNCHANGED spend, BotOnly, spend[a] = NoSpend,
           where = "tracking" => Tracking = {}
    PROVE  Inv' /\ CreditInv'
<1>0. TypeOK
  BY DEF Inv
<1>1. /\ answer' = [answer EXCEPT ![a] = where]
      /\ UNCHANGED <<customer, events, eventRow, known, subscriptions, cycles, ledger,
                     extra, tx, spend, mishaps, failures>>
  BY DEF Goto, BotOnly, stripe, tables
<1>2. TypeOK'
  <2>1. /\ answer' \in [Answers -> {"idle", "asking", "generating", "tracking", "over"}]
        /\ \A b \in Answers : spend[b] # NoSpend => answer'[b] = answer[b]
    BY <1>0, <1>1 DEF TypeOK
  <2> QED
    BY <1>0, <1>1, <2>1 DEF TypeOK
<1>3. /\ EventInv' /\ TxInv' /\ CycleInv' /\ OrderInv' /\ RowInv'
      /\ PurchasesAreCreditedOnce'
  BY <1>1, Frame DEF Handled
<1>4. ExtraInv'
  <2>1. \A b, c \in Tracking' : b = c
    BY <1>0, <1>1 DEF Tracking, Inv, ExtraInv, TypeOK
  <2>2. \A b \in Answers : spend[b] # NoSpend => answer'[b] = answer[b]
    BY <1>0, <1>1 DEF TypeOK
  <2> QED
    BY <1>1, <2>1, <2>2 DEF Inv, ExtraInv, ExtraBalance, Clean
<1>5. CreditInv'
  BY <1>1 DEF CreditInv, LedgerInv, PendingInv, CleanLedger, Clean, Handled,
         Settled, Remaining, Active, Open
<1> QED
  BY <1>2, <1>3, <1>4, <1>5 DEF Inv

(* What spendCredits finds. *)
LEMMA SpendInv ==
    ASSUME Inv, CreditInv, NEW a \in Answers, SpendCredits(a)
    PROVE  Inv' /\ CreditInv'
<1>0. TypeOK /\ CycleInv
  BY DEF Inv
<1>1. /\ answer[a] = "tracking" /\ spend[a] = NoSpend /\ HasActive
      /\ spend' = [spend EXCEPT ![a] = Spend]
      /\ UNCHANGED <<customer, events, eventRow, known, subscriptions, cycles, ledger,
                     extra, tx, answer, mishaps, failures>>
  BY DEF SpendCredits, BotOnly, stripe, tables
<1>2. PICK s \in DOMAIN subscriptions : s = CurrentActive /\ Active = {s}
  BY <1>0, <1>1, ActiveFacts
<1>3. /\ MostRecentCycle(s) = Latest(cycles, s)
      /\ Latest(cycles, s) \in DOMAIN cycles /\ Latest(cycles, s) \in Nat \ {0}
      /\ Latest(cycles, s) <= Len(cycles)
  BY <1>0, LatestFacts, TableTypes
<1>4. PlanBalance \in Int /\ ExtraBalance \in Int /\ Cost \in Nat
  BY <1>0, BalanceFacts, TableTypes, AmountsAssumption
<1>5. /\ Spend \in Spending /\ Spend.cycle = Latest(cycles, s)
      /\ ExtraBalance >= 0 => Spend.extra <= ExtraBalance
      /\ Spend.plan <= PlanBalance \/ Spend.plan = 0
  <2>1. Spend.cycle = Latest(cycles, s)
    BY <1>2, <1>3 DEF Spend
  <2>2. /\ Spend.plan \in Nat /\ Spend.extra \in Nat
        /\ ExtraBalance >= 0 => Spend.extra <= ExtraBalance
        /\ Spend.plan <= PlanBalance \/ Spend.plan = 0
    BY <1>4 DEF Spend
  <2>3. Spend = [cycle |-> Spend.cycle, plan |-> Spend.plan, extra |-> Spend.extra]
    BY DEF Spend
  <2> QED
    BY <1>3, <2>1, <2>2, <2>3 DEF Spending
<1> DEFINE new == Spend
<1>6. spend' = [spend EXCEPT ![a] = new] /\ new \in Spending
  BY <1>1, <1>5
<1> HIDE DEF new
<1>7. TypeOK'
  <2>1. spend' \in [Answers -> {NoSpend} \cup Spending]
    BY <1>0, <1>6 DEF TypeOK
  <2>2. \A b \in Answers : spend'[b] # NoSpend =>
           answer[b] \in {"tracking", "over"} /\ spend'[b].cycle <= Len(cycles)
    BY <1>0, <1>1, <1>3, <1>5, <1>6 DEF TypeOK, new
  <2> QED
    BY <1>0, <1>1, <2>1, <2>2 DEF TypeOK
<1>8. /\ EventInv' /\ TxInv' /\ CycleInv' /\ OrderInv' /\ RowInv'
      /\ PurchasesAreCreditedOnce'
  BY <1>1, Frame DEF Handled
<1>9. ExtraInv'
  <2>1. Clean({"leaked"}) => \A b \in Answers : spend'[b] # NoSpend =>
           answer[b] = "tracking" /\ spend'[b].extra <= ExtraBalance
    <3>1. \A b \in Answers : spend'[b] = IF b = a THEN new ELSE spend[b]
      BY <1>0, <1>6 DEF TypeOK
    <3>2. ExtraBalance >= 0 => new.extra <= ExtraBalance
      BY <1>5 DEF new
    <3> QED
      BY <1>1, <3>1, <3>2 DEF Inv, ExtraInv
  <2>2. ExtraBalance' = ExtraBalance /\ Tracking' = Tracking
    BY <1>1 DEF ExtraBalance, Tracking
  <2> QED
    BY <1>1, <2>1, <2>2 DEF Inv, ExtraInv, Clean
<1>10. CreditInv'
  <2> SUFFICES ASSUME CleanLedger'
               PROVE  CreditInv'
    BY DEF CreditInv, LedgerInv, PendingInv, CleanLedger
  <2>1. CleanLedger
    BY <1>1 DEF Clean, CleanLedger
  <2>2. new.cycle = Latest(cycles, s) /\ new.plan <= Remaining(new.cycle)
    <3>1. \A c \in DOMAIN cycles : c # Latest(cycles, s) => Settled(c)
      BY <1>2, <2>1 DEF CreditInv, LedgerInv, PendingInv, CleanLedger
    <3>2. PlanBalance = Remaining(Latest(cycles, s)) - ledger[Latest(cycles, s)].expired
      BY <1>0, <1>3, <3>1, BalanceFacts
    <3>3. ledger[Latest(cycles, s)].expired = 0 /\ Remaining(Latest(cycles, s)) >= 0
      BY <1>2, <2>1 DEF CreditInv, LedgerInv, PendingInv, CleanLedger
    <3>4. Remaining(Latest(cycles, s)) \in Int
      BY <1>0, <1>3, TableTypes
    <3>5. PlanBalance = Remaining(Latest(cycles, s))
      BY <3>2, <3>3, <3>4
    <3> QED
      BY <1>4, <1>5, <3>3, <3>5 DEF new
  <2>3. \A b \in Answers : spend'[b] # NoSpend =>
           \E u \in Active : /\ Active = {u} /\ spend'[b].cycle = Latest(cycles, u)
                             /\ spend'[b].plan <= Remaining(spend'[b].cycle)
    <3>1. \A b \in Answers : b # a => spend'[b] = spend[b]
      BY <1>0, <1>6 DEF TypeOK
    <3>2. spend'[a] = new
      BY <1>0, <1>6 DEF TypeOK
    <3> QED
      BY <1>2, <2>1, <2>2, <3>1, <3>2
         DEF CreditInv, LedgerInv, PendingInv, CleanLedger
  <2> QED
    BY <1>1, <2>1, <2>3 DEF CreditInv, LedgerInv, PendingInv, CleanLedger,
           Handled, Settled, Remaining, Active, Open
<1> QED
  BY <1>7, <1>8, <1>9, <1>10 DEF Inv

(* The transaction of a cost ends: if none was left open before, none is open
   any more, as two costs are never being tracked. *)
LEMMA OneSpend ==
    ASSUME Inv, NEW a \in Answers, spend[a] # NoSpend,
           answer' = [answer EXCEPT ![a] = "over"], spend' = [spend EXCEPT ![a] = NoSpend]
    PROVE  /\ \A b \in Answers : spend'[b] # NoSpend => spend'[b] = spend[b] /\ answer'[b] = answer[b]
           /\ Clean({"leaked"}) => \A b \in Answers : spend'[b] = NoSpend
           /\ spend' \in [Answers -> {NoSpend} \cup Spending]
           /\ answer' \in [Answers -> {"idle", "asking", "generating", "tracking", "over"}]
           /\ Tracking' \subseteq Tracking
<1>1. TypeOK
  BY DEF Inv
<1>2. \A b \in Answers : /\ spend'[b] = IF b = a THEN NoSpend ELSE spend[b]
                         /\ answer'[b] = IF b = a THEN "over" ELSE answer[b]
  BY <1>1 DEF TypeOK
<1>3. Clean({"leaked"}) => \A b \in Answers : spend[b] # NoSpend => b = a
  BY DEF Inv, ExtraInv, Tracking
<1>4. /\ spend' \in [Answers -> {NoSpend} \cup Spending]
      /\ answer' \in [Answers -> {"idle", "asking", "generating", "tracking", "over"}]
  BY <1>1 DEF TypeOK
<1>5. Tracking' \subseteq Tracking
  BY <1>2 DEF Tracking
<1> QED
  BY <1>2, <1>3, <1>4, <1>5

(* What is taken from the cycle k, and of the extra credits. *)
LEMMA ChargeFacts ==
    ASSUME TypeOK, NEW k \in DOMAIN cycles, NEW plan \in Nat, NEW more \in Nat,
           ledger' = [ledger EXCEPT ![k].used = @ + plan],
           extra' = [extra EXCEPT !.used = @ + more]
    PROVE  /\ ledger' \in Seq(Allowance) /\ Len(ledger') = Len(cycles)
           /\ \A c \in DOMAIN cycles :
                 /\ ledger'[c].allowance = ledger[c].allowance /\ ledger'[c].expired = ledger[c].expired
                 /\ ledger'[c].used = IF c = k THEN ledger[c].used + plan ELSE ledger[c].used
           /\ extra' \in [bought : Nat, used : Nat] /\ extra'.bought = extra.bought
           /\ extra'.used = extra.used + more
<1> DEFINE row == ledger[k]
           used == row.used + plan
           entry == [row EXCEPT !.used = used]
           taken == extra.used + more
<1>1. /\ ledger \in Seq(Allowance) /\ Len(ledger) = Len(cycles) /\ DOMAIN ledger = 1..Len(cycles)
      /\ DOMAIN cycles = 1..Len(cycles) /\ row \in Allowance /\ row.used \in Nat
  BY TableTypes DEF TypeOK
<1>2. used \in Nat /\ ledger' = [ledger EXCEPT ![k] = entry]
  BY <1>1
<1>3. taken \in Nat /\ extra \in [bought : Nat, used : Nat] /\ extra' = [extra EXCEPT !.used = taken]
  BY TableTypes, SMTT(60) DEF TypeOK
<1> HIDE DEF used, taken
<1>4. /\ extra' \in [bought : Nat, used : Nat] /\ extra'.bought = extra.bought
      /\ extra'.used = taken
  BY <1>3
<1>5. /\ entry \in Allowance /\ entry.used = used
      /\ entry.allowance = row.allowance /\ entry.expired = row.expired
  <2> HIDE DEF row
  <2> QED
    BY <1>1, <1>2 DEF Allowance
<1> HIDE DEF entry
<1>6. /\ ledger' \in Seq(Allowance) /\ Len(ledger') = Len(cycles)
      /\ \A c \in DOMAIN cycles : ledger'[c] = IF c = k THEN entry ELSE ledger[c]
  BY <1>1, <1>2, <1>5, ExceptSeq, SMTT(60)
<1> QED
  BY <1>4, <1>5, <1>6 DEF used, taken

LEMMA CommitSpendInv ==
    ASSUME Inv, CreditInv, NEW a \in Answers, CommitSpend(a)
    PROVE  Inv' /\ CreditInv'
<1>0. TypeOK /\ CycleInv
  BY DEF Inv
<1>k. PICK k, plan, more : k = spend[a].cycle /\ plan = spend[a].plan /\ more = spend[a].extra
  OBVIOUS
<1>1. /\ spend[a] # NoSpend /\ ledger' = [ledger EXCEPT ![k].used = @ + plan]
      /\ extra' = [extra EXCEPT !.used = @ + more]
      /\ answer' = [answer EXCEPT ![a] = "over"]
      /\ spend' = [spend EXCEPT ![a] = NoSpend]
      /\ mishaps' = mishaps \cup Overlap(Open(tx))
      /\ UNCHANGED <<customer, events, eventRow, known, subscriptions, cycles, tx, failures>>
  BY <1>k DEF CommitSpend, Goto, stripe
<1>2. k \in DOMAIN cycles /\ plan \in Nat /\ more \in Nat
  <2>1. spend[a] \in Spending /\ spend[a].cycle <= Len(cycles)
    BY <1>0, <1>1 DEF TypeOK
  <2> QED
    BY <1>0, <1>k, <2>1, TableTypes DEF Spending
<1>3. /\ \A b \in Answers : spend'[b] # NoSpend => spend'[b] = spend[b] /\ answer'[b] = answer[b]
      /\ Clean({"leaked"}) => \A b \in Answers : spend'[b] = NoSpend
      /\ spend' \in [Answers -> {NoSpend} \cup Spending]
      /\ answer' \in [Answers -> {"idle", "asking", "generating", "tracking", "over"}]
      /\ Tracking' \subseteq Tracking
  BY <1>1, OneSpend
<1>4. /\ ledger' \in Seq(Allowance) /\ Len(ledger') = Len(cycles)
      /\ \A c \in DOMAIN cycles :
            /\ ledger'[c].allowance = ledger[c].allowance /\ ledger'[c].expired = ledger[c].expired
            /\ ledger'[c].used = IF c = k THEN ledger[c].used + plan ELSE ledger[c].used
      /\ extra' \in [bought : Nat, used : Nat] /\ extra'.bought = extra.bought
      /\ extra'.used = extra.used + more
  BY <1>0, <1>1, <1>2, ChargeFacts
<1>7. /\ mishaps' \subseteq Mishap /\ mishaps \subseteq mishaps'
      /\ \A which : Clean(which)' => Clean(which)
  BY <1>0, <1>1 DEF TypeOK, Overlap, Mishap, Clean
<1>8. TypeOK'
  BY <1>0, <1>1, <1>3, <1>4, <1>7 DEF TypeOK
<1>9. /\ EventInv' /\ TxInv' /\ CycleInv' /\ OrderInv' /\ RowInv'
      /\ PurchasesAreCreditedOnce'
  BY <1>1, <1>4, <1>7, Frame DEF Handled
<1>10. ExtraInv'
  <2>1. Clean({"leaked"}) => more <= ExtraBalance
    BY <1>k, <1>1 DEF Inv, ExtraInv
  <2>2. extra.bought \in Nat /\ extra.used \in Nat
    BY <1>0, TableTypes
  <2>3. Clean({"leaked"}) => ExtraBalance' >= 0
    BY <1>2, <1>4, <2>1, <2>2 DEF ExtraBalance
  <2> QED
    BY <1>3, <1>7, <2>3 DEF Inv, ExtraInv
<1>11. CreditInv'
  <2> SUFFICES ASSUME CleanLedger'
               PROVE  CreditInv'
    BY DEF CreditInv, LedgerInv, PendingInv, CleanLedger
  <2>1. CleanLedger /\ ~Open(tx) /\ Clean({"leaked"})
    BY <1>1 DEF Clean, CleanLedger, Overlap
  <2>2. PICK s \in Active : Active = {s} /\ k = Latest(cycles, s) /\ plan <= Remaining(k)
    BY <1>k, <1>1, <2>1 DEF CreditInv, LedgerInv, PendingInv, CleanLedger
  <2>3. Active' = Active /\ ~Open(tx)'
    BY <1>1, <2>1 DEF Active, Open
  <2>4. \A c \in DOMAIN cycles : c # k => Settled(c)' = Settled(c)
    BY <1>4 DEF Settled, Remaining
  <2>5. \A c \in DOMAIN cycles : (\A u \in Active' : c # Latest(cycles, u)) => Settled(c)'
    BY <2>1, <2>2, <2>3, <2>4 DEF CreditInv, LedgerInv, PendingInv, CleanLedger
  <2>6. ledger'[k].expired = 0 /\ ledger'[k].allowance - ledger'[k].used >= 0
    <3>1. ledger[k].expired = 0
      BY <2>1, <2>2 DEF CreditInv, LedgerInv, PendingInv, CleanLedger
    <3>2. plan <= ledger[k].allowance - ledger[k].used
      BY <2>2 DEF Remaining
    <3>3. ledger[k].allowance \in Int /\ ledger[k].used \in Nat
      BY <1>0, <1>2, TableTypes
    <3>4. ledger'[k].expired = ledger[k].expired /\ ledger'[k].allowance = ledger[k].allowance
          /\ ledger'[k].used = ledger[k].used + plan /\ plan \in Nat
      BY <1>2, <1>4
    <3> QED
      BY <3>1, <3>2, <3>3, <3>4
  <2>7. \A u \in Active' : /\ ledger'[Latest(cycles', u)].expired = 0
                           /\ ledger'[Latest(cycles', u)].allowance - ledger'[Latest(cycles', u)].used >= 0
    BY <1>1, <2>2, <2>3, <2>6
  <2> QED
    BY <1>1, <1>3, <2>1, <2>3, <2>5, <2>7
       DEF CreditInv, LedgerInv, PendingInv, CleanLedger, Handled, Remaining
<1> QED
  BY <1>8, <1>9, <1>10, <1>11 DEF Inv

LEMMA SpendFailsInv ==
    ASSUME Inv, CreditInv, NEW a \in Answers, SpendFails(a)
    PROVE  Inv' /\ CreditInv'
<1>0. TypeOK
  BY DEF Inv
<1>1. /\ spend[a] # NoSpend /\ answer' = [answer EXCEPT ![a] = "over"]
      /\ spend' = [spend EXCEPT ![a] = NoSpend] /\ failures' = failures + 1
      /\ failures < MaxFailures
      /\ UNCHANGED <<customer, events, eventRow, known, subscriptions, cycles, ledger,
                     extra, tx, mishaps>>
  BY DEF SpendFails, Goto, stripe, tables
<1>2. /\ \A b \in Answers : spend'[b] # NoSpend => spend'[b] = spend[b] /\ answer'[b] = answer[b]
      /\ Clean({"leaked"}) => \A b \in Answers : spend'[b] = NoSpend
      /\ spend' \in [Answers -> {NoSpend} \cup Spending]
      /\ answer' \in [Answers -> {"idle", "asking", "generating", "tracking", "over"}]
      /\ Tracking' \subseteq Tracking
  BY <1>1, OneSpend
<1>3. failures' \in 0..MaxFailures
  BY <1>0, <1>1, BoundsAssumption DEF TypeOK
<1>4. TypeOK'
  BY <1>0, <1>1, <1>2, <1>3 DEF TypeOK
<1>5. /\ EventInv' /\ TxInv' /\ CycleInv' /\ OrderInv' /\ RowInv'
      /\ PurchasesAreCreditedOnce'
  BY <1>1, Frame DEF Handled
<1>6. ExtraInv'
  BY <1>1, <1>2 DEF Inv, ExtraInv, ExtraBalance, Clean
<1>7. CreditInv'
  <2>1. CleanLedger => Clean({"leaked"})
    BY DEF CleanLedger, Clean
  <2> QED
    BY <1>1, <1>2, <2>1 DEF CreditInv, LedgerInv, PendingInv, CleanLedger, Clean,
           Handled, Settled, Remaining, Active, Open
<1> QED
  BY <1>4, <1>5, <1>6, <1>7 DEF Inv

(* Part of a cost is charged, and the rest left in an open transaction: what
   the invariant says of costs does not hold any more, the rest does. *)
LEMMA StraySpendInv ==
    ASSUME Inv, CreditInv, NEW a \in Answers, StraySpend(a)
    PROVE  Inv' /\ CreditInv'
<1>0. TypeOK
  BY DEF Inv
<1>k. PICK k : k = spend[a].cycle
  OBVIOUS
<1>1. PICK plan \in {0, spend[a].plan} : \E more \in {0, spend[a].extra} :
          /\ ledger' = [ledger EXCEPT ![k].used = @ + plan]
          /\ extra' = [extra EXCEPT !.used = @ + more]
          /\ spend' = [spend EXCEPT ![a].plan = @ - plan, ![a].extra = @ - more]
  BY <1>k DEF StraySpend
<1>2. PICK more \in {0, spend[a].extra} :
          /\ ledger' = [ledger EXCEPT ![k].used = @ + plan]
          /\ extra' = [extra EXCEPT !.used = @ + more]
          /\ spend' = [spend EXCEPT ![a].plan = @ - plan, ![a].extra = @ - more]
  BY <1>1
<1>3. /\ spend[a] # NoSpend /\ failures < MaxFailures /\ failures' = failures + 1
      /\ answer' = [answer EXCEPT ![a] = "over"]
      /\ mishaps' = mishaps \cup {"leaked"} \cup Overlap(Open(tx))
      /\ UNCHANGED <<customer, events, eventRow, known, subscriptions, cycles, tx>>
  BY DEF StraySpend, Goto, stripe
<1>4. /\ spend[a] \in Spending /\ k \in DOMAIN cycles /\ k <= Len(cycles)
      /\ spend[a].plan \in Nat /\ spend[a].extra \in Nat
      /\ plan \in Nat /\ more \in Nat
  <2>1. spend[a] \in Spending /\ spend[a].cycle <= Len(cycles)
    BY <1>0, <1>3 DEF TypeOK
  <2>2. /\ spend[a].cycle \in Nat \ {0} /\ spend[a].plan \in Nat /\ spend[a].extra \in Nat
    BY <2>1 DEF Spending
  <2> QED
    BY <1>0, <1>k, <2>1, <2>2, TableTypes
<1>5. /\ ledger' \in Seq(Allowance) /\ Len(ledger') = Len(cycles)
      /\ extra' \in [bought : Nat, used : Nat] /\ extra'.bought = extra.bought
  BY <1>0, <1>2, <1>4, ChargeFacts
<1> DEFINE old == spend[a]
           left == old.plan - plan
           other == old.extra - more
           rest == [old EXCEPT !.plan = left, !.extra = other]
<1>6. left \in Nat /\ other \in Nat
  BY <1>4
<1>7. spend' = [spend EXCEPT ![a] = rest]
  BY <1>2
<1>8. rest \in Spending /\ rest.cycle = k
  <2>1. old \in Spending /\ old.cycle = k
    BY <1>k, <1>4
  <2> HIDE DEF old, left, other
  <2> QED
    BY <1>6, <2>1 DEF Spending
<1> HIDE DEF rest
<1>9. /\ spend' \in [Answers -> {NoSpend} \cup Spending]
      /\ answer' \in [Answers -> {"idle", "asking", "generating", "tracking", "over"}]
      /\ \A b \in Answers : /\ spend'[b] = IF b = a THEN rest ELSE spend[b]
                            /\ answer'[b] = IF b = a THEN "over" ELSE answer[b]
  BY <1>0, <1>3, <1>7, <1>8 DEF TypeOK
<1>10. /\ mishaps' \subseteq Mishap /\ mishaps \subseteq mishaps' /\ "leaked" \in mishaps'
       /\ failures' \in 0..MaxFailures
  BY <1>0, <1>3, BoundsAssumption DEF TypeOK, Overlap, Mishap
<1>11. TypeOK'
  BY <1>0, <1>3, <1>4, <1>5, <1>8, <1>9, <1>10 DEF TypeOK
<1>12. /\ EventInv' /\ TxInv' /\ CycleInv' /\ OrderInv' /\ RowInv'
       /\ PurchasesAreCreditedOnce'
  BY <1>3, <1>5, <1>10, Frame DEF Handled
<1>13. ~Clean({"leaked"})' /\ ~CleanLedger'
  BY <1>10 DEF Clean, CleanLedger
<1>14. ExtraInv'
  BY <1>9, <1>13 DEF Inv, ExtraInv, Tracking
<1> QED
  BY <1>11, <1>12, <1>13, <1>14 DEF Inv, CreditInv, LedgerInv, PendingInv

LEMMA BotInv ==
    ASSUME Inv, CreditInv, NEW a \in Answers,
           Message(a) \/ Ask(a) \/ TrackAiUsageCost(a) \/ SkipUsage(a)
    PROVE  Inv' /\ CreditInv'
<1>0. TypeOK
  BY DEF Inv
<1>1. ASSUME Message(a) PROVE Inv' /\ CreditInv'
  <2>1. spend[a] = NoSpend
    BY <1>0, <1>1 DEF Message, TypeOK
  <2> QED
    BY <1>1, <2>1, MoveInv DEF Message
<1>2. ASSUME Ask(a) PROVE Inv' /\ CreditInv'
  <2>1. spend[a] = NoSpend
    BY <1>0, <1>2 DEF Ask, TypeOK
  <2>2. Goto(a, "generating") \/ Goto(a, "over")
    BY <1>2 DEF Ask
  <2> QED
    BY <1>2, <2>1, <2>2, MoveInv DEF Ask
<1>3. ASSUME TrackAiUsageCost(a) PROVE Inv' /\ CreditInv'
  <2>1. spend[a] = NoSpend
    BY <1>0, <1>3 DEF TrackAiUsageCost, TypeOK
  <2>2. (Goto(a, "tracking") /\ Tracking = {}) \/ Goto(a, "over")
    BY <1>3 DEF TrackAiUsageCost
  <2> QED
    BY <1>3, <2>1, <2>2, MoveInv DEF TrackAiUsageCost
<1>4. ASSUME SkipUsage(a) PROVE Inv' /\ CreditInv'
  BY <1>4, MoveInv DEF SkipUsage
<1> QED
  BY <1>1, <1>2, <1>3, <1>4

-----------------------------------------------------------------------------
(* The ends of the webhook's transactions. *)
LEMMA MarkInv ==
    ASSUME Inv, CreditInv, MarkAsProcessed
    PROVE  Inv' /\ CreditInv'
<1>0. TypeOK /\ NoTx.committed = FALSE
  BY DEF Inv, NoTx
<1> DEFINE e == tx.event
<1>1. /\ tx.committed /\ eventRow' = [eventRow EXCEPT ![e] = "processed"] /\ tx' = NoTx
      /\ UNCHANGED <<customer, events, known, subscriptions, cycles, ledger,
                     extra, answer, spend, mishaps, failures>>
  BY DEF MarkAsProcessed, stripe, tables, bot
<1>2. Open(tx) /\ eventRow[e] = "inserted"
  BY <1>0, <1>1 DEF Open, Inv, TxInv
<1>3. eventRow \in Seq({"none", "inserted", "processed"}) /\ Len(eventRow) = Len(events)
      /\ e \in 0..Len(events) /\ e \in Nat \ {0}
  BY <1>0, <1>2 DEF TypeOK, Open, Transactions
<1>4. DOMAIN eventRow = 1..Len(eventRow) /\ e \in 1..Len(eventRow) /\ DOMAIN events = DOMAIN eventRow
      /\ Len(eventRow) \in Nat
  BY <1>0, <1>3, EventTypes
<1>5. /\ eventRow' \in Seq({"none", "inserted", "processed"}) /\ Len(eventRow') = Len(eventRow)
      /\ \A d \in DOMAIN events : eventRow'[d] = IF d = e THEN "processed" ELSE eventRow[d]
  BY <1>1, <1>3, <1>4, ExceptSeq
<1>6. \A d \in DOMAIN events : Handled(d)' <=> Handled(d)
  BY <1>2, <1>5 DEF Handled
<1>7. TypeOK'
  <2>1. tx' \in {NoTx} \cup Transactions /\ tx'.event \in 0..Len(events)
    <3>1. NoTx.event = 0 /\ Len(events) \in Nat
      BY <1>0, EventTypes DEF NoTx
    <3> QED
      BY <1>1, <3>1
  <2> QED
    BY <1>0, <1>1, <1>3, <1>5, <2>1 DEF TypeOK
<1>8. /\ EventInv' /\ TxInv' /\ CycleInv' /\ OrderInv' /\ RowInv'
      /\ PurchasesAreCreditedOnce'
  BY <1>1, <1>6, Frame
<1>9. ExtraInv'
  BY <1>1 DEF Inv, ExtraInv, ExtraBalance, Tracking, Clean
<1>10. CreditInv'
  BY <1>1, <1>6 DEF CreditInv, LedgerInv, PendingInv, CleanLedger, Clean,
         Settled, Remaining, Active, Open
<1> QED
  BY <1>7, <1>8, <1>9, <1>10 DEF Inv

LEMMA HandlerFailsInv ==
    ASSUME Inv, CreditInv, HandlerFails
    PROVE  Inv' /\ CreditInv'
<1>0. TypeOK
  BY DEF Inv
<1>1. /\ failures < MaxFailures /\ failures' = failures + 1 /\ tx' = NoTx
      /\ mishaps' = mishaps \cup IF tx.committed THEN {"unmarked"} ELSE {}
      /\ UNCHANGED <<customer, events, eventRow, known, subscriptions, cycles, ledger,
                     extra, answer, spend>>
  BY DEF HandlerFails, stripe, tables, bot
<1>2. mishaps' \subseteq Mishap /\ mishaps \subseteq mishaps'
  BY <1>0, <1>1 DEF TypeOK, Mishap
<1>3. failures' \in 0..MaxFailures
  BY <1>0, <1>1, BoundsAssumption DEF TypeOK
<1>4. TypeOK'
  <2>1. tx' \in {NoTx} \cup Transactions /\ tx'.event \in 0..Len(events)
    <3>1. NoTx.event = 0 /\ Len(events) \in Nat
      BY <1>0, EventTypes DEF NoTx
    <3> QED
      BY <1>1, <3>1
  <2> QED
    BY <1>0, <1>1, <1>2, <1>3, <2>1 DEF TypeOK
<1>5. /\ EventInv' /\ TxInv' /\ CycleInv' /\ OrderInv' /\ RowInv'
      /\ PurchasesAreCreditedOnce'
  BY <1>1, <1>2, Frame DEF Handled
<1>6. ExtraInv'
  BY <1>1 DEF Inv, ExtraInv, ExtraBalance, Tracking, Clean
<1>7. CreditInv'
  <2>1. \A which : Clean(which)' => Clean(which)
    BY <1>2 DEF Clean, CleanLedger
  <2> QED
    BY <1>1, <2>1 DEF CreditInv, LedgerInv, PendingInv, CleanLedger, Handled,
           Settled, Remaining, Active, Open
<1> QED
  BY <1>4, <1>5, <1>6, <1>7 DEF Inv

-----------------------------------------------------------------------------
(* What Stripe tells, one event at a time. *)
Account == [plan : Plans, live : BOOLEAN]

(* What the event x does to the subscriptions. *)
Tells(subs, period, x, subs2) ==
    \/ x.kind \in {"signup", "purchase"} /\ subs2 = subs
    \/ /\ x.kind = "create" /\ x.sub = Len(subs) + 1
       /\ subs2 = Append(subs, [plan |-> x.plan, live |-> TRUE])
    \/ /\ x.kind \in {"cycle", "update", "deleted"} /\ x.sub \in DOMAIN subs /\ subs[x.sub].live
       /\ DOMAIN subs2 = DOMAIN subs
       /\ \A s \in DOMAIN subs :
             /\ subs2[s].live <=> subs[s].live /\ ~(x.kind = "deleted" /\ s = x.sub)
             /\ subs2[s].plan = IF x.kind = "update" /\ s = x.sub THEN x.plan ELSE subs[s].plan
       /\ x.kind = "cycle" => period < x.period

LEMMA OneMore ==
    ASSUME NEW es \in Seq(Event), NEW x \in Event, NEW subs \in Seq(Account), NEW subs2 \in Seq(Account),
           NEW period \in Nat, NEW period2 \in Nat, Told(subs, period, es),
           period <= period2, x.period <= period2, Tells(subs, period, x, subs2)
    PROVE  Told(subs2, period2, Append(es, x))
<1> DEFINE new == Append(es, x)
           n == Len(es) + 1
<1>1. /\ Len(es) \in Nat /\ DOMAIN new = 1..n /\ DOMAIN es = 1..Len(es)
      /\ \A e \in DOMAIN es : new[e] = es[e]
      /\ new[n] = x
  BY AppendFacts
<1>2. /\ n \in Nat \ {0} /\ n \notin DOMAIN es /\ DOMAIN new = DOMAIN es \cup {n}
      /\ \A e \in DOMAIN es : 1..(e - 1) \subseteq DOMAIN es
      /\ 1..(n - 1) = DOMAIN es
      /\ \A e \in DOMAIN es : e < n /\ ~(n < e) /\ e \in Nat
  BY <1>1
<1>3. \A e \in DOMAIN es : es[e].period \in Nat /\ es[e].sub \in Nat
  <2>1. \A y \in Event : y.period \in Nat /\ y.sub \in Nat
    BY DEF Event
  <2> QED
    BY <1>1, <2>1, ElementOfSeq
<1>4. x.period \in Nat /\ x.plan \in Plans
  BY DEF Event
<1>5. Len(subs) \in Nat /\ DOMAIN subs = 1..Len(subs)
  BY LenProperties
<1>6. DOMAIN subs \subseteq DOMAIN subs2
      /\ (x.kind \notin {"signup", "purchase"} => x.sub \in DOMAIN subs2)
      /\ \A s \in DOMAIN subs2 :
            s \in DOMAIN subs \/ (x.kind = "create" /\ s = x.sub /\ subs2[s].live
                                 /\ subs2[s].plan = x.plan)
  <2>1. CASE x.kind = "create"
    <3> DEFINE account == [plan |-> x.plan, live |-> TRUE]
    <3>1. x.sub = Len(subs) + 1 /\ subs2 = Append(subs, account)
      BY <2>1 DEF Tells
    <3>2. account \in Account /\ account.live /\ account.plan = x.plan
      BY <1>4 DEF Account
    <3> HIDE DEF account
    <3>3. DOMAIN subs2 = 1..(Len(subs) + 1) /\ subs2[Len(subs) + 1] = account
      BY <3>1, <3>2, AppendFacts
    <3> QED
      BY <1>5, <2>1, <3>1, <3>2, <3>3
  <2>2. CASE x.kind # "create"
    BY <2>2 DEF Tells
  <2> QED
    BY <2>1, <2>2
<1>7. ASSUME NEW s \in DOMAIN subs
      PROVE  /\ subs2[s].live <=> subs[s].live /\ ~(x.kind = "deleted" /\ s = x.sub)
             /\ subs2[s].plan = IF SetsPlan(x, s) THEN x.plan ELSE subs[s].plan
  <2>1. CASE x.kind = "create"
    <3>1. subs2 = Append(subs, [plan |-> x.plan, live |-> TRUE]) /\ x.sub = Len(subs) + 1
      BY <2>1 DEF Tells
    <3>2. [plan |-> x.plan, live |-> TRUE] \in Account
      BY <1>4 DEF Account
    <3>3. subs2[s] = subs[s] /\ s # x.sub
      BY <1>5, <3>1, <3>2, AppendFacts
    <3> QED
      BY <2>1, <3>3 DEF SetsPlan
  <2>2. CASE x.kind # "create"
    BY <2>2 DEF Tells, SetsPlan
  <2> QED
    BY <2>1, <2>2
<1> HIDE DEF new, n
<1>8. ASSUME NEW e \in DOMAIN new
      PROVE  /\ new[e].kind \notin {"signup", "purchase"} => new[e].sub \in DOMAIN subs2
             /\ new[e].period <= period2
             /\ new[e].kind \in {"cycle", "update", "deleted"} =>
                   /\ \E d \in 1..(e - 1) : new[d].kind = "create" /\ new[d].sub = new[e].sub
                   /\ ~\E d \in 1..(e - 1) : new[d].kind = "deleted" /\ new[d].sub = new[e].sub
             /\ new[e].kind = "cycle" => \A d \in 1..(e - 1) : new[d].period < new[e].period
  <2>1. CASE e \in DOMAIN es
    <3>1. new[e] = es[e] /\ \A d \in 1..(e - 1) : new[d] = es[d]
      BY <1>1, <1>2, <2>1
    <3>2. es[e].period <= period /\ es[e].period \in Nat
      BY <1>3, <2>1 DEF Told
    <3>3. es[e].period <= period2
      BY <3>2
    <3>4. /\ es[e].kind \notin {"signup", "purchase"} => es[e].sub \in DOMAIN subs2
          /\ es[e].kind \in {"cycle", "update", "deleted"} =>
                /\ \E d \in 1..(e - 1) : es[d].kind = "create" /\ es[d].sub = es[e].sub
                /\ ~\E d \in 1..(e - 1) : es[d].kind = "deleted" /\ es[d].sub = es[e].sub
          /\ es[e].kind = "cycle" => \A d \in 1..(e - 1) : es[d].period < es[e].period
      BY <1>6, <2>1 DEF Told
    <3>5. /\ es[e].kind \in {"cycle", "update", "deleted"} =>
                /\ \E d \in 1..(e - 1) : new[d].kind = "create" /\ new[d].sub = es[e].sub
                /\ ~\E d \in 1..(e - 1) : new[d].kind = "deleted" /\ new[d].sub = es[e].sub
          /\ es[e].kind = "cycle" => \A d \in 1..(e - 1) : new[d].period < es[e].period
      BY <3>1, <3>4
    <3> QED
      BY <3>1, <3>3, <3>4, <3>5, Zenon
  <2>2. CASE e = n
    <3>1. new[e] = x /\ 1..(e - 1) = DOMAIN es
      BY <1>1, <1>2, <2>2
    <3>2. x.kind \in {"cycle", "update", "deleted"} =>
             /\ \E d \in DOMAIN es : es[d].kind = "create" /\ es[d].sub = x.sub
             /\ ~\E d \in DOMAIN es : es[d].kind = "deleted" /\ es[d].sub = x.sub
      BY DEF Told, Tells
    <3>3. x.kind = "cycle" => \A d \in DOMAIN es : es[d].period < x.period
      <4>1. x.kind = "cycle" => period < x.period
        BY DEF Tells
      <4>2. \A d \in DOMAIN es : es[d].period <= period
        BY DEF Told
      <4> QED
        BY <1>3, <1>4, <4>1, <4>2
    <3>4. \A d \in 1..(e - 1) : new[d] = es[d]
      BY <1>1, <3>1
    <3>5. /\ x.kind \in {"cycle", "update", "deleted"} =>
                /\ \E d \in 1..(e - 1) : new[d].kind = "create" /\ new[d].sub = x.sub
                /\ ~\E d \in 1..(e - 1) : new[d].kind = "deleted" /\ new[d].sub = x.sub
          /\ x.kind = "cycle" => \A d \in 1..(e - 1) : new[d].period < x.period
      <4> DEFINE before == 1..(e - 1)
      <4>1. before = DOMAIN es
        BY <3>1
      <4> HIDE DEF before
      <4> QED
        BY <3>2, <3>3, <3>4, <4>1 DEF before
    <3>6. (x.kind \notin {"signup", "purchase"} => x.sub \in DOMAIN subs2) /\ x.period <= period2
      BY <1>6
    <3> QED
      BY <3>1, <3>5, <3>6, Zenon
  <2> QED
    BY <1>2, <2>1, <2>2
<1>9. ASSUME NEW d \in DOMAIN new, NEW e \in DOMAIN new,
             new[d].kind = "create", new[e].kind = "create", new[d].sub = new[e].sub
      PROVE  d = e
  <2>1. x.kind = "create" => x.sub \notin DOMAIN subs
    BY <1>5 DEF Tells
  <2>2. \A f \in DOMAIN es : es[f].kind = "create" => es[f].sub \in DOMAIN subs
    BY DEF Told
  <2>3. \A f, g \in DOMAIN es :
           es[f].kind = "create" /\ es[g].kind = "create" /\ es[f].sub = es[g].sub => f = g
    BY DEF Told
  <2>4. CASE d \in DOMAIN es /\ e \in DOMAIN es
    BY <1>1, <1>9, <2>3, <2>4
  <2>5. CASE d = n /\ e \in DOMAIN es
    BY <1>1, <1>9, <2>1, <2>2, <2>5
  <2>6. CASE d \in DOMAIN es /\ e = n
    BY <1>1, <1>9, <2>1, <2>2, <2>6
  <2> QED
    BY <1>2, <2>4, <2>5, <2>6
<1>10. ASSUME NEW s \in DOMAIN subs2
       PROVE  /\ \E e \in DOMAIN new : new[e].kind = "create" /\ new[e].sub = s
              /\ subs2[s].live <=> ~\E e \in DOMAIN new : new[e].kind = "deleted" /\ new[e].sub = s
  <2>1. CASE s \in DOMAIN subs
    <3>1. \E e \in DOMAIN es : es[e].kind = "create" /\ es[e].sub = s
      BY <2>1 DEF Told
    <3>2. subs[s].live <=> ~\E e \in DOMAIN es : es[e].kind = "deleted" /\ es[e].sub = s
      BY <2>1 DEF Told
    <3>3. subs2[s].live <=> subs[s].live /\ ~(x.kind = "deleted" /\ s = x.sub)
      BY <1>7, <2>1
    <3>4. (\E e \in DOMAIN new : new[e].kind = "deleted" /\ new[e].sub = s) <=>
             (\E e \in DOMAIN es : es[e].kind = "deleted" /\ es[e].sub = s)
             \/ (x.kind = "deleted" /\ x.sub = s)
      BY <1>1, <1>2
    <3> QED
      BY <1>1, <1>2, <3>1, <3>2, <3>3, <3>4
  <2>2. CASE s \notin DOMAIN subs
    <3>1. x.kind = "create" /\ s = x.sub /\ subs2[s].live
      BY <1>6, <2>2
    <3>2. \A e \in DOMAIN es : es[e].kind = "deleted" => es[e].sub \in DOMAIN subs
      BY DEF Told
    <3> QED
      BY <1>1, <1>2, <2>2, <3>1, <3>2
  <2> QED
    BY <2>1, <2>2
<1>11. ASSUME NEW s \in DOMAIN subs2, NEW e \in DOMAIN new, SetsPlan(new[e], s),
              \A d \in DOMAIN new : d > e => ~SetsPlan(new[d], s)
       PROVE  subs2[s].plan = new[e].plan
  <2>1. CASE e \in DOMAIN es
    <3>1. new[e] = es[e] /\ n > e /\ ~SetsPlan(x, s)
      BY <1>1, <1>2, <1>11, <2>1
    <3>2. s \in DOMAIN subs
      BY <1>11, <2>1, <3>1 DEF Told, SetsPlan
    <3>3. \A d \in DOMAIN es : d > e => ~SetsPlan(es[d], s)
      BY <1>1, <1>2, <1>11
    <3>4. subs[s].plan = es[e].plan
      BY <1>11, <2>1, <3>1, <3>2, <3>3 DEF Told
    <3> QED
      BY <1>7, <3>1, <3>2, <3>4
  <2>2. CASE e = n
    <3>1. new[e] = x /\ SetsPlan(x, s)
      BY <1>1, <1>11, <2>2
    <3> QED
      BY <1>6, <1>7, <3>1
  <2> QED
    BY <1>2, <2>1, <2>2
<1>12. Told(subs2, period2, new)
  BY <1>8, <1>9, <1>10, <1>11 DEF Told
<1> QED
  BY <1>12 DEF new

(* There are more events than before, or the same, and nothing is recorded of
   those that are new. *)
Grown ==
    /\ customer' \in [subs : Seq(Account), period : Nat] /\ customer.period <= customer'.period
    /\ events' \in Seq(Event) /\ eventRow' \in Seq({"none", "inserted", "processed"})
    /\ Len(eventRow') = Len(events') /\ Len(events) <= Len(events')
    /\ \A e \in DOMAIN events : events'[e] = events[e] /\ eventRow'[e] = eventRow[e]
    /\ \A e \in DOMAIN events' \ DOMAIN events :
          /\ eventRow'[e] = "none"
          /\ events'[e].kind = "cycle" => customer.period < events'[e].period

LEMMA EmitFacts ==
    ASSUME TypeOK, NEW new \in Seq(Event), Emit(new),
           customer' \in [subs : Seq(Account), period : Nat], customer.period <= customer'.period,
           \A i \in DOMAIN new : new[i].kind = "cycle" => customer.period < new[i].period
    PROVE  Grown
<1> DEFINE Records == {"none", "inserted", "processed"}
           nones == [i \in DOMAIN new |-> "none"]
           n == Len(events)
<1>1. Len(new) \in Nat /\ DOMAIN new = 1..Len(new)
  BY LenProperties
<1>2. nones \in Seq(Records) /\ Len(nones) = Len(new) /\ \A i \in DOMAIN new : nones[i] = "none"
  BY <1>1
<1>3. /\ events \in Seq(Event) /\ eventRow \in Seq(Records) /\ Len(eventRow) = n
      /\ n \in Nat /\ DOMAIN events = 1..n
  BY EventTypes DEF TypeOK
<1>4. events' = events \o new /\ eventRow' = eventRow \o nones
  BY DEF Emit
<1> HIDE DEF nones, Records, n
<1>5. /\ events' \in Seq(Event) /\ Len(events') = n + Len(new)
      /\ \A e \in 1..n : events'[e] = events[e]
      /\ \A i \in 1..Len(new) : events'[n + i] = new[i]
  BY <1>3, <1>4, ConcatFacts DEF n
<1>6. /\ eventRow' \in Seq(Records) /\ Len(eventRow') = n + Len(new)
      /\ \A e \in 1..n : eventRow'[e] = eventRow[e]
      /\ \A i \in 1..Len(new) : eventRow'[n + i] = nones[i]
  <2>1. eventRow \in Seq(Records) /\ nones \in Seq(Records)
    BY <1>2, <1>3
  <2>2. /\ eventRow \o nones \in Seq(Records) /\ Len(eventRow \o nones) = Len(eventRow) + Len(nones)
        /\ \A i \in 1..Len(eventRow) : (eventRow \o nones)[i] = eventRow[i]
        /\ \A i \in 1..Len(nones) : (eventRow \o nones)[Len(eventRow) + i] = nones[i]
    BY <2>1, ConcatFacts
  <2> QED
    BY <1>2, <1>3, <1>4, <2>2
<1>7. DOMAIN events' = 1..(n + Len(new))
  BY <1>5, LenProperties
<1>8. ASSUME NEW e \in DOMAIN events' \ DOMAIN events
      PROVE  /\ eventRow'[e] = "none"
             /\ events'[e].kind = "cycle" => customer.period < events'[e].period
  <2>1. e - n \in 1..Len(new) /\ n + (e - n) = e
    BY <1>1, <1>3, <1>7
  <2>2. events'[e] = new[e - n] /\ eventRow'[e] = nones[e - n]
    <3> DEFINE i == e - n
    <3>1. i \in 1..Len(new) /\ n + i = e
      BY <2>1
    <3> HIDE DEF i
    <3>2. events'[n + i] = new[i] /\ eventRow'[n + i] = nones[i]
      BY <1>5, <1>6, <3>1
    <3> QED
      BY <3>1, <3>2 DEF i
  <2> QED
    BY <1>1, <1>2, <2>1, <2>2
<1>9. Len(events) <= Len(events')
  BY <1>1, <1>3, <1>5 DEF n
<1> QED
  BY <1>3, <1>5, <1>6, <1>8, <1>9 DEF Grown, Records

LEMMA EmitOne ==
    ASSUME TypeOK, NEW x \in Event, Emit(<<x>>)
    PROVE  events' = Append(events, x)
<1>1. events' = events \o <<x>> /\ events \in Seq(Event)
  BY DEF Emit, TypeOK
<1> QED
  BY <1>1, AppendIsConcat

LEMMA EmitTwo ==
    ASSUME TypeOK, NEW x \in Event, NEW y \in Event, Emit(<<x, y>>)
    PROVE  events' = Append(Append(events, x), y)
<1>1. events' = events \o <<x, y>> /\ events \in Seq(Event)
  BY DEF Emit, TypeOK
<1>2. <<x>> \in Seq(Event) /\ <<y>> \in Seq(Event)
  OBVIOUS
<1>6. <<x, y>> = <<x>> \o <<y>>
  <2>1. Append(<<x>>, y) = <<x>> \o <<y>>
    BY <1>2, AppendIsConcat
  <2>2. Append(<<x>>, y) = <<x, y>>
    <3> DEFINE a == Append(<<x>>, y)
               b == <<x, y>>
    <3>1. /\ a \in Seq(Event) /\ Len(<<x>>) = 1 /\ <<x>>[1] = x
          /\ Len(a) = Len(<<x>>) + 1 /\ a[1] = <<x>>[1] /\ a[Len(<<x>>) + 1] = y
      BY <1>2, AppendProperties
    <3>2. b \in Seq(Event) /\ Len(b) = 2 /\ b[1] = x /\ b[2] = y
      OBVIOUS
    <3> HIDE DEF a, b
    <3>3. \A i \in 1..2 : a[i] = b[i]
      BY <3>1, <3>2
    <3>4. a \in Seq(Event) /\ b \in Seq(Event) /\ Len(a) = Len(b)
          /\ \A i \in 1..Len(a) : a[i] = b[i]
      BY <3>1, <3>2, <3>3
    <3>5. a = b
      BY <3>4, SeqEqual
    <3> QED
      BY <3>5 DEF a, b
  <2> QED
    BY <2>1, <2>2
<1>3. (events \o <<x>>) \o <<y>> = events \o (<<x>> \o <<y>>)
  BY <1>1, <1>2, ConcatAssociative
<1>4. Append(events, x) = events \o <<x>> /\ Append(events, x) \in Seq(Event)
  BY <1>1, AppendIsConcat, AppendFacts
<1>5. Append(Append(events, x), y) = Append(events, x) \o <<y>>
  BY <1>4, AppendIsConcat
<1> QED
  BY <1>1, <1>2, <1>3, <1>4, <1>5, <1>6

(* What there is stays true when there are more events. *)
LEMMA Emission ==
    ASSUME Inv, CreditInv, Grown, mishaps \subseteq mishaps',
           UNCHANGED <<subscriptions, cycles, ledger, extra, answer, spend>>
    PROVE  /\ CycleInv' /\ RowInv' /\ PurchasesAreCreditedOnce' /\ ExtraInv' /\ LedgerInv'
           /\ Clean({"reordered", "strayed"})' => InOrder'
           /\ DOMAIN events \subseteq DOMAIN events' /\ Len(events') \in Nat
<1>0. TypeOK /\ EventInv /\ CycleInv /\ OrderInv /\ RowInv
  BY DEF Inv
<1>1. \A which : Clean(which)' => Clean(which)
  BY DEF Clean
<1>2. /\ Len(events') \in Nat /\ DOMAIN events' = 1..Len(events')
      /\ Len(events) \in Nat /\ DOMAIN events = 1..Len(events) /\ DOMAIN events \subseteq DOMAIN events'
  <2>1. /\ Len(events') \in Nat /\ DOMAIN events' = 1..Len(events')
        /\ Len(events) \in Nat /\ DOMAIN events = 1..Len(events) /\ Len(events) <= Len(events')
    BY <1>0, EventTypes, LenProperties DEF Grown
  <2> QED
    BY <2>1
<1>3. /\ \A e \in DOMAIN events : events'[e] = events[e] /\ (Handled(e)' <=> Handled(e))
      /\ \A e \in DOMAIN events' : Handled(e)' => e \in DOMAIN events
  BY DEF Grown, Handled
<1>4. customer.period \in Nat /\ customer'.period \in Nat /\ customer.period <= customer'.period
  BY <1>0, EventTypes DEF Grown
<1>5. CycleInv'
  <2>1. \A c \in DOMAIN cycles : cycles[c].end <= customer'.period
    BY <1>0, <1>4, TableTypes DEF CycleInv
  <2> QED
    BY <1>0, <2>1 DEF CycleInv, CyclesOf
<1>6. RowInv'
  <2>1. \A x : Lasts(x)' <=> Lasts(x)
    BY <1>2, <1>3 DEF Lasts
  <2>2. \A x : Lasts(x) => x \in DOMAIN customer.subs
    BY <1>0 DEF Lasts, EventInv, Told
  <2>3. Active' = Active
    BY DEF Active
  <2>4. ASSUME NEW x, NEW plan, PlanTold(x, plan) PROVE PlanTold(x, plan)'
    BY <1>2, <1>3, <2>4 DEF PlanTold
  <2> QED
    BY <1>0, <1>1, <2>1, <2>2, <2>3, <2>4 DEF RowInv
<1>7. PurchasesAreCreditedOnce'
  <2>1. {e \in DOMAIN events : events[e].kind = "purchase" /\ eventRow[e] # "none"}' =
           {e \in DOMAIN events : events[e].kind = "purchase" /\ eventRow[e] # "none"}
    BY <1>2, <1>3 DEF Handled
  <2> QED
    BY <2>1 DEF Inv, PurchasesAreCreditedOnce
<1>8. ExtraInv'
  BY <1>1 DEF Inv, ExtraInv, ExtraBalance, Tracking, Clean
<1>9. LedgerInv'
  <2> SUFFICES ASSUME CleanLedger' PROVE LedgerInv'
    BY DEF LedgerInv
  <2>1. CleanLedger
    BY <1>1 DEF CleanLedger
  <2>2. ASSUME NEW c \in DOMAIN cycles, NEW e \in DOMAIN events', ~Handled(e)', events'[e].kind = "cycle"
        PROVE  cycles[c].end < events'[e].period
    <3>1. CASE e \in DOMAIN events
      BY <1>3, <2>1, <2>2, <3>1 DEF CreditInv, LedgerInv
    <3>2. CASE e \notin DOMAIN events
      <4>1. customer.period < events'[e].period
        BY <2>2, <3>2 DEF Grown
      <4>2. cycles[c].end <= customer.period /\ cycles[c].end \in Nat
        BY <1>0, TableTypes DEF CycleInv
      <4>3. events'[e].period \in Nat
        <5>1. events'[e] \in Event
          BY <1>2, <2>2, ElementOfSeq DEF Grown
        <5> QED
          BY <5>1 DEF Event
      <4> QED
        BY <1>4, <4>1, <4>2, <4>3
    <3> QED
      BY <3>1, <3>2
  <2> QED
    BY <2>1, <2>2 DEF CreditInv, LedgerInv, Settled, Remaining, Active
<1>10. Clean({"reordered", "strayed"})' => InOrder'
  <2> SUFFICES ASSUME Clean({"reordered", "strayed"})', NEW e \in DOMAIN events', Handled(e)', NEW d \in 1..(e - 1)
               PROVE  Handled(d)'
    BY DEF InOrder
  <2>1. e \in DOMAIN events /\ d \in DOMAIN events
    BY <1>2, <1>3
  <2> QED
    BY <1>0, <1>1, <1>3, <2>1 DEF OrderInv, InOrder
<1> QED
  BY <1>2, <1>5, <1>6, <1>7, <1>8, <1>9, <1>10

LEMMA TellOne ==
    ASSUME TypeOK, EventInv, NEW x \in Event, Emit(<<x>>),
           customer' \in [subs : Seq(Account), period : Nat],
           customer.period <= customer'.period, x.period <= customer'.period,
           Tells(customer.subs, customer.period, x, customer'.subs)
    PROVE  Grown /\ EventInv'
<1>1. customer.subs \in Seq(Account) /\ customer.period \in Nat /\ events \in Seq(Event)
      /\ customer'.subs \in Seq(Account) /\ customer'.period \in Nat
  BY EventTypes DEF TypeOK, Account
<1>3. events' = Append(events, x)
  BY EmitOne
<1>4. EventInv'
  <2>1. Told(customer.subs, customer.period, events)
    BY DEF EventInv
  <2>2. Told(customer'.subs, customer'.period, Append(events, x))
    BY <1>1, <2>1, OneMore
  <2> QED
    BY <1>3, <2>2 DEF EventInv
<1>5. Grown
  <2> DEFINE new == <<x>>
  <2>1. new \in Seq(Event) /\ DOMAIN new = {1} /\ new[1] = x
    OBVIOUS
  <2>2. x.kind = "cycle" => customer.period < x.period
    BY DEF Tells
  <2>3. Emit(new)
    OBVIOUS
  <2> HIDE DEF new
  <2> QED
    BY <2>1, <2>2, <2>3, EmitFacts
<1> QED
  BY <1>4, <1>5

LEMMA EventsMade ==
    ASSUME TypeOK
    PROVE  /\ NoEvent \in Event /\ NoEvent.kind = "signup" /\ NoEvent.period = 0
           /\ FirstInvoice \in Event /\ FirstInvoice.kind = "create"
           /\ FirstInvoice.sub = Len(customer.subs) + 1 /\ FirstInvoice.period = customer.period
           /\ FirstInvoice.plan = FreePlan
           /\ [NoEvent EXCEPT !.kind = "purchase"] \in Event
           /\ [NoEvent EXCEPT !.kind = "purchase"].kind = "purchase"
           /\ [NoEvent EXCEPT !.kind = "purchase"].period = 0
<1>1. NoEvent \in Event /\ NoEvent.kind = "signup" /\ NoEvent.period = 0 /\ NoEvent.plan = FreePlan
  BY PlansAssumption DEF NoEvent, Event, Kinds
<1>2. /\ FirstInvoice \in Event /\ FirstInvoice.kind = "create" /\ FirstInvoice.plan = FreePlan
      /\ FirstInvoice.sub = Len(customer.subs) + 1 /\ FirstInvoice.period = customer.period
  <2> DEFINE n == Len(customer.subs) + 1
             p == customer.period
  <2>1. n \in Nat /\ p \in Nat
    BY EventTypes
  <2>2. FirstInvoice = [NoEvent EXCEPT !.kind = "create", !.sub = n, !.period = p]
    BY DEF FirstInvoice
  <2> HIDE DEF n, p
  <2>3. FirstInvoice \in Event /\ FirstInvoice.kind = "create" /\ FirstInvoice.plan = FreePlan
        /\ FirstInvoice.sub = n /\ FirstInvoice.period = p
    BY <1>1, <2>1, <2>2 DEF Event, Kinds
  <2> QED
    BY <2>3 DEF n, p
<1>4. /\ [NoEvent EXCEPT !.kind = "purchase"] \in Event
      /\ [NoEvent EXCEPT !.kind = "purchase"].kind = "purchase"
      /\ [NoEvent EXCEPT !.kind = "purchase"].period = 0
  BY <1>1 DEF Event, Kinds
<1> QED
  BY <1>1, <1>2, <1>4

LEMMA InvoiceMade ==
    ASSUME NEW kind \in Kinds, NEW s \in Nat, NEW plan \in Plans, NEW period \in Nat, NEW left \in 0..2,
           NEW x, x = Invoice(kind, s, plan, period, left)
    PROVE  x \in Event /\ x.kind = kind /\ x.sub = s /\ x.period = period /\ x.plan = plan
BY PlansAssumption DEF NoEvent, Invoice, Event, Kinds

Deletion(s, why) == [NoEvent EXCEPT !.kind = "deleted", !.sub = s, !.reason = why]

LEMMA DeletionMade ==
    ASSUME NEW s \in Nat, NEW why \in {"cancellation_requested", "payment_failure"},
           NEW x, x = Deletion(s, why)
    PROVE  x \in Event /\ x.kind = "deleted" /\ x.sub = s /\ x.period = 0
<1>1. NoEvent \in Event /\ NoEvent.period = 0
  BY PlansAssumption DEF NoEvent, Event, Kinds
<1> QED
  BY <1>1 DEF Event, Kinds, Deletion

(* Asking for a free subscription. *)
LEMMA SubscriptionMade ==
    ASSUME TypeOK, customer' = [customer EXCEPT !.subs = NewSubscription]
    PROVE  /\ customer' \in [subs : Seq(Account), period : Nat]
           /\ customer'.period = customer.period /\ customer.period \in Nat
           /\ Tells(customer.subs, customer.period, FirstInvoice, customer'.subs)
<1>1. /\ customer \in [subs : Seq(Account), period : Nat]
      /\ customer.subs \in Seq(Account) /\ customer.period \in Nat
  BY EventTypes DEF TypeOK, Account
<1> DEFINE account == [plan |-> FreePlan, live |-> TRUE]
<1>2. account \in Account /\ FreePlan \in Plans
  BY PlansAssumption DEF Account
<1>3. NewSubscription = Append(customer.subs, account)
  BY DEF NewSubscription
<1> DEFINE new == NewSubscription
<1>4. new \in Seq(Account)
  BY <1>1, <1>2, <1>3, AppendProperties
<1>5. customer' = [customer EXCEPT !.subs = new]
  OBVIOUS
<1> HIDE DEF new, account
<1>6. customer' \in [subs : Seq(Account), period : Nat] /\ customer'.subs = new
      /\ customer'.period = customer.period
  BY <1>1, <1>4, <1>5
<1>7. Tells(customer.subs, customer.period, FirstInvoice, customer'.subs)
  <2>1. FirstInvoice.kind = "create" /\ FirstInvoice.sub = Len(customer.subs) + 1
        /\ FirstInvoice.plan = FreePlan
    BY EventsMade
  <2>2. customer'.subs = Append(customer.subs, [plan |-> FirstInvoice.plan, live |-> TRUE])
    BY <1>3, <1>6, <2>1 DEF new, account
  <2> QED
    BY <2>1, <2>2 DEF Tells
<1> QED
  BY <1>1, <1>6, <1>7

LEMMA CustomerTells ==
    ASSUME Inv, CustomerActs
    PROVE  Grown /\ EventInv'
<1>0. TypeOK /\ EventInv
  BY DEF Inv
<1>1. /\ customer \in [subs : Seq(Account), period : Nat] /\ customer.subs \in Seq(Account)
      /\ customer.period \in Nat /\ customer.period + 1 \in Nat
      /\ customer.period <= customer.period + 1
      /\ \A s \in DOMAIN customer.subs : s \in Nat /\ customer.subs[s] \in Account
                                         /\ customer.subs[s].plan \in Plans
  <2>1. /\ customer \in [subs : Seq(Account), period : Nat] /\ customer.subs \in Seq(Account)
        /\ customer.period \in Nat
        /\ \A s \in DOMAIN customer.subs : s \in Nat /\ customer.subs[s] \in Account
    BY <1>0, EventTypes DEF TypeOK, Account
  <2>2. \A y \in Account : y.plan \in Plans
    BY DEF Account
  <2> QED
    BY <2>1, <2>2
<1>2. CASE SignUp
  <2>1. /\ Lives = {} /\ customer' = [customer EXCEPT !.subs = NewSubscription]
        /\ Emit(<<NoEvent, FirstInvoice>>)
    BY <1>2 DEF SignUp
  <2> DEFINE x == NoEvent
             y == FirstInvoice
  <2>2. /\ x \in Event /\ y \in Event /\ x.kind = "signup" /\ x.period = 0
        /\ y.kind = "create" /\ y.period = customer.period
    BY <1>0, EventsMade
  <2>3. /\ customer' \in [subs : Seq(Account), period : Nat] /\ customer'.period = customer.period
        /\ Tells(customer.subs, customer.period, y, customer'.subs)
    BY <1>0, <2>1, SubscriptionMade
  <2>4. Told(customer.subs, customer.period, events) /\ events \in Seq(Event)
    BY <1>0 DEF EventInv, TypeOK
  <2>5. Emit(<<x, y>>)
    BY <2>1
  <2> HIDE DEF x, y
  <2>6. events' = Append(Append(events, x), y) /\ Append(events, x) \in Seq(Event)
    BY <1>0, <2>2, <2>4, <2>5, EmitTwo, AppendProperties
  <2>7. Told(customer.subs, customer.period, Append(events, x))
    <3>1. Tells(customer.subs, customer.period, x, customer.subs)
      BY <2>2 DEF Tells
    <3>2. customer.period <= customer.period /\ x.period <= customer.period
      BY <1>1, <2>2
    <3> QED
      BY <1>1, <2>2, <2>4, <3>1, <3>2, OneMore
  <2>8. Told(customer'.subs, customer'.period, Append(Append(events, x), y))
    <3>1. customer.period <= customer'.period /\ y.period <= customer'.period
          /\ customer'.subs \in Seq(Account) /\ customer'.period \in Nat
      BY <1>1, <2>2, <2>3
    <3> DEFINE es == Append(events, x)
               subs2 == customer'.subs
               period2 == customer'.period
    <3>2. /\ es \in Seq(Event) /\ y \in Event /\ customer.subs \in Seq(Account) /\ customer.period \in Nat
          /\ subs2 \in Seq(Account) /\ period2 \in Nat
          /\ Told(customer.subs, customer.period, es)
          /\ customer.period <= period2 /\ y.period <= period2
          /\ Tells(customer.subs, customer.period, y, subs2)
      BY <1>1, <2>2, <2>3, <2>4, <2>6, <2>7, <3>1
    <3> HIDE DEF es, subs2, period2
    <3>3. Told(subs2, period2, Append(es, y))
      BY <3>2, OneMore
    <3> QED
      BY <3>3 DEF es, subs2, period2
  <2>9. EventInv'
    BY <2>6, <2>8 DEF EventInv
  <2>10. Grown
    <3> DEFINE new == <<x, y>>
    <3>1. /\ new \in Seq(Event) /\ DOMAIN new = {1, 2}
          /\ \A i \in DOMAIN new : new[i] = x \/ new[i] = y
      BY <2>2
    <3>2. \A i \in DOMAIN new : new[i].kind # "cycle"
      BY <2>2, <3>1
    <3>3. customer.period <= customer'.period /\ Emit(new)
      BY <1>1, <2>3, <2>5
    <3> HIDE DEF new
    <3> QED
      BY <1>0, <2>3, <3>1, <3>2, <3>3, EmitFacts
  <2> QED
    BY <2>9, <2>10
<1>3. CASE BuyCredits
  <2> DEFINE x == [NoEvent EXCEPT !.kind = "purchase"]
  <2>1. x \in Event /\ x.kind = "purchase" /\ x.period = 0
    BY <1>0, EventsMade
  <2>2. Emit(<<x>>) /\ customer' = customer
    BY <1>3 DEF BuyCredits
  <2> HIDE DEF x
  <2>3. Tells(customer.subs, customer.period, x, customer'.subs)
    BY <2>1, <2>2 DEF Tells
  <2>4. customer.period <= customer'.period /\ x.period <= customer'.period
        /\ customer' \in [subs : Seq(Account), period : Nat]
    BY <1>1, <2>1, <2>2
  <2> QED
    BY <1>0, <2>1, <2>2, <2>3, <2>4, TellOne
<1>4. ASSUME NEW s \in Lives, Renew(s) PROVE Grown /\ EventInv'
  <2> DEFINE x == Invoice("cycle", s, customer.subs[s].plan, customer.period + 1, 2)
  <2>1. s \in DOMAIN customer.subs /\ customer.subs[s].live
    BY DEF Lives
  <2>2. x \in Event /\ x.kind = "cycle" /\ x.sub = s /\ x.period = customer.period + 1
    <3> DEFINE plan == customer.subs[s].plan
               next == customer.period + 1
    <3>1. "cycle" \in Kinds /\ s \in Nat /\ plan \in Plans /\ next \in Nat /\ 2 \in 0..2
      BY <1>1, <2>1 DEF Kinds
    <3>2. x = Invoice("cycle", s, plan, next, 2)
      OBVIOUS
    <3> HIDE DEF x, plan, next
    <3>3. x \in Event /\ x.kind = "cycle" /\ x.sub = s /\ x.period = next
      BY <3>1, <3>2, InvoiceMade
    <3> QED
      BY <3>3 DEF next
  <2>3. Emit(<<x>>) /\ customer' = [customer EXCEPT !.period = @ + 1]
    BY <1>4 DEF Renew
  <2>4. /\ customer' \in [subs : Seq(Account), period : Nat]
        /\ customer'.period = customer.period + 1 /\ customer'.subs = customer.subs
    BY <1>1, <2>3
  <2> HIDE DEF x
  <2>5. Tells(customer.subs, customer.period, x, customer'.subs)
    <3>1. customer.period < x.period
      BY <1>1, <2>2
    <3> QED
      BY <2>1, <2>2, <2>4, <3>1 DEF Tells
  <2>6. customer.period <= customer'.period /\ x.period <= customer'.period
    BY <1>1, <2>2, <2>4
  <2> QED
    BY <1>0, <2>2, <2>3, <2>4, <2>5, <2>6, TellOne
<1>5. ASSUME NEW s \in Lives, EndSubscription(s) PROVE Grown /\ EventInv'
  <2>1. s \in DOMAIN customer.subs /\ customer.subs[s].live
    BY DEF Lives
  <2>2. PICK why \in {"cancellation_requested", "payment_failure"} :
           Emit(<<[NoEvent EXCEPT !.kind = "deleted", !.sub = s, !.reason = why]>>)
    BY <1>5 DEF EndSubscription
  <2> DEFINE x == [NoEvent EXCEPT !.kind = "deleted", !.sub = s, !.reason = why]
             account == [customer.subs[s] EXCEPT !.live = FALSE]
             subs == [customer.subs EXCEPT ![s] = account]
             period == customer.period + 1
  <2>3. x \in Event /\ x.kind = "deleted" /\ x.sub = s /\ x.period = 0 /\ Emit(<<x>>)
    <3>1. s \in Nat /\ x = Deletion(s, why) /\ Emit(<<x>>)
          /\ why \in {"cancellation_requested", "payment_failure"}
      BY <1>1, <2>1, <2>2 DEF Deletion
    <3> HIDE DEF x
    <3>2. x \in Event /\ x.kind = "deleted" /\ x.sub = s /\ x.period = 0
      BY <3>1, DeletionMade
    <3> QED
      BY <3>1, <3>2
  <2>4. customer' = [customer EXCEPT !.subs = subs, !.period = period]
    BY <1>5 DEF EndSubscription
  <2>5. account \in Account /\ account.live = FALSE /\ account.plan = customer.subs[s].plan
    BY <1>1, <2>1 DEF Account
  <2> HIDE DEF x, account
  <2>6. /\ subs \in Seq(Account) /\ DOMAIN subs = DOMAIN customer.subs
        /\ \A u \in DOMAIN customer.subs : subs[u] = IF u = s THEN account ELSE customer.subs[u]
    BY <1>1, <2>1, <2>5, ExceptSeq
  <2> HIDE DEF subs
  <2>7. /\ customer' \in [subs : Seq(Account), period : Nat]
        /\ customer'.period = customer.period + 1 /\ customer'.subs = subs
    BY <1>1, <2>4, <2>6
  <2>8. Tells(customer.subs, customer.period, x, customer'.subs)
    BY <2>1, <2>3, <2>5, <2>6, <2>7 DEF Tells
  <2>9. customer.period <= customer'.period /\ x.period <= customer'.period
    BY <1>1, <2>3, <2>7
  <2> QED
    BY <1>0, <2>3, <2>7, <2>8, <2>9, TellOne
<1>6. ASSUME NEW s \in Lives, NEW plan \in Plans, ChangePlan(s, plan) PROVE Grown /\ EventInv'
  <2>1. s \in DOMAIN customer.subs /\ customer.subs[s].live
    BY DEF Lives
  <2> DEFINE account == [customer.subs[s] EXCEPT !.plan = plan]
             subs == [customer.subs EXCEPT ![s] = account]
  <2>2. PICK period \in {customer.period, customer.period + 1}, left \in Halves \cup {2} :
           /\ customer' = [subs |-> subs, period |-> period]
           /\ Emit(<<Invoice("update", s, plan, period, left)>>)
    BY <1>6 DEF ChangePlan
  <2> DEFINE x == Invoice("update", s, plan, period, left)
  <2>3. x \in Event /\ x.kind = "update" /\ x.sub = s /\ x.period = period /\ x.plan = plan
        /\ Emit(<<x>>)
    <3>1. "update" \in Kinds /\ s \in Nat /\ period \in Nat /\ left \in 0..2
      BY <1>1, <2>1, AmountsAssumption DEF Kinds
    <3>2. x = Invoice("update", s, plan, period, left) /\ Emit(<<x>>)
      BY <2>2
    <3> HIDE DEF x
    <3> QED
      BY <3>1, <3>2, InvoiceMade
  <2>5. account \in Account /\ account.live = customer.subs[s].live /\ account.plan = plan
    BY <1>1, <2>1 DEF Account
  <2> HIDE DEF x, account
  <2>6. /\ subs \in Seq(Account) /\ DOMAIN subs = DOMAIN customer.subs
        /\ \A u \in DOMAIN customer.subs : subs[u] = IF u = s THEN account ELSE customer.subs[u]
    BY <1>1, <2>1, <2>5, ExceptSeq
  <2> HIDE DEF subs
  <2>7. /\ customer' \in [subs : Seq(Account), period : Nat]
        /\ customer'.period = period /\ customer'.subs = subs
    BY <1>1, <2>2, <2>6
  <2>8. Tells(customer.subs, customer.period, x, customer'.subs)
    BY <2>1, <2>3, <2>5, <2>6, <2>7 DEF Tells
  <2>9. customer.period <= customer'.period /\ x.period <= customer'.period
    BY <1>1, <2>2, <2>3, <2>7
  <2> QED
    BY <1>0, <2>3, <2>7, <2>8, <2>9, TellOne
<1> QED
  BY <1>2, <1>3, <1>4, <1>5, <1>6 DEF CustomerActs

LEMMA CustomerInv ==
    ASSUME Inv, CreditInv, CustomerActs
    PROVE  Inv' /\ CreditInv'
<1>0. TypeOK
  BY DEF Inv
<1>1. /\ UNCHANGED <<known, subscriptions, cycles, ledger, extra, tx, answer, spend, mishaps, failures>>
      /\ mishaps \subseteq mishaps'
  BY DEF CustomerActs, tables, bot
<1>2. Grown /\ EventInv'
  BY CustomerTells
<1>3. /\ CycleInv' /\ RowInv' /\ PurchasesAreCreditedOnce' /\ ExtraInv' /\ LedgerInv'
      /\ Clean({"reordered", "strayed"})' => InOrder'
      /\ DOMAIN events \subseteq DOMAIN events' /\ Len(events') \in Nat
  BY <1>1, <1>2, Emission
<1>4. tx.event \in 0..Len(events) /\ 0..Len(events) \subseteq 0..Len(events')
      /\ (Open(tx) => tx.event \in DOMAIN events)
      /\ \A d \in 1..(tx.event - 1) : d \in DOMAIN events
  <2>1. tx.event \in 0..Len(events) /\ (Open(tx) => tx.event # 0)
    BY <1>0 DEF TypeOK, Open, Transactions
  <2>2. Len(events) \in Nat /\ DOMAIN events = 1..Len(events) /\ Len(events) <= Len(events')
    BY <1>0, <1>2, EventTypes DEF Grown
  <2> QED
    BY <1>3, <2>1, <2>2
<1>5. TypeOK'
  BY <1>0, <1>1, <1>2, <1>4 DEF TypeOK, Grown, Account
<1>6. Open(tx)' = Open(tx)
      /\ \A e \in DOMAIN events : events'[e] = events[e] /\ eventRow'[e] = eventRow[e]
  BY <1>1, <1>2 DEF Open, Grown
<1>7. TxInv'
  BY <1>1, <1>4, <1>6 DEF Inv, TxInv, Clean
<1>8. OrderInv'
  <2>1. Open(tx) /\ ~tx.committed /\ Clean({"reordered", "strayed"})' => \A d \in 1..(tx.event - 1) : Handled(d)'
    BY <1>1, <1>4, <1>6 DEF Inv, OrderInv, Clean, Handled
  <2> QED
    BY <1>1, <1>3, <1>6, <2>1 DEF OrderInv
<1>9. PendingInv'
  BY <1>1, <1>6 DEF CreditInv, PendingInv, CleanLedger, Clean, Remaining
<1> QED
  BY <1>2, <1>3, <1>5, <1>7, <1>8, <1>9 DEF Inv, CreditInv

-----------------------------------------------------------------------------
(* A handler of the webhook prepares its transaction. *)
LEMMA HandleInv ==
    ASSUME Inv, CreditInv, NEW e \in DOMAIN events, HandleEvent(e)
    PROVE  Inv' /\ CreditInv'
<1>0. TypeOK /\ CycleInv /\ EventInv
  BY DEF Inv
<1> DEFINE ambiguous == events[e].kind = "deleted" /\ Cardinality(RowsOf(events[e].sub)) > 1
           again == customer'.subs # customer.subs /\ Lives # {}
<1>1. /\ ~Open(tx) /\ eventRow[e] = "none" /\ Handling(e, tx') /\ SubscribeToFreePlan(e)
      /\ UNCHANGED <<known, subscriptions, cycles, ledger, extra, answer, spend, failures>>
      /\ mishaps' = mishaps \cup Late(e)
            \cup (IF ambiguous THEN {"ambiguous"} ELSE {}) \cup (IF again THEN {"resubscribed"} ELSE {})
  BY DEF HandleEvent, InsertStripeEvent, tables, bot
<1>2. /\ mishaps \subseteq mishaps' /\ mishaps' \subseteq Mishap
      /\ \A which : Clean(which)' => Clean(which)
      /\ Clean({"ambiguous"})' => ~ambiguous
      /\ Clean({"reordered", "strayed"})' => Late(e) = {}
  <2>1. mishaps \subseteq mishaps' /\ mishaps' \subseteq Mishap
    BY <1>0, <1>1 DEF TypeOK, Late, Mishap
  <2>2. \A which : Clean(which)' => Clean(which)
    BY <2>1 DEF Clean
  <2>3. ambiguous => "ambiguous" \in mishaps'
    BY <1>1
  <2>4. Late(e) # {} => "reordered" \in mishaps'
    BY <1>1 DEF Late
  <2> HIDE DEF again, ambiguous
  <2> QED
    BY <2>1, <2>2, <2>3, <2>4 DEF Clean
<1>3. Prepared(e, tx')
  BY <1>0, <1>1, HandlingPrepared
<1>4. Grown /\ EventInv'
  <2>1. CASE customer' = [customer EXCEPT !.subs = NewSubscription] /\ Emit(<<FirstInvoice>>)
    <3>1. /\ customer' \in [subs : Seq(Account), period : Nat]
          /\ customer'.period = customer.period /\ customer.period \in Nat
          /\ Tells(customer.subs, customer.period, FirstInvoice, customer'.subs)
      BY <1>0, <2>1, SubscriptionMade
    <3>2. FirstInvoice \in Event /\ FirstInvoice.period = customer.period
      BY <1>0, EventsMade
    <3>3. customer.period <= customer'.period /\ FirstInvoice.period <= customer'.period
      BY <3>1, <3>2
    <3> HIDE DEF again, ambiguous
    <3> QED
      BY <1>0, <2>1, <3>1, <3>2, <3>3, TellOne
  <2>2. CASE UNCHANGED <<customer, events, eventRow>>
    <3>1. Grown
      BY <1>0, <2>2, EventTypes DEF Grown, TypeOK, Account
    <3>2. EventInv'
      BY <1>0, <2>2 DEF EventInv, Told
    <3> QED
      BY <3>1, <3>2
  <2> QED
    BY <1>1, <2>1, <2>2 DEF SubscribeToFreePlan, stripe
<1>5. /\ CycleInv' /\ RowInv' /\ PurchasesAreCreditedOnce' /\ ExtraInv' /\ LedgerInv'
      /\ Clean({"reordered", "strayed"})' => InOrder'
      /\ DOMAIN events \subseteq DOMAIN events' /\ Len(events') \in Nat
  <2> HIDE DEF again, ambiguous
  <2> QED
    BY <1>1, <1>2, <1>4, Emission
<1>6. /\ tx' \in Transactions /\ tx'.event = e /\ e \in 0..Len(events') /\ e \in Nat \ {0}
      /\ events'[e] = events[e] /\ eventRow'[e] = "none"
      /\ \A d \in 1..(e - 1) : d \in DOMAIN events /\ eventRow'[d] = eventRow[d]
  <2>1. tx' \in Transactions /\ tx'.event = e
    BY <1>3 DEF Prepared
  <2>2. /\ Len(events) \in Nat /\ DOMAIN events = 1..Len(events) /\ Len(events) <= Len(events')
        /\ \A d \in DOMAIN events : events'[d] = events[d] /\ eventRow'[d] = eventRow[d]
    BY <1>0, <1>4, EventTypes DEF Grown
  <2> QED
    BY <1>1, <1>5, <2>1, <2>2
<1>7. TypeOK'
  BY <1>0, <1>1, <1>2, <1>4, <1>6 DEF TypeOK, Grown, Account
<1>8. Shape(tx', events[e], subscriptions, cycles, Clean({"ambiguous"})')
  <2> DEFINE clean == Clean({"ambiguous"})'
             rows == RowsOf(events[e].sub)
  <2>1. clean \in BOOLEAN
    BY DEF Clean
  <2>2. Cardinality(rows) \in Nat
    <3>1. DOMAIN subscriptions = 1..Len(subscriptions) /\ Len(subscriptions) \in Nat
      BY <1>0, TableTypes
    <3>2. IsFiniteSet(rows)
      <4>1. IsFiniteSet(1..Len(subscriptions))
        BY <3>1, FS_Interval
      <4> QED
        BY <3>1, <4>1, FS_Subset DEF RowsOf
    <3> QED
      BY <3>2, FS_CardinalityType
  <2>3. clean /\ events[e].kind = "deleted" => ~(Cardinality(rows) > 1)
    BY <1>2
  <2> HIDE DEF clean, rows
  <2>4. clean /\ events[e].kind = "deleted" => Cardinality(rows) <= 1
    BY <2>2, <2>3
  <2>5. Shape(tx', events[e], subscriptions, cycles, clean)
    BY <1>3, <2>1, <2>4 DEF Prepared, rows
  <2> QED
    BY <2>5 DEF clean
<1> HIDE DEF again, ambiguous
<1>9. TxInv'
  <2>1. ~tx'.committed
    BY <1>8 DEF Shape
  <2> QED
    BY <1>1, <1>6, <1>8, <2>1 DEF TxInv
<1>10. OrderInv'
  <2>1. Clean({"reordered", "strayed"})' => \A d \in 1..(e - 1) : Handled(d)'
    <3>1. Clean({"reordered", "strayed"})' => \A d \in 1..(e - 1) : eventRow[d] # "none"
      BY <1>2 DEF Late
    <3> QED
      BY <1>6, <3>1 DEF Handled
  <2> QED
    BY <1>5, <1>6, <2>1 DEF OrderInv
<1>11. PendingInv'
  <2> SUFFICES ASSUME CleanLedger'
               PROVE  /\ tx'.closes # 0 => tx'.expires = Remaining(tx'.closes)
                      /\ tx'.opens # <<>> => tx'.grant >= 0
    BY <1>1 DEF PendingInv, Remaining
  <2>1. \A s \in Active : Remaining(Latest(cycles, s)) >= 0
    BY <1>2 DEF CreditInv, LedgerInv, CleanLedger
  <2> QED
    BY <1>3, <2>1 DEF Prepared
<1> QED
  BY <1>4, <1>5, <1>7, <1>9, <1>10, <1>11 DEF Inv, CreditInv

-----------------------------------------------------------------------------
(* A transaction of the webhook commits. *)
Appended(rows, event) == Append(rows, Row(event))

AddsRow(r, rows, event) ==
    /\ r \in Seq(Subscription) /\ DOMAIN r = DOMAIN rows \cup {Len(rows) + 1}
    /\ \A u \in DOMAIN rows : r[u] = rows[u]
    /\ r[Len(rows) + 1].stripe = event.sub /\ r[Len(rows) + 1].plan = event.plan
    /\ ActiveIn(r) = ActiveIn(rows) \cup {Len(rows) + 1}

LEMMA AppendedRows ==
    ASSUME NEW rows \in Seq(Subscription), NEW event \in Event
    PROVE  AddsRow(Appended(rows, event), rows, event)
<1>r. PICK r : r = Appended(rows, event)
  OBVIOUS
<1> DEFINE row == Row(event)
<1> DEFINE m == Len(rows) + 1
<1>1. row \in Subscription /\ row.stripe = event.sub /\ row.plan = event.plan
      /\ row.status = "active"
  BY DEF Row, Event, Subscription, Status
<1> HIDE DEF row
<1>2. r = Append(rows, row)
  BY <1>r DEF row, Appended
<1>3. /\ r \in Seq(Subscription) /\ DOMAIN r = 1..(Len(rows) + 1) /\ DOMAIN rows = 1..Len(rows)
      /\ Len(rows) \in Nat /\ (\A u \in 1..Len(rows) : r[u] = rows[u]) /\ r[Len(rows) + 1] = row
  BY <1>1, <1>2, AppendFacts
<1>4. m \notin DOMAIN rows /\ DOMAIN r = DOMAIN rows \cup {m} /\ r[m] = row
      /\ \A u \in DOMAIN rows : r[u] = rows[u]
  BY <1>3
<1>5. ActiveIn(r) = ActiveIn(rows) \cup {m}
  BY <1>1, <1>4 DEF ActiveIn
<1> QED
  BY <1>r, <1>1, <1>3, <1>4, <1>5 DEF AddsRow

LEMMA EndedRows ==
    ASSUME NEW rows \in Seq(Subscription), NEW s \in DOMAIN rows,
           NEW status \in Status \ {"active"}, NEW r, r = Ended(rows, s, status)
    PROVE  /\ r \in Seq(Subscription) /\ DOMAIN r = DOMAIN rows /\ Len(r) = Len(rows)
           /\ \A u \in DOMAIN rows : r[u].stripe = rows[u].stripe /\ r[u].plan = rows[u].plan
           /\ ActiveIn(r) = ActiveIn(rows) \ {s}
<1>1. /\ r \in Seq(Subscription) /\ DOMAIN r = DOMAIN rows /\ Len(r) = Len(rows)
      /\ \A u \in DOMAIN rows : /\ r[u].stripe = rows[u].stripe /\ r[u].plan = rows[u].plan
                                /\ r[u].status = IF u = s THEN status ELSE rows[u].status
  BY EndedFacts
<1>2. ActiveIn(r) = ActiveIn(rows) \ {s}
  BY <1>1 DEF ActiveIn
<1> QED
  BY <1>1, <1>2

(* The row that a handler adds to the subscriptions, and what a transaction
   leaves of the rows, by the kind of its event. *)
NewRow == Len(subscriptions) + 1

RowsAfter(t, event, cs, clean) ==
    /\ NewRow \notin DOMAIN subscriptions
    /\ DOMAIN t.subscriptions = DOMAIN subscriptions
       \/ (DOMAIN t.subscriptions = DOMAIN subscriptions \cup {NewRow} /\ t.opens = Opens(NewRow, event))
    /\ t.opens = <<>> \/ \E s \in DOMAIN t.subscriptions : t.opens = Opens(s, event)
    /\ \A u \in DOMAIN subscriptions : /\ t.subscriptions[u].stripe = subscriptions[u].stripe
                                       /\ t.subscriptions[u].plan = subscriptions[u].plan
    /\ event.kind \in {"create", "update"} =>
          t.subscriptions[NewRow].stripe = event.sub /\ t.subscriptions[NewRow].plan = event.plan
    /\ event.kind \in {"signup", "purchase"} =>
          t.subscriptions = subscriptions /\ t.opens = <<>> /\ t.closes = 0
    /\ event.kind = "create" =>
          /\ ActiveIn(t.subscriptions) = Active \cup {NewRow}
          /\ t.opens = Opens(NewRow, event) /\ t.closes = 0
    /\ event.kind = "cycle" => \E s \in Active :
          /\ Active = {s} /\ t.subscriptions = subscriptions
          /\ t.opens = Opens(s, event) /\ t.closes = Latest(cs, s)
    /\ event.kind = "update" => \E s \in Active :
          /\ Active = {s} /\ ActiveIn(t.subscriptions) = {NewRow}
          /\ t.opens = Opens(NewRow, event) /\ t.closes = Latest(cs, s)
    /\ event.kind = "deleted" => \E s \in DOMAIN subscriptions :
          /\ ActiveIn(t.subscriptions) = Active \ {s} /\ subscriptions[s].stripe = event.sub
          /\ clean => \A u \in DOMAIN subscriptions : subscriptions[u].stripe = event.sub => u = s
          /\ t.opens = <<>> /\ t.closes = Latest(cs, s)

LEMMA ShapeRows ==
    ASSUME TypeOK, NEW t \in Transactions, NEW event \in Event, NEW cs, NEW clean,
           Shape(t, event, subscriptions, cs, clean)
    PROVE  RowsAfter(t, event, cs, clean)
<1>m. PICK m : m = NewRow /\ m = Len(subscriptions) + 1
  BY DEF NewRow
<1> DEFINE rows == subscriptions
           r == t.subscriptions
<1>0. rows \in Seq(Subscription) /\ Active = ActiveIn(rows) /\ Len(rows) \in Nat /\ DOMAIN rows = 1..Len(rows)
      /\ Active \subseteq DOMAIN rows /\ event.kind \in Kinds
  BY TableTypes, ActiveFacts DEF TypeOK, Event
<1>1. m \notin DOMAIN rows
  BY <1>m, <1>0
<1>2. CASE event.kind \in {"signup", "purchase"}
  <2>1. r = rows /\ t.closes = 0 /\ t.opens = <<>>
    BY <1>2 DEF Shape
  <2> QED
    BY <1>m, <1>1, <1>2, <2>1 DEF RowsAfter
<1>3. CASE event.kind = "create"
  <2>1. r = Append(rows, Row(event)) /\ t.closes = 0 /\ t.opens = Opens(Len(rows) + 1, event)
    BY <1>3 DEF Shape
  <2> HIDE DEF rows, r, RowsAfter
  <2>2. /\ DOMAIN r = DOMAIN rows \cup {m} /\ (\A u \in DOMAIN rows : r[u] = rows[u])
        /\ r[m].stripe = event.sub /\ r[m].plan = event.plan
        /\ ActiveIn(r) = ActiveIn(rows) \cup {m}
    <3>1. rows \in Seq(Subscription) /\ r = Appended(rows, event) /\ m = Len(rows) + 1
          /\ event \in Event
      BY <1>m, <1>0, <2>1 DEF rows, Appended
    <3>2. AddsRow(r, rows, event)
      BY <3>1, AppendedRows
    <3> QED
      BY <3>1, <3>2 DEF AddsRow
  <2> QED
    BY <1>m, <1>0, <1>1, <1>3, <2>1, <2>2 DEF rows, r, RowsAfter
<1>4. CASE event.kind = "cycle"
  <2>1. PICK s \in Active : Active = {s} /\ r = rows /\ t.opens = Opens(s, event) /\ t.closes = Latest(cs, s)
    BY <1>0, <1>4 DEF Shape
  <2> QED
    BY <1>m, <1>0, <1>1, <1>4, <2>1 DEF RowsAfter
<1>5. CASE event.kind = "update"
  <2>1. PICK s \in Active : /\ Active = {s} /\ t.closes = Latest(cs, s)
                            /\ r = Append(Ended(rows, s, "ended_due_to_plan_change"), Row(event))
                            /\ t.opens = Opens(Len(rows) + 1, event)
    BY <1>0, <1>5 DEF Shape
  <2> DEFINE ended == Ended(rows, s, "ended_due_to_plan_change")
  <2>2. /\ ended \in Seq(Subscription) /\ DOMAIN ended = DOMAIN rows /\ Len(ended) = Len(rows)
        /\ \A u \in DOMAIN rows : ended[u].stripe = rows[u].stripe /\ ended[u].plan = rows[u].plan
        /\ ActiveIn(ended) = ActiveIn(rows) \ {s}
    <3>1. s \in DOMAIN rows /\ "ended_due_to_plan_change" \in Status \ {"active"}
      BY <1>0 DEF Status
    <3> HIDE DEF rows
    <3> QED
      BY <1>0, <3>1, EndedRows
  <2>3. r = Appended(ended, event) /\ m = Len(ended) + 1
    BY <1>m, <2>1, <2>2 DEF Appended
  <2> HIDE DEF rows, r, ended
  <2>4. /\ DOMAIN r = DOMAIN ended \cup {m} /\ (\A u \in DOMAIN ended : r[u] = ended[u])
        /\ r[m].stripe = event.sub /\ r[m].plan = event.plan
        /\ ActiveIn(r) = ActiveIn(ended) \cup {m}
    <3>1. event \in Event /\ ended \in Seq(Subscription)
      BY <2>2
    <3>2. AddsRow(r, ended, event)
      BY <2>3, <3>1, AppendedRows
    <3> QED
      BY <2>3, <3>2 DEF AddsRow
  <2>5. ActiveIn(r) = {m} /\ t.opens = Opens(m, event)
    BY <1>m, <1>0, <2>1, <2>2, <2>4 DEF rows
  <2>6. DOMAIN r = DOMAIN rows \cup {m}
        /\ \A u \in DOMAIN rows : r[u].stripe = rows[u].stripe /\ r[u].plan = rows[u].plan
    BY <2>2, <2>4
  <2> QED
    BY <1>m, <1>1, <1>5, <2>1, <2>4, <2>5, <2>6 DEF rows, r, RowsAfter
<1>6. CASE event.kind = "deleted"
  <2>1. PICK s \in DOMAIN rows :
           /\ rows[s].stripe = event.sub
           /\ clean => \A u \in DOMAIN rows : rows[u].stripe = event.sub => u = s
           /\ t.closes = Latest(cs, s) /\ t.opens = <<>>
           /\ r \in {Ended(rows, s, "canceled"), Ended(rows, s, "expired")}
    BY <1>6 DEF Shape
  <2>2. PICK status \in Status \ {"active"} : r = Ended(rows, s, status)
    BY <2>1 DEF Status
  <2>3. /\ DOMAIN r = DOMAIN rows
        /\ \A u \in DOMAIN rows : r[u].stripe = rows[u].stripe /\ r[u].plan = rows[u].plan
        /\ ActiveIn(r) = ActiveIn(rows) \ {s}
    <3>1. rows \in Seq(Subscription) /\ s \in DOMAIN rows
      BY <1>0, <2>1
    <3> HIDE DEF rows, r, RowsAfter
    <3> QED
      BY <2>2, <3>1, EndedRows, SMTT(30)
  <2> QED
    BY <1>m, <1>0, <1>1, <1>6, <2>1, <2>3 DEF RowsAfter
<1> QED
  BY <1>m, <1>0, <1>2, <1>3, <1>4, <1>5, <1>6 DEF Kinds, RowsAfter

(* The cycles and the ledger after the commit of t. *)
LEMMA CloseFacts ==
    ASSUME TypeOK, NEW t \in Transactions, CloseAndOpen(t)
    PROVE  /\ cycles' \in Seq(Cycle) /\ ledger' \in Seq(Allowance) /\ Len(ledger') = Len(cycles')
           /\ Len(cycles) \in Nat /\ Len(t.opens) \in Nat /\ Len(cycles') = Len(cycles) + Len(t.opens)
           /\ t.opens = <<>> => cycles' = cycles
           /\ \A c \in DOMAIN cycles :
                 /\ cycles'[c] = cycles[c]
                 /\ ledger'[c].allowance = ledger[c].allowance /\ ledger'[c].used = ledger[c].used
                 /\ ledger'[c].expired = ledger[c].expired + (IF c = t.closes THEN t.expires ELSE 0)
           /\ \A i \in 1..Len(t.opens) :
                 /\ cycles'[Len(cycles) + i] = t.opens[i]
                 /\ ledger'[Len(cycles) + i] = [allowance |-> t.grant, used |-> 0, expired |-> 0]
<1>n. PICK n : n = Len(cycles)
  OBVIOUS
<1> DEFINE opens == t.opens
           Closed(c) == IF c = t.closes THEN [ledger[c] EXCEPT !.expired = @ + t.expires] ELSE ledger[c]
           closed == [c \in DOMAIN ledger |-> Closed(c)]
           grant == [allowance |-> t.grant, used |-> 0, expired |-> 0]
           opened == [i \in DOMAIN opens |-> grant]
<1>1. /\ opens \in Seq(Cycle) /\ Len(opens) \in Nat /\ DOMAIN opens = 1..Len(opens)
      /\ t.expires \in Int /\ t.grant \in Int
  BY LenProperties DEF Transactions
<1>2. /\ cycles \in Seq(Cycle) /\ n \in Nat /\ DOMAIN cycles = 1..n
      /\ ledger \in Seq(Allowance) /\ Len(ledger) = n /\ DOMAIN ledger = 1..n
      /\ \A c \in 1..n : /\ ledger[c] \in Allowance /\ ledger[c].allowance \in Int
                         /\ ledger[c].used \in Nat /\ ledger[c].expired \in Int
  BY <1>n, TableTypes DEF TypeOK
<1>3. grant \in Allowance
  BY <1>1 DEF Allowance
<1>4. ASSUME NEW c \in 1..n
      PROVE  /\ Closed(c) \in Allowance
             /\ Closed(c).allowance = ledger[c].allowance /\ Closed(c).used = ledger[c].used
             /\ Closed(c).expired = ledger[c].expired + (IF c = t.closes THEN t.expires ELSE 0)
  <2> DEFINE row == ledger[c]
             sum == row.expired + t.expires
  <2>1. row \in Allowance /\ row.expired \in Int /\ sum \in Int /\ row.expired + 0 = row.expired
    BY <1>1, <1>2
  <2>2. Closed(c) = IF c = t.closes THEN [row EXCEPT !.expired = sum] ELSE row
    OBVIOUS
  <2> HIDE DEF row, sum, Closed
  <2>3. CASE c = t.closes
    <3>1. Closed(c) = [row EXCEPT !.expired = sum]
      BY <2>2, <2>3
    <3>2. /\ Closed(c) \in Allowance /\ Closed(c).allowance = row.allowance
          /\ Closed(c).used = row.used /\ Closed(c).expired = sum
      BY <2>1, <3>1 DEF Allowance
    <3> QED
      BY <2>3, <3>2 DEF row, sum
  <2>4. CASE c # t.closes
    <3>1. Closed(c) = row
      BY <2>2, <2>4
    <3> QED
      BY <2>1, <2>4, <3>1 DEF row
  <2> QED
    BY <2>3, <2>4
<1>5. cycles' = cycles \o opens /\ ledger' = closed \o opened
  BY DEF CloseAndOpen
<1> HIDE DEF Closed, grant, opens
<1>6. /\ closed \in Seq(Allowance) /\ Len(closed) = n /\ \A c \in 1..n : closed[c] = Closed(c)
  BY <1>2, <1>4
<1>7. /\ opened \in Seq(Allowance) /\ Len(opened) = Len(opens)
      /\ \A i \in 1..Len(opens) : opened[i] = grant
  BY <1>1, <1>3
<1> HIDE DEF closed, opened
<1>8. /\ cycles' \in Seq(Cycle) /\ Len(cycles') = n + Len(opens)
      /\ \A c \in 1..n : cycles'[c] = cycles[c]
      /\ \A i \in 1..Len(opens) : cycles'[n + i] = opens[i]
  <2>1. /\ cycles \o opens \in Seq(Cycle) /\ Len(cycles \o opens) = Len(cycles) + Len(opens)
        /\ \A i \in 1..Len(cycles) : (cycles \o opens)[i] = cycles[i]
        /\ \A i \in 1..Len(opens) : (cycles \o opens)[Len(cycles) + i] = opens[i]
    BY <1>1, <1>2, ConcatFacts
  <2> QED
    BY <1>n, <1>5, <2>1
<1>9. /\ ledger' \in Seq(Allowance) /\ Len(ledger') = n + Len(opens)
      /\ \A c \in 1..n : ledger'[c] = closed[c]
      /\ \A i \in 1..Len(opens) : ledger'[n + i] = opened[i]
  <2>1. /\ closed \o opened \in Seq(Allowance) /\ Len(closed \o opened) = Len(closed) + Len(opened)
        /\ \A i \in 1..Len(closed) : (closed \o opened)[i] = closed[i]
        /\ \A i \in 1..Len(opened) : (closed \o opened)[Len(closed) + i] = opened[i]
    <3>1. closed \in Seq(Allowance) /\ opened \in Seq(Allowance)
      BY <1>6, <1>7
    <3> QED
      BY <3>1, ConcatFacts
  <2> QED
    BY <1>5, <1>6, <1>7, <2>1
<1>10. opens = <<>> => cycles' = cycles
  BY <1>2, <1>5, ConcatEmptySeq
<1>11. \A c \in DOMAIN cycles :
          /\ cycles'[c] = cycles[c]
          /\ ledger'[c].allowance = ledger[c].allowance /\ ledger'[c].used = ledger[c].used
          /\ ledger'[c].expired = ledger[c].expired + (IF c = t.closes THEN t.expires ELSE 0)
  <2>1. \A c \in 1..n : ledger'[c] = Closed(c) /\ cycles'[c] = cycles[c]
    BY <1>6, <1>8, <1>9
  <2> QED
    BY <1>2, <1>4, <2>1
<1>12. \A i \in 1..Len(opens) : cycles'[n + i] = opens[i] /\ ledger'[n + i] = grant
  BY <1>7, <1>8, <1>9
<1> QED
  BY <1>1, <1>2, <1>8, <1>9, <1>10, <1>11, <1>12, <1>n DEF opens, grant

LEMMA CommitFacts ==
    ASSUME Inv, Commit, NEW e, e = tx.event
    PROVE  /\ tx \in Transactions /\ e \in DOMAIN events /\ eventRow[e] = "none" /\ ~tx.committed
           /\ events[e] \in Event /\ events[e].kind \in Kinds /\ events[e].period \in Nat
           /\ Shape(tx, events[e], subscriptions, cycles, Clean({"ambiguous"}))
           /\ CloseAndOpen(tx) /\ subscriptions' = tx.subscriptions
           /\ subscriptions' \in Seq(Subscription)
           /\ Clean({"reordered", "strayed"}) => InOrder /\ \A d \in 1..(e - 1) : Handled(d)
           /\ eventRow' \in Seq({"none", "inserted", "processed"}) /\ Len(eventRow') = Len(events)
           /\ \A d \in DOMAIN events : Handled(d)' <=> d = e \/ Handled(d)
           /\ mishaps \subseteq mishaps' /\ mishaps' \subseteq Mishap
           /\ \A which : Clean(which)' => Clean(which)
           /\ CleanLedger' => \A a \in Answers : spend[a] = NoSpend
           /\ UNCHANGED <<customer, events, answer, spend, failures>>
           /\ known' = tx.known /\ extra' = [extra EXCEPT !.bought = @ + tx.buys]
           /\ \/ tx' = NoTx
              \/ tx' = [tx EXCEPT !.committed = TRUE] /\ eventRow'[e] = "inserted"
<1>0. TypeOK /\ TxInv /\ OrderInv
  BY DEF Inv
<1>1. /\ Open(tx) /\ ~tx.committed /\ CloseAndOpen(tx)
      /\ known' = tx.known /\ subscriptions' = tx.subscriptions
      /\ extra' = [extra EXCEPT !.bought = @ + tx.buys]
      /\ eventRow' = [eventRow EXCEPT ![e] = RowAfterCommit(e)]
      /\ tx' = (IF IsCheckout(e) THEN [tx EXCEPT !.committed = TRUE] ELSE NoTx)
      /\ mishaps' = mishaps \cup Overlap(\E a \in Answers : spend[a] # NoSpend)
      /\ UNCHANGED <<customer, events, answer, spend, failures>>
  BY DEF Commit, stripe, bot
<1>2. tx \in Transactions /\ e \in Nat \ {0} /\ e \in 0..Len(events)
      /\ tx.subscriptions \in Seq(Subscription)
  BY <1>0, <1>1 DEF TypeOK, Open, Transactions
<1>3. /\ e \in DOMAIN events /\ DOMAIN eventRow = DOMAIN events /\ DOMAIN events = 1..Len(events)
      /\ events[e] \in Event /\ events[e].kind \in Kinds /\ events[e].period \in Nat
      /\ eventRow \in Seq({"none", "inserted", "processed"}) /\ Len(eventRow) = Len(events)
  <2>1. e \in DOMAIN events
    BY <1>0, <1>2, EventTypes
  <2> QED
    BY <1>0, <2>1, EventTypes DEF TypeOK
<1>4. eventRow[e] = "none" /\ Shape(tx, events[e], subscriptions, cycles, Clean({"ambiguous"}))
  BY <1>0, <1>1 DEF TxInv
<1>5. Clean({"reordered", "strayed"}) => InOrder /\ \A d \in 1..(e - 1) : Handled(d)
  BY <1>0, <1>1 DEF OrderInv
<1> DEFINE row == RowAfterCommit(e)
<1>6. row \in {"inserted", "processed"} /\ (IsCheckout(e) => row = "inserted")
  BY DEF RowAfterCommit
<1>7. eventRow' = [eventRow EXCEPT ![e] = row] /\ row # "none"
      /\ row \in {"none", "inserted", "processed"}
  BY <1>1, <1>6
<1> HIDE DEF row
<1>8. /\ eventRow' \in Seq({"none", "inserted", "processed"}) /\ Len(eventRow') = Len(events)
      /\ \A d \in DOMAIN events : eventRow'[d] = IF d = e THEN row ELSE eventRow[d]
  <2>1. e \in 1..Len(eventRow)
    BY <1>3
  <2> QED
    BY <1>3, <1>7, <2>1, ExceptSeq
<1>9. \A d \in DOMAIN events : Handled(d)' <=> d = e \/ Handled(d)
  BY <1>7, <1>8 DEF Handled
<1>10. mishaps \subseteq mishaps' /\ mishaps' \subseteq Mishap
  BY <1>0, <1>1 DEF TypeOK, Overlap, Mishap
<1>11. \A which : Clean(which)' => Clean(which)
  BY <1>10 DEF Clean
<1>12. CleanLedger' => \A a \in Answers : spend[a] = NoSpend
  <2>1. (\E a \in Answers : spend[a] # NoSpend) => "overlapped" \in mishaps'
    BY <1>1 DEF Overlap
  <2> QED
    BY <2>1 DEF CleanLedger, Clean
<1>13. tx' = NoTx \/ (tx' = [tx EXCEPT !.committed = TRUE] /\ eventRow'[e] = "inserted")
  BY <1>1, <1>3, <1>6, <1>8
<1> QED
  BY <1>1, <1>2, <1>3, <1>4, <1>5, <1>8, <1>9, <1>10, <1>11, <1>12, <1>13

(* Where events are handled in their order: what is known of the subscription
   of the next one. *)
LEMMA NextEvent ==
    ASSUME TypeOK, EventInv, NEW e \in DOMAIN events, eventRow[e] = "none",
           InOrder, \A d \in 1..(e - 1) : Handled(d)
    PROVE  /\ events[e].kind \in {"cycle", "update", "deleted"} => Lasts(events[e].sub)
           /\ events[e].kind = "create" =>
                 ~\E f \in DOMAIN events : /\ Handled(f) /\ events[f].sub = events[e].sub
                                           /\ events[f].kind \in {"create", "deleted"}
<1>1. /\ Len(events) \in Nat /\ DOMAIN events = 1..Len(events) /\ ~Handled(e)
      /\ \A f \in DOMAIN events : 1..(f - 1) \subseteq DOMAIN events
  BY EventTypes DEF Handled
<1>2. ASSUME NEW f \in DOMAIN events, Handled(f) PROVE f < e
  <2>1. f # e /\ ~(e \in 1..(f - 1))
    BY <1>1, <1>2 DEF InOrder
  <2> QED
    BY <1>1, <2>1
<1>3. ASSUME events[e].kind \in {"cycle", "update", "deleted"} PROVE Lasts(events[e].sub)
  <2>1. PICK d \in 1..(e - 1) : events[d].kind = "create" /\ events[d].sub = events[e].sub
    BY <1>3 DEF EventInv, Told
  <2>2. d \in DOMAIN events /\ Handled(d)
    BY <1>1, <2>1
  <2>3. ASSUME NEW f \in DOMAIN events, Handled(f), events[f].kind = "deleted",
               events[f].sub = events[e].sub
        PROVE  FALSE
    <3>1. f \in 1..(e - 1)
      BY <1>1, <1>2, <2>3
    <3>2. ~\E g \in 1..(e - 1) : events[g].kind = "deleted" /\ events[g].sub = events[e].sub
      BY <1>3 DEF EventInv, Told
    <3> QED
      BY <2>3, <3>1, <3>2
  <2> QED
    BY <2>1, <2>2, <2>3 DEF Lasts
<1>4. ASSUME events[e].kind = "create", NEW f \in DOMAIN events, Handled(f),
             events[f].sub = events[e].sub, events[f].kind \in {"create", "deleted"}
      PROVE  FALSE
  <2>1. CASE events[f].kind = "create"
    <3>1. f = e
      BY <1>4, <2>1 DEF EventInv, Told
    <3> QED
      BY <1>1, <1>4, <3>1
  <2>2. CASE events[f].kind = "deleted"
    <3>1. PICK d \in 1..(f - 1) : events[d].kind = "create" /\ events[d].sub = events[f].sub
      BY <2>2 DEF EventInv, Told
    <3>2. d \in DOMAIN events
      BY <1>1, <3>1
    <3>3. d = e
      BY <1>4, <3>1, <3>2 DEF EventInv, Told
    <3>4. e < f
      BY <1>1, <3>1, <3>3
    <3> QED
      BY <1>1, <1>2, <1>4, <3>4
  <2> QED
    BY <1>4, <2>1, <2>2
<1> QED
  BY <1>3, <1>4

LEMMA CommitRows ==
    ASSUME Inv, Commit
    PROVE  RowInv'
<1>e. PICK e, event, m, r : e = tx.event /\ event = events[e] /\ m = NewRow
                            /\ r = tx.subscriptions
  OBVIOUS
<1> SUFFICES ASSUME Clean({"reordered", "ambiguous", "strayed"})' PROVE RowInv'
  BY DEF RowInv
<1>0. TypeOK /\ EventInv /\ RowInv /\ Active = ActiveIn(subscriptions) /\ Active \subseteq DOMAIN subscriptions
  BY ActiveFacts DEF Inv
<1>1. /\ tx \in Transactions /\ e \in DOMAIN events /\ eventRow[e] = "none"
      /\ event \in Event /\ event.kind \in Kinds
      /\ Shape(tx, event, subscriptions, cycles, Clean({"ambiguous"}))
      /\ subscriptions' = r
      /\ Clean({"reordered", "strayed"}) => InOrder /\ \A d \in 1..(e - 1) : Handled(d)
      /\ \A d \in DOMAIN events : Handled(d)' <=> d = e \/ Handled(d)
      /\ \A which : Clean(which)' => Clean(which)
      /\ UNCHANGED <<customer, events>>
  BY <1>e, CommitFacts
<1>2. Clean({"reordered", "ambiguous", "strayed"}) /\ Clean({"reordered", "strayed"}) /\ Clean({"ambiguous"})
  <2>1. Clean({"reordered", "ambiguous", "strayed"})
    BY <1>1
  <2>2. mishaps \cap {"reordered", "ambiguous", "strayed"} = {}
    BY <2>1 DEF Clean
  <2> QED
    BY <2>1, <2>2 DEF Clean
<1>3. /\ \A s \in Active : Lasts(subscriptions[s].stripe)
      /\ \A s, u \in Active : subscriptions[s].stripe = subscriptions[u].stripe => s = u
      /\ \A x \in DOMAIN customer.subs : Lasts(x) => \E s \in Active : subscriptions[s].stripe = x
      /\ \A s \in Active : PlanTold(subscriptions[s].stripe, subscriptions[s].plan)
  BY <1>0, <1>2 DEF RowInv
<1>4. /\ event.kind \in {"cycle", "update", "deleted"} => Lasts(event.sub)
      /\ event.kind = "create" =>
            ~\E f \in DOMAIN events : /\ Handled(f) /\ events[f].sub = event.sub
                                      /\ events[f].kind \in {"create", "deleted"}
      /\ event.kind \notin {"signup", "purchase"} => event.sub \in DOMAIN customer.subs
  <2>1. InOrder /\ \A d \in 1..(e - 1) : Handled(d)
    BY <1>1, <1>2
  <2>2. event.kind \notin {"signup", "purchase"} => event.sub \in DOMAIN customer.subs
    BY <1>e, <1>0, <1>1 DEF EventInv, Told
  <2> QED
    BY <1>e, <1>0, <1>1, <2>1, <2>2, NextEvent
<1>5. /\ m \notin DOMAIN subscriptions
      /\ \A u \in DOMAIN subscriptions : r[u].stripe = subscriptions[u].stripe
                                         /\ r[u].plan = subscriptions[u].plan
      /\ event.kind \in {"create", "update"} => r[m].stripe = event.sub /\ r[m].plan = event.plan
      /\ event.kind \in {"signup", "purchase"} => r = subscriptions
      /\ event.kind = "create" => ActiveIn(r) = Active \cup {m}
      /\ event.kind = "cycle" => r = subscriptions
      /\ event.kind = "update" => \E s \in Active : Active = {s} /\ ActiveIn(r) = {m}
      /\ event.kind = "deleted" => \E s \in DOMAIN subscriptions :
            /\ ActiveIn(r) = Active \ {s} /\ subscriptions[s].stripe = event.sub
            /\ \A u \in DOMAIN subscriptions : subscriptions[u].stripe = event.sub => u = s
  <2> DEFINE clean == Clean({"ambiguous"})
  <2>1. Shape(tx, event, subscriptions, cycles, clean) /\ clean /\ tx \in Transactions /\ event \in Event
        /\ m = NewRow /\ r = tx.subscriptions
    BY <1>e, <1>1, <1>2
  <2> HIDE DEF clean
  <2>2. RowsAfter(tx, event, cycles, clean)
    BY <1>0, <2>1, ShapeRows
  <2> QED
    BY <2>1, <2>2 DEF RowsAfter
<1>6. Active' = ActiveIn(r)
  BY <1>1 DEF Active, ActiveIn
<1>7. \A x : Lasts(x)' <=>
         /\ (event.kind = "create" /\ event.sub = x) \/
            \E f \in DOMAIN events : Handled(f) /\ events[f].kind = "create" /\ events[f].sub = x
         /\ ~(event.kind = "deleted" /\ event.sub = x)
         /\ ~\E f \in DOMAIN events : Handled(f) /\ events[f].kind = "deleted" /\ events[f].sub = x
  BY <1>e, <1>1 DEF Lasts
<1>8. event.kind \notin {"create", "deleted"} => \A x : Lasts(x)' <=> Lasts(x)
  BY <1>7 DEF Lasts
<1>p. ASSUME NEW x, NEW plan, PlanTold(x, plan), ~SetsPlan(event, x)
      PROVE  PlanTold(x, plan)'
  <2> SUFFICES ASSUME NEW f \in DOMAIN events, Handled(f)', SetsPlan(events[f], x),
                      \A d \in DOMAIN events : d > f /\ Handled(d)' => ~SetsPlan(events[d], x)
               PROVE  plan = events[f].plan
    BY <1>1 DEF PlanTold, SetsPlan
  <2>1. f # e /\ Handled(f)
    BY <1>e, <1>1, <1>p
  <2>2. \A d \in DOMAIN events : d > f /\ Handled(d) => ~SetsPlan(events[d], x)
    BY <1>1
  <2> QED
    BY <1>p, <2>1, <2>2 DEF PlanTold
<1>q. SetsPlan(event, event.sub) => PlanTold(event.sub, event.plan)'
  <2> SUFFICES ASSUME SetsPlan(event, event.sub), NEW f \in DOMAIN events, Handled(f)',
                      SetsPlan(events[f], event.sub),
                      \A d \in DOMAIN events : d > f /\ Handled(d)' => ~SetsPlan(events[d], event.sub)
               PROVE  event.plan = events[f].plan
    BY <1>1 DEF PlanTold, SetsPlan
  <2>1. ~(e > f)
    BY <1>e, <1>1
  <2>2. f # e => Handled(f) /\ ~(e \in 1..(f - 1))
    BY <1>1, <1>2 DEF InOrder, Handled
  <2>3. e \in Nat \ {0} /\ f \in Nat \ {0}
    BY <1>0, <1>1, EventTypes
  <2>4. f = e
    BY <2>1, <2>2, <2>3
  <2> QED
    BY <1>e, <2>4
<1>9. CASE event.kind \in {"signup", "purchase", "cycle"}
  <2>1. r = subscriptions /\ Active' = Active /\ \A x : ~SetsPlan(event, x)
    BY <1>0, <1>5, <1>6, <1>9 DEF SetsPlan
  <2>2. \A s \in Active' : PlanTold(r[s].stripe, r[s].plan)'
    BY <1>p, <1>3, <2>1
  <2> QED
    BY <1>1, <1>3, <1>8, <1>9, <2>1, <2>2 DEF RowInv
<1>10. CASE event.kind = "create"
  <2>1. Lasts(event.sub)' /\ ~Lasts(event.sub) /\ \A x : x # event.sub => (Lasts(x)' <=> Lasts(x))
    BY <1>4, <1>7, <1>10, SMTT(60) DEF Lasts
  <2>2. Active' = Active \cup {m} /\ r[m].stripe = event.sub
    BY <1>5, <1>6, <1>10
  <2>3. \A s \in Active : /\ r[s].stripe = subscriptions[s].stripe /\ r[s].plan = subscriptions[s].plan
                          /\ subscriptions[s].stripe # event.sub
    BY <1>0, <1>3, <1>5, <2>1
  <2>7. \A s \in Active' : PlanTold(r[s].stripe, r[s].plan)'
    <3>1. SetsPlan(event, event.sub) /\ r[m].plan = event.plan
          /\ \A s \in Active : ~SetsPlan(event, subscriptions[s].stripe)
      BY <1>5, <1>10, <2>3 DEF SetsPlan
    <3>2. \A s \in Active : PlanTold(r[s].stripe, r[s].plan) /\ ~SetsPlan(event, r[s].stripe)
      BY <1>3, <2>3, <3>1
    <3>3. \A s \in Active : PlanTold(r[s].stripe, r[s].plan)'
      BY <1>p, <3>2
    <3>4. PlanTold(r[m].stripe, r[m].plan)'
      BY <1>q, <2>2, <3>1
    <3> QED
      BY <2>2, <3>3, <3>4
  <2>4. \A s \in Active' : Lasts(r[s].stripe)'
    BY <1>3, <2>1, <2>2, <2>3
  <2>5. \A s, u \in Active' : r[s].stripe = r[u].stripe => s = u
    BY <1>3, <2>2, <2>3
  <2>6. \A x \in DOMAIN customer.subs : Lasts(x)' => \E s \in Active' : r[s].stripe = x
    BY <1>3, <2>1, <2>2, <2>3
  <2> QED
    BY <1>1, <2>4, <2>5, <2>6, <2>7 DEF RowInv
<1>11. CASE event.kind = "update"
  <2>1. PICK s \in Active : Active = {s} /\ Active' = {m} /\ r[m].stripe = event.sub
    BY <1>5, <1>6, <1>11
  <2>2. Lasts(event.sub) /\ event.sub \in DOMAIN customer.subs
    BY <1>4, <1>11
  <2>3. subscriptions[s].stripe = event.sub
    BY <1>3, <2>1, <2>2
  <2>4. \A x : Lasts(x)' <=> Lasts(x)
    BY <1>8, <1>11
  <2>5. \A u \in Active' : Lasts(r[u].stripe)'
    BY <2>1, <2>2, <2>4
  <2>6. \A x \in DOMAIN customer.subs : Lasts(x)' => \E u \in Active' : r[u].stripe = x
    BY <1>3, <2>1, <2>3, <2>4
  <2>7. PlanTold(r[m].stripe, r[m].plan)'
    <3>1. SetsPlan(event, event.sub) /\ r[m].plan = event.plan
      BY <1>5, <1>11 DEF SetsPlan
    <3> QED
      BY <1>q, <2>1, <3>1
  <2> QED
    BY <1>1, <2>1, <2>5, <2>6, <2>7 DEF RowInv
<1>12. CASE event.kind = "deleted"
  <2>1. PICK s \in DOMAIN subscriptions :
           /\ Active' = Active \ {s} /\ subscriptions[s].stripe = event.sub
           /\ \A u \in DOMAIN subscriptions : subscriptions[u].stripe = event.sub => u = s
    BY <1>5, <1>6, <1>12
  <2>2. ~Lasts(event.sub)' /\ \A x : x # event.sub => (Lasts(x)' <=> Lasts(x))
    BY <1>7, <1>12 DEF Lasts
  <2>3. \A u \in Active' : /\ u \in Active /\ r[u].stripe = subscriptions[u].stripe
                           /\ r[u].plan = subscriptions[u].plan
                           /\ subscriptions[u].stripe # event.sub
    BY <1>0, <1>5, <2>1
  <2>4. \A u \in Active' : Lasts(r[u].stripe)'
    BY <1>3, <2>2, <2>3
  <2>5. \A u, v \in Active' : r[u].stripe = r[v].stripe => u = v
    BY <1>3, <2>3
  <2>6. ASSUME NEW x \in DOMAIN customer.subs, Lasts(x)' PROVE \E u \in Active' : r[u].stripe = x
    <3>1. x # event.sub /\ Lasts(x)
      BY <2>2, <2>6
    <3>2. PICK u \in Active : subscriptions[u].stripe = x
      BY <1>3, <3>1
    <3>3. u \in Active'
      BY <2>1, <3>1, <3>2
    <3> QED
      BY <2>3, <3>2, <3>3
  <2>7. \A u \in Active' : PlanTold(r[u].stripe, r[u].plan)'
    <3>1. \A x : ~SetsPlan(event, x)
      BY <1>12 DEF SetsPlan
    <3> QED
      BY <1>p, <1>3, <2>3, <3>1
  <2> QED
    BY <1>1, <2>4, <2>5, <2>6, <2>7 DEF RowInv
<1> QED
  BY <1>1, <1>9, <1>10, <1>11, <1>12 DEF Kinds

(* Closing the last cycle of an active subscription, opening one of a
   subscription that is active afterwards, or both. *)
LEMMA Reopens ==
    ASSUME TypeOK, CycleInv, LedgerInv, CleanLedger,
           NEW t \in Transactions, CloseAndOpen(t), NEW sub, NEW end \in Nat,
           \/ t.opens = <<>>
           \/ /\ t.opens = <<[sub |-> sub, end |-> end]>> /\ sub \in Active' /\ t.grant >= 0
              /\ \A c \in DOMAIN cycles : cycles[c].sub = sub => cycles[c].end < end,
           t.closes # 0 => /\ t.expires = Remaining(t.closes)
                           /\ \E s \in Active : t.closes = Latest(cycles, s),
           \A u \in Active' : \/ t.opens # <<>> /\ u = sub
                              \/ u \in Active /\ Latest(cycles, u) # t.closes,
           \A u \in Active : \/ Latest(cycles, u) = t.closes
                             \/ u \in Active' /\ ~(t.opens # <<>> /\ u = sub)
    PROVE  /\ \A c, d \in DOMAIN cycles' :
                 c < d /\ cycles'[c].sub = cycles'[d].sub => cycles'[c].end < cycles'[d].end
           /\ \A c \in DOMAIN cycles' : (\A s \in Active' : c # Latest(cycles', s)) => Settled(c)'
           /\ \A s \in Active' : ledger'[Latest(cycles', s)].expired = 0
           /\ \A s \in Active' :
                 ledger'[Latest(cycles', s)].allowance - ledger'[Latest(cycles', s)].used >= 0
<1>n. PICK n : n = Len(cycles)
  OBVIOUS
<1>1. /\ cycles' \in Seq(Cycle) /\ n \in Nat /\ Len(t.opens) \in Nat /\ Len(cycles') = n + Len(t.opens)
      /\ \A c \in DOMAIN cycles :
            /\ cycles'[c] = cycles[c]
            /\ ledger'[c].allowance = ledger[c].allowance /\ ledger'[c].used = ledger[c].used
            /\ ledger'[c].expired = ledger[c].expired + (IF c = t.closes THEN t.expires ELSE 0)
      /\ \A i \in 1..Len(t.opens) :
            /\ cycles'[n + i] = t.opens[i]
            /\ ledger'[n + i] = [allowance |-> t.grant, used |-> 0, expired |-> 0]
  <2>1. /\ cycles' \in Seq(Cycle) /\ Len(cycles) \in Nat /\ Len(t.opens) \in Nat
        /\ Len(cycles') = Len(cycles) + Len(t.opens)
        /\ \A c \in DOMAIN cycles :
              /\ cycles'[c] = cycles[c]
              /\ ledger'[c].allowance = ledger[c].allowance /\ ledger'[c].used = ledger[c].used
              /\ ledger'[c].expired = ledger[c].expired + (IF c = t.closes THEN t.expires ELSE 0)
        /\ \A i \in 1..Len(t.opens) :
              /\ cycles'[Len(cycles) + i] = t.opens[i]
              /\ ledger'[Len(cycles) + i] = [allowance |-> t.grant, used |-> 0, expired |-> 0]
    BY CloseFacts
  <2> QED
    BY <1>n, <2>1
<1>2. /\ DOMAIN cycles = 1..n
      /\ \A c \in DOMAIN cycles : /\ cycles[c].end \in Nat /\ cycles[c].sub \in Nat
                                  /\ ledger[c].allowance \in Int /\ ledger[c].used \in Nat
                                  /\ ledger[c].expired \in Int /\ Remaining(c) \in Int
      /\ Active \subseteq DOMAIN subscriptions
  BY <1>n, TableTypes, ActiveFacts
<1> DEFINE opened == t.opens # <<>>
           new == n + 1
<1>3. /\ new \notin DOMAIN cycles /\ \A c \in DOMAIN cycles : c < new /\ ~(new < c)
      /\ DOMAIN cycles' = IF opened THEN DOMAIN cycles \cup {new} ELSE DOMAIN cycles
  <2>1. DOMAIN cycles' = 1..(n + Len(t.opens))
    BY <1>1, LenProperties
  <2>2. Len(t.opens) = IF opened THEN 1 ELSE 0
    <3>1. t.opens # <<>> => t.opens = <<[sub |-> sub, end |-> end]>>
      OBVIOUS
    <3>2. Len(<<[sub |-> sub, end |-> end]>>) = 1 /\ Len(<<>>) = 0
      OBVIOUS
    <3> QED
      BY <3>1, <3>2
  <2> HIDE DEF opened
  <2>3. DOMAIN cycles' = IF opened THEN 1..(n + 1) ELSE 1..n
    BY <1>1, <2>1, <2>2
  <2>4. 1..(n + 1) = 1..n \cup {new} /\ new \notin 1..n /\ \A c \in 1..n : c < new /\ ~(new < c)
    BY <1>1
  <2> HIDE DEF new
  <2> QED
    BY <1>2, <2>3, <2>4
<1>4. opened => /\ cycles'[new].sub = sub /\ cycles'[new].end = end /\ sub \in Active' /\ t.grant >= 0
                /\ ledger'[new].allowance = t.grant /\ ledger'[new].used = 0 /\ ledger'[new].expired = 0
                /\ \A c \in DOMAIN cycles : cycles[c].sub = sub => cycles[c].end < end
  <2> SUFFICES ASSUME opened
               PROVE  /\ cycles'[new].sub = sub /\ cycles'[new].end = end /\ sub \in Active' /\ t.grant >= 0
                      /\ ledger'[new].allowance = t.grant /\ ledger'[new].used = 0 /\ ledger'[new].expired = 0
                      /\ \A c \in DOMAIN cycles : cycles[c].sub = sub => cycles[c].end < end
    OBVIOUS
  <2>1. /\ t.opens = <<[sub |-> sub, end |-> end]>> /\ sub \in Active' /\ t.grant >= 0
        /\ \A c \in DOMAIN cycles : cycles[c].sub = sub => cycles[c].end < end
    OBVIOUS
  <2>2. 1 \in 1..Len(t.opens) /\ t.opens[1] = [sub |-> sub, end |-> end]
    BY <2>1
  <2>3. cycles'[new] = [sub |-> sub, end |-> end]
        /\ ledger'[new] = [allowance |-> t.grant, used |-> 0, expired |-> 0]
    BY <1>1, <2>2
  <2> QED
    BY <2>1, <2>3
<1>5. t.grant \in Int
  BY DEF Transactions
<1>6. /\ \A c, d \in DOMAIN cycles : c < d /\ cycles[c].sub = cycles[d].sub => cycles[c].end < cycles[d].end
      /\ \A c \in DOMAIN cycles : (\A s \in Active : c # Latest(cycles, s)) => Settled(c)
      /\ \A s \in Active : ledger[Latest(cycles, s)].expired = 0 /\ Remaining(Latest(cycles, s)) >= 0
  BY DEF LedgerInv
<1>7. /\ \A u \in Active' : (opened /\ u = sub) \/ (u \in Active /\ Latest(cycles, u) # t.closes)
      /\ \A u \in Active : Latest(cycles, u) = t.closes \/ (u \in Active' /\ ~(opened /\ u = sub))
  OBVIOUS
<1> HIDE DEF opened, new
<1>8. ASSUME NEW c \in DOMAIN cycles', NEW d \in DOMAIN cycles', c < d, cycles'[c].sub = cycles'[d].sub
      PROVE  cycles'[c].end < cycles'[d].end
  <2>1. CASE d \in DOMAIN cycles
    <3>1. c \in DOMAIN cycles
      BY <1>3, <1>8, <2>1
    <3> QED
      BY <1>1, <1>6, <1>8, <2>1, <3>1
  <2>2. CASE d \notin DOMAIN cycles
    <3>1. opened /\ d = new
      BY <1>3, <2>2
    <3>2. c # new
      BY <1>1, <1>3, <1>8, <3>1 DEF new
    <3>3. c \in DOMAIN cycles
      BY <1>3, <3>1, <3>2
    <3> QED
      BY <1>1, <1>4, <1>8, <3>1, <3>3
  <2> QED
    BY <2>1, <2>2
<1>9. \A c \in DOMAIN cycles' : cycles'[c].end \in Nat
  <2>1. \A c \in DOMAIN cycles' : cycles'[c] \in Cycle
    BY <1>1, ElementOfSeq, LenProperties
  <2> QED
    BY <2>1 DEF Cycle
<1>10. ASSUME NEW u \in Active, ~(opened /\ u = sub)
       PROVE  /\ Latest(cycles', u) = Latest(cycles, u)
              /\ Latest(cycles, u) \in DOMAIN cycles /\ cycles[Latest(cycles, u)].sub = u
  <2>0. u \in DOMAIN subscriptions
    BY <1>2
  <2>1. PICK c : c = Latest(cycles, u)
    OBVIOUS
  <2>2. /\ c \in DOMAIN cycles /\ cycles[c].sub = u
        /\ \A d \in DOMAIN cycles : cycles[d].sub = u => cycles[d].end <= cycles[c].end
    BY <2>0, <2>1, LatestFacts
  <2>3. c \in CyclesIn(cycles', u)
    BY <1>1, <1>3, <2>2 DEF CyclesIn
  <2>4. ASSUME NEW d \in CyclesIn(cycles', u)
        PROVE  cycles'[d].end \in Nat /\ (d # c => cycles'[d].end < cycles'[c].end)
    <3>1. d \in DOMAIN cycles' /\ cycles'[d].sub = u
      BY DEF CyclesIn
    <3>2. d \in DOMAIN cycles
      BY <1>3, <1>4, <1>10, <3>1
    <3>3. cycles[d].sub = u /\ cycles'[d] = cycles[d] /\ cycles'[c] = cycles[c]
      BY <1>1, <2>2, <3>1, <3>2
    <3>4. cycles[d].end <= cycles[c].end /\ cycles[d].end \in Nat /\ cycles[c].end \in Nat
      BY <1>2, <2>2, <3>2, <3>3
    <3>5. d # c => d < c \/ c < d
      BY <1>1, <1>2, <2>2, <3>2
    <3>6. /\ d < c => cycles[d].end < cycles[c].end
          /\ c < d => cycles[c].end < cycles[d].end
      BY <1>6, <2>2, <3>2, <3>3
    <3>7. d # c => cycles[d].end < cycles[c].end
      BY <3>4, <3>5, <3>6
    <3> QED
      BY <3>3, <3>4, <3>7
  <2>5. Latest(cycles', u) = c
    <3> DEFINE cs == cycles'
    <3>1. c \in CyclesIn(cs, u)
          /\ \A d \in CyclesIn(cs, u) : cs[d].end \in Nat /\ (d # c => cs[d].end < cs[c].end)
      BY <2>3, <2>4
    <3> HIDE DEF cs
    <3>2. Latest(cs, u) = c
      BY <3>1, LatestIsLast
    <3> QED
      BY <3>2 DEF cs
  <2> QED
    BY <2>1, <2>2, <2>5
<1>11. opened => Latest(cycles', sub) = new
  <2> SUFFICES ASSUME opened PROVE Latest(cycles', sub) = new
    OBVIOUS
  <2> DEFINE cs == cycles'
  <2>1. new \in CyclesIn(cs, sub)
    BY <1>3, <1>4 DEF CyclesIn
  <2>2. \A d \in CyclesIn(cs, sub) : cs[d].end \in Nat /\ (d # new => cs[d].end < cs[new].end)
    BY <1>1, <1>3, <1>4, <1>9 DEF CyclesIn
  <2> HIDE DEF cs
  <2>3. Latest(cs, sub) = new
    BY <2>1, <2>2, LatestIsLast
  <2> QED
    BY <2>3 DEF cs
<1>12. ASSUME NEW c \in DOMAIN cycles', \A s \in Active' : c # Latest(cycles', s)
       PROVE  Settled(c)'
  <2>1. c \in DOMAIN cycles
    BY <1>3, <1>4, <1>11, <1>12
  <2>2. CASE c = t.closes
    <3>1. PICK s \in Active : c = Latest(cycles, s) /\ t.expires = Remaining(c)
      BY <1>2, <2>1, <2>2
    <3>2. ledger[c].expired = 0
      BY <1>6, <3>1
    <3>3. ledger'[c].expired = 0 + Remaining(c)
      BY <1>1, <2>1, <2>2, <3>1, <3>2
    <3>4. ledger'[c].expired = ledger'[c].allowance - ledger'[c].used
      BY <1>1, <1>2, <2>1, <3>3 DEF Remaining
    <3> QED
      BY <3>4 DEF Settled, Remaining
  <2>3. CASE c # t.closes
    <3>1. ASSUME NEW u \in Active PROVE c # Latest(cycles, u)
      <4>1. CASE Latest(cycles, u) = t.closes
        BY <2>3, <4>1
      <4>2. CASE u \in Active' /\ ~(opened /\ u = sub)
        BY <1>10, <1>12, <4>2
      <4> QED
        BY <1>7, <4>1, <4>2
    <3>2. Settled(c)
      BY <1>6, <2>1, <3>1
    <3>3. ledger'[c].expired = ledger[c].expired
      BY <1>1, <1>2, <2>1, <2>3
    <3> QED
      BY <1>1, <2>1, <3>2, <3>3 DEF Settled, Remaining
  <2> QED
    BY <2>2, <2>3
<1>13. ASSUME NEW u \in Active'
       PROVE  /\ ledger'[Latest(cycles', u)].expired = 0
              /\ ledger'[Latest(cycles', u)].allowance - ledger'[Latest(cycles', u)].used >= 0
  <2>1. CASE opened /\ u = sub
    BY <1>4, <1>5, <1>11, <2>1
  <2>2. CASE u \in Active /\ Latest(cycles, u) # t.closes /\ ~(opened /\ u = sub)
    <3>1. PICK c \in DOMAIN cycles : c = Latest(cycles, u) /\ c = Latest(cycles', u)
      BY <1>10, <2>2
    <3>2. ledger[c].expired = 0 /\ Remaining(c) >= 0 /\ c # t.closes
      BY <1>6, <2>2, <3>1
    <3>3. /\ ledger'[c].expired = ledger[c].expired + 0
          /\ ledger'[c].allowance = ledger[c].allowance /\ ledger'[c].used = ledger[c].used
      BY <1>1, <3>2
    <3> QED
      BY <3>1, <3>2, <3>3 DEF Remaining
  <2> QED
    BY <1>7, <2>1, <2>2
<1> QED
  BY <1>8, <1>12, <1>13

(* What the transaction that commits closes and opens, in a ledger that is
   clean. *)
LEMMA CommitReopens ==
    ASSUME Inv, CreditInv, Commit, CleanLedger', NEW p, p = events[tx.event].period
    PROVE  \E sub :
              /\ \/ tx.opens = <<>>
                 \/ /\ tx.opens = <<[sub |-> sub, end |-> p]>> /\ sub \in Active' /\ tx.grant >= 0
                    /\ \A c \in DOMAIN cycles : cycles[c].sub = sub => cycles[c].end < p
              /\ tx.closes # 0 => /\ tx.expires = Remaining(tx.closes)
                                  /\ \E s \in Active : tx.closes = Latest(cycles, s)
              /\ \A u \in Active' : \/ tx.opens # <<>> /\ u = sub
                                    \/ u \in Active /\ Latest(cycles, u) # tx.closes
              /\ \A u \in Active : \/ Latest(cycles, u) = tx.closes
                                   \/ u \in Active' /\ ~(tx.opens # <<>> /\ u = sub)
<1>e. PICK e, event, m : e = tx.event /\ event = events[e] /\ m = NewRow
  OBVIOUS
<1>0. TypeOK /\ EventInv /\ RowInv /\ CycleInv /\ Active \subseteq DOMAIN subscriptions
  BY ActiveFacts DEF Inv
<1>1. /\ tx \in Transactions /\ e \in DOMAIN events /\ eventRow[e] = "none"
      /\ event \in Event /\ event.kind \in Kinds
      /\ Shape(tx, event, subscriptions, cycles, Clean({"ambiguous"}))
      /\ Clean({"reordered", "strayed"}) => InOrder /\ \A d \in 1..(e - 1) : Handled(d)
      /\ \A which : Clean(which)' => Clean(which)
      /\ Open(tx) /\ ~tx.committed
      /\ Active' = ActiveIn(tx.subscriptions)
  <2>1. subscriptions' = tx.subscriptions
    BY <1>e, CommitFacts
  <2>2. Active' = ActiveIn(tx.subscriptions)
    BY <2>1 DEF Active, ActiveIn
  <2>3. Open(tx) /\ ~tx.committed
    BY DEF Commit
  <2> QED
    BY <1>e, <2>2, <2>3, CommitFacts
<1>2. CleanLedger /\ Clean({"reordered", "ambiguous", "strayed"}) /\ Clean({"reordered", "strayed"}) /\ Clean({"ambiguous"})
  <2>1. CleanLedger
    BY <1>1 DEF CleanLedger
  <2> QED
    BY <2>1 DEF CleanLedger, Clean
<1>3. /\ tx.closes # 0 => tx.expires = Remaining(tx.closes)
      /\ tx.opens # <<>> => tx.grant >= 0
  BY <1>1, <1>2 DEF CreditInv, PendingInv
<1>4. /\ m \notin DOMAIN subscriptions
      /\ event.kind \in {"signup", "purchase"} => tx.subscriptions = subscriptions /\ tx.opens = <<>> /\ tx.closes = 0
      /\ event.kind = "create" =>
            ActiveIn(tx.subscriptions) = Active \cup {m} /\ tx.opens = Opens(m, event) /\ tx.closes = 0
      /\ event.kind = "cycle" => \E s \in Active :
            /\ Active = {s} /\ tx.subscriptions = subscriptions
            /\ tx.opens = Opens(s, event) /\ tx.closes = Latest(cycles, s)
      /\ event.kind = "update" => \E s \in Active :
            /\ Active = {s} /\ ActiveIn(tx.subscriptions) = {m}
            /\ tx.opens = Opens(m, event) /\ tx.closes = Latest(cycles, s)
      /\ event.kind = "deleted" => \E s \in DOMAIN subscriptions :
            /\ ActiveIn(tx.subscriptions) = Active \ {s} /\ subscriptions[s].stripe = event.sub
            /\ \A u \in DOMAIN subscriptions : subscriptions[u].stripe = event.sub => u = s
            /\ tx.opens = <<>> /\ tx.closes = Latest(cycles, s)
  <2> DEFINE clean == Clean({"ambiguous"})
  <2>1. Shape(tx, event, subscriptions, cycles, clean) /\ clean /\ tx \in Transactions /\ event \in Event
        /\ m = NewRow
    BY <1>e, <1>1, <1>2
  <2> HIDE DEF clean
  <2>2. RowsAfter(tx, event, cycles, clean)
    BY <1>0, <2>1, ShapeRows
  <2> QED
    BY <2>1, <2>2 DEF RowsAfter
<1>5. /\ \A u \in DOMAIN subscriptions :
            Latest(cycles, u) \in DOMAIN cycles /\ cycles[Latest(cycles, u)].sub = u /\ Latest(cycles, u) # 0
      /\ \A c \in DOMAIN cycles : cycles[c].sub \in DOMAIN subscriptions
  <2>1. 0 \notin DOMAIN cycles
    BY <1>0, TableTypes
  <2>2. \A u \in DOMAIN subscriptions :
           Latest(cycles, u) \in DOMAIN cycles /\ cycles[Latest(cycles, u)].sub = u
    BY <1>0, LatestFacts
  <2>3. \A c \in DOMAIN cycles : cycles[c].sub \in DOMAIN subscriptions
    BY <1>0 DEF TypeOK
  <2> QED
    BY <2>1, <2>2, <2>3
<1>6. \A u, v \in Active : Latest(cycles, u) = Latest(cycles, v) => u = v
  BY <1>0, <1>5
<1>7. \A s : Opens(s, event) = <<[sub |-> s, end |-> p]>> /\ Opens(s, event) # <<>>
  BY <1>e DEF Opens
<1>8. CASE event.kind \in {"signup", "purchase"}
  <2>1. tx.opens = <<>> /\ tx.closes = 0 /\ Active' = Active
    BY <1>0, <1>1, <1>4, <1>8 DEF Active, ActiveIn
  <2>2. \A u \in Active : Latest(cycles, u) # tx.closes
    BY <1>0, <1>5, <2>1
  <2> QED
    BY <2>1, <2>2
<1>9. CASE event.kind = "create"
  <2>1. Active' = Active \cup {m} /\ tx.opens = Opens(m, event) /\ tx.closes = 0 /\ m \notin Active
    BY <1>0, <1>1, <1>4, <1>9
  <2>2. \A c \in DOMAIN cycles : cycles[c].sub # m
    BY <1>4, <1>5
  <2>3. \A u \in Active : Latest(cycles, u) # tx.closes /\ u # m /\ u \in Active'
    BY <1>0, <1>5, <2>1
  <2>4. tx.opens = <<[sub |-> m, end |-> p]>> /\ tx.opens # <<>> /\ m \in Active' /\ tx.grant >= 0
    BY <1>3, <1>7, <2>1
  <2> QED
    BY <2>1, <2>2, <2>3, <2>4
<1>10. CASE event.kind = "cycle"
  <2>1. PICK s \in Active : /\ Active = {s} /\ Active' = {s}
                            /\ tx.opens = Opens(s, event) /\ tx.closes = Latest(cycles, s)
    BY <1>1, <1>4, <1>10 DEF Active, ActiveIn
  <2>2. \A c \in DOMAIN cycles : cycles[c].end < p
    <3>1. ~Handled(e) /\ events[e].kind = "cycle" /\ p = events[e].period
      BY <1>e, <1>1, <1>10 DEF Handled
    <3> QED
      BY <1>1, <1>2, <3>1 DEF CreditInv, LedgerInv
  <2>3. tx.opens = <<[sub |-> s, end |-> p]>> /\ tx.opens # <<>> /\ s \in Active' /\ tx.grant >= 0
    BY <1>3, <1>7, <2>1
  <2>4. tx.closes # 0 => tx.expires = Remaining(tx.closes) /\ \E u \in Active : tx.closes = Latest(cycles, u)
    BY <1>3, <2>1
  <2> QED
    BY <2>1, <2>2, <2>3, <2>4
<1>11. CASE event.kind = "update"
  <2>1. PICK s \in Active : /\ Active = {s} /\ Active' = {m}
                            /\ tx.opens = Opens(m, event) /\ tx.closes = Latest(cycles, s)
    BY <1>1, <1>4, <1>11
  <2>2. \A c \in DOMAIN cycles : cycles[c].sub # m
    BY <1>4, <1>5
  <2>3. tx.opens = <<[sub |-> m, end |-> p]>> /\ tx.opens # <<>> /\ m \in Active' /\ tx.grant >= 0
    BY <1>3, <1>7, <2>1
  <2>4. tx.closes # 0 => tx.expires = Remaining(tx.closes) /\ \E u \in Active : tx.closes = Latest(cycles, u)
    BY <1>3, <2>1
  <2> QED
    BY <2>1, <2>2, <2>3, <2>4
<1>12. CASE event.kind = "deleted"
  <2>1. PICK s \in DOMAIN subscriptions :
           /\ Active' = Active \ {s} /\ subscriptions[s].stripe = event.sub
           /\ \A u \in DOMAIN subscriptions : subscriptions[u].stripe = event.sub => u = s
           /\ tx.opens = <<>> /\ tx.closes = Latest(cycles, s)
    BY <1>1, <1>4, <1>12
  <2>2. s \in Active
    <3>1. InOrder /\ \A d \in 1..(e - 1) : Handled(d)
      BY <1>1, <1>2
    <3>2. Lasts(event.sub) /\ event.sub \in DOMAIN customer.subs
      <4>1. Lasts(event.sub)
        BY <1>e, <1>0, <1>1, <1>12, <3>1, NextEvent
      <4>2. event.sub \in DOMAIN customer.subs
        BY <1>e, <1>0, <1>1, <1>12 DEF EventInv, Told
      <4> QED
        BY <4>1, <4>2
    <3>3. PICK u \in Active : subscriptions[u].stripe = event.sub
      BY <1>0, <1>2, <3>2 DEF RowInv
    <3> QED
      BY <1>0, <2>1, <3>3
  <2>3. \A u \in Active : Latest(cycles, u) = tx.closes => u = s
    BY <1>6, <2>1, <2>2
  <2>4. tx.closes # 0 => tx.expires = Remaining(tx.closes) /\ \E u \in Active : tx.closes = Latest(cycles, u)
    BY <1>3, <2>1, <2>2
  <2>5. \A u \in Active' : u \in Active /\ Latest(cycles, u) # tx.closes
    BY <2>1, <2>3
  <2>6. \A u \in Active : Latest(cycles, u) = tx.closes \/ u \in Active'
    BY <2>1
  <2> QED
    BY <2>1, <2>4, <2>5, <2>6
<1> QED
  BY <1>1, <1>8, <1>9, <1>10, <1>11, <1>12 DEF Kinds

LEMMA CommitLedger ==
    ASSUME Inv, CreditInv, Commit
    PROVE  LedgerInv'
<1> SUFFICES ASSUME CleanLedger' PROVE LedgerInv'
  BY DEF LedgerInv
<1>e. PICK e, p, n : e = tx.event /\ p = events[e].period /\ n = Len(cycles)
  OBVIOUS
<1>0. TypeOK /\ EventInv /\ CycleInv /\ LedgerInv
  BY DEF Inv, CreditInv
<1>1. /\ tx \in Transactions /\ e \in DOMAIN events /\ eventRow[e] = "none" /\ p \in Nat
      /\ CloseAndOpen(tx)
      /\ Clean({"reordered", "strayed"}) => InOrder /\ \A d \in 1..(e - 1) : Handled(d)
      /\ \A d \in DOMAIN events : Handled(d)' <=> d = e \/ Handled(d)
      /\ \A which : Clean(which)' => Clean(which)
      /\ \A a \in Answers : spend[a] = NoSpend
      /\ UNCHANGED <<events, spend>>
  BY <1>e, CommitFacts
<1>2. CleanLedger /\ Clean({"reordered", "strayed"})
  <2>1. CleanLedger
    BY <1>1 DEF CleanLedger
  <2> QED
    BY <2>1 DEF CleanLedger, Clean
<1>3. PICK sub :
         /\ \/ tx.opens = <<>>
            \/ /\ tx.opens = <<[sub |-> sub, end |-> p]>> /\ sub \in Active' /\ tx.grant >= 0
               /\ \A c \in DOMAIN cycles : cycles[c].sub = sub => cycles[c].end < p
         /\ tx.closes # 0 => /\ tx.expires = Remaining(tx.closes)
                             /\ \E s \in Active : tx.closes = Latest(cycles, s)
         /\ \A u \in Active' : \/ tx.opens # <<>> /\ u = sub
                               \/ u \in Active /\ Latest(cycles, u) # tx.closes
         /\ \A u \in Active : \/ Latest(cycles, u) = tx.closes
                              \/ u \in Active' /\ ~(tx.opens # <<>> /\ u = sub)
  BY <1>e, CommitReopens
<1>4. /\ \A c, d \in DOMAIN cycles' :
            c < d /\ cycles'[c].sub = cycles'[d].sub => cycles'[c].end < cycles'[d].end
      /\ \A c \in DOMAIN cycles' : (\A s \in Active' : c # Latest(cycles', s)) => Settled(c)'
      /\ \A s \in Active' : ledger'[Latest(cycles', s)].expired = 0
      /\ \A s \in Active' :
            ledger'[Latest(cycles', s)].allowance - ledger'[Latest(cycles', s)].used >= 0
  BY <1>0, <1>1, <1>2, <1>3, Reopens
<1>5. /\ DOMAIN cycles' = 1..(n + Len(tx.opens)) /\ DOMAIN cycles = 1..n /\ n \in Nat /\ Len(tx.opens) \in Nat
      /\ \A c \in DOMAIN cycles : cycles'[c] = cycles[c]
      /\ \A i \in 1..Len(tx.opens) : cycles'[n + i] = tx.opens[i]
  <2>1. /\ cycles' \in Seq(Cycle) /\ Len(cycles) \in Nat /\ Len(tx.opens) \in Nat
        /\ Len(cycles') = Len(cycles) + Len(tx.opens)
        /\ \A c \in DOMAIN cycles : cycles'[c] = cycles[c]
        /\ \A i \in 1..Len(tx.opens) : cycles'[Len(cycles) + i] = tx.opens[i]
    BY <1>0, <1>1, CloseFacts
  <2>2. DOMAIN cycles = 1..Len(cycles)
    BY <1>0, TableTypes
  <2>3. DOMAIN cycles' = 1..Len(cycles')
    BY <2>1, LenProperties
  <2> QED
    BY <1>e, <2>1, <2>2, <2>3
<1>6. ASSUME NEW c \in DOMAIN cycles', NEW f \in DOMAIN events, ~Handled(f)', events[f].kind = "cycle"
      PROVE  cycles'[c].end < events[f].period
  <2>1. ~Handled(f) /\ f # e
    BY <1>1, <1>6
  <2>2. CASE c \in DOMAIN cycles
    BY <1>2, <1>5, <1>6, <2>1, <2>2, <1>0 DEF LedgerInv
  <2>3. CASE c \notin DOMAIN cycles
    <3>1. c \in 1..(n + Len(tx.opens)) /\ c \notin 1..n /\ Len(tx.opens) \in Nat /\ n \in Nat
      BY <1>5, <2>3
    <3>2. PICK i : i = c - n /\ i \in 1..Len(tx.opens) /\ c = n + i
      BY <3>1
    <3>3. tx.opens # <<>>
      BY <3>2
    <3>4. tx.opens = <<[sub |-> sub, end |-> p]>>
      BY <1>3, <3>3
    <3>5. tx.opens[i].end = p
      BY <3>2, <3>4
    <3>6. cycles'[c].end = p
      BY <1>5, <3>2, <3>5
    <3>7. e \in 1..(f - 1)
      <4>1. e \in Nat \ {0} /\ f \in Nat \ {0} /\ ~(f \in 1..(e - 1))
        BY <1>0, <1>1, <1>2, <2>1, EventTypes
      <4> QED
        BY <2>1, <4>1
    <3>8. events[e].period < events[f].period
      BY <1>0, <1>6, <3>7 DEF EventInv, Told
    <3> QED
      BY <1>e, <3>6, <3>8
  <2> QED
    BY <2>2, <2>3
<1> QED
  BY <1>1, <1>4, <1>6 DEF LedgerInv, Remaining

(* What t writes belongs to the tables: t is a transaction, or what strays of
   one. *)
LEMMA WrittenTypes ==
    ASSUME Inv, NEW t \in Transactions, NEW e \in DOMAIN events, NEW m, m \notin DOMAIN subscriptions,
           \/ DOMAIN t.subscriptions = DOMAIN subscriptions
           \/ /\ DOMAIN t.subscriptions = DOMAIN subscriptions \cup {m}
              /\ t.opens = Opens(m, events[e]),
           t.opens = <<>> \/ \E s \in DOMAIN t.subscriptions : t.opens = Opens(s, events[e]),
           CloseAndOpen(t), subscriptions' = t.subscriptions, known' = t.known,
           extra' = [extra EXCEPT !.bought = @ + t.buys],
           eventRow' \in Seq({"none", "inserted", "processed"}), Len(eventRow') = Len(events),
           mishaps' \subseteq Mishap, failures' \in 0..MaxFailures,
           tx' \in {NoTx} \cup Transactions, tx'.event \in 0..Len(events),
           UNCHANGED <<customer, events, answer, spend>>
    PROVE  TypeOK' /\ CycleInv'
<1>e. PICK event, n : event = events[e] /\ n = Len(cycles)
  OBVIOUS
<1>0. TypeOK /\ EventInv /\ CycleInv
  BY DEF Inv
<1>1. /\ event \in Event /\ event.period \in Nat
      /\ subscriptions' \in Seq(Subscription)
  BY <1>e, <1>0, EventTypes DEF Transactions
<1>2. /\ \/ DOMAIN subscriptions' = DOMAIN subscriptions
         \/ DOMAIN subscriptions' = DOMAIN subscriptions \cup {m} /\ t.opens = Opens(m, event)
      /\ t.opens = <<>> \/ \E s \in DOMAIN subscriptions' : t.opens = Opens(s, event)
  BY <1>e
<1>3. /\ cycles' \in Seq(Cycle) /\ ledger' \in Seq(Allowance) /\ Len(ledger') = Len(cycles')
      /\ n \in Nat /\ Len(t.opens) \in Nat /\ Len(cycles') = n + Len(t.opens)
      /\ DOMAIN cycles = 1..n /\ DOMAIN cycles' = 1..(n + Len(t.opens))
      /\ \A c \in DOMAIN cycles : cycles'[c] = cycles[c] /\ c \in DOMAIN cycles'
      /\ \A i \in 1..Len(t.opens) : cycles'[n + i] = t.opens[i]
  <2>1. /\ cycles' \in Seq(Cycle) /\ ledger' \in Seq(Allowance) /\ Len(ledger') = Len(cycles')
        /\ Len(cycles) \in Nat /\ Len(t.opens) \in Nat
        /\ Len(cycles') = Len(cycles) + Len(t.opens)
        /\ \A c \in DOMAIN cycles : cycles'[c] = cycles[c]
        /\ \A i \in 1..Len(t.opens) : cycles'[Len(cycles) + i] = t.opens[i]
    BY <1>0, <1>1, CloseFacts
  <2>2. DOMAIN cycles = 1..Len(cycles)
    BY <1>0, TableTypes
  <2>3. DOMAIN cycles' = 1..Len(cycles')
    BY <2>1, LenProperties
  <2>4. 1..Len(cycles) \subseteq 1..(Len(cycles) + Len(t.opens))
    BY <2>1
  <2> QED
    BY <1>e, <2>1, <2>2, <2>3, <2>4
<1>4. ASSUME NEW c \in DOMAIN cycles', c \notin DOMAIN cycles
      PROVE  \E s \in DOMAIN subscriptions' :
                t.opens = Opens(s, event) /\ cycles'[c] = [sub |-> s, end |-> event.period]
  <2>1. c \in 1..(n + Len(t.opens)) /\ c \notin 1..n
    BY <1>3, <1>4
  <2>2. PICK i : i \in 1..Len(t.opens) /\ c = n + i
    <3>1. c - n \in 1..Len(t.opens) /\ c = n + (c - n)
      BY <1>3, <2>1, SMTT(60)
    <3> QED
      BY <3>1
  <2>3. PICK s \in DOMAIN subscriptions' : t.opens = Opens(s, event)
    BY <1>2, <2>2
  <2>4. t.opens[i] = [sub |-> s, end |-> event.period]
    BY <2>2, <2>3 DEF Opens
  <2> QED
    BY <1>3, <2>2, <2>3, <2>4
<1>5. \A c \in DOMAIN cycles' : cycles'[c].sub \in DOMAIN subscriptions'
  <2>1. \A c \in DOMAIN cycles : cycles[c].sub \in DOMAIN subscriptions'
    BY <1>0, <1>2 DEF TypeOK
  <2>2. ASSUME NEW c \in DOMAIN cycles', c \notin DOMAIN cycles
        PROVE  cycles'[c].sub \in DOMAIN subscriptions'
    BY <1>4, <2>2
  <2> QED
    BY <1>3, <2>1, <2>2
<1>7. known' \in BOOLEAN /\ t.buys \in Nat
  BY DEF Transactions
<1>8. extra' \in [bought : Nat, used : Nat]
  <2> DEFINE bought == extra.bought + t.buys
  <2>1. extra \in [bought : Nat, used : Nat] /\ bought \in Nat
    BY <1>0, <1>7 DEF TypeOK
  <2>2. extra' = [extra EXCEPT !.bought = bought]
    BY <1>1
  <2> HIDE DEF bought
  <2> QED
    BY <2>1, <2>2
<1>9. \A a \in Answers : spend[a] # NoSpend =>
         answer[a] \in {"tracking", "over"} /\ spend[a].cycle <= Len(cycles')
  <2> SUFFICES ASSUME NEW a \in Answers, spend[a] # NoSpend
               PROVE  answer[a] \in {"tracking", "over"} /\ spend[a].cycle <= Len(cycles')
    OBVIOUS
  <2>1. answer[a] \in {"tracking", "over"} /\ spend[a].cycle <= Len(cycles) /\ spend[a] \in Spending
    BY <1>0 DEF TypeOK
  <2>2. spend[a].cycle \in Nat
    BY <2>1 DEF Spending
  <2> QED
    BY <1>e, <1>3, <2>1, <2>2
<1>10. TypeOK'
  BY <1>0, <1>1, <1>3, <1>5, <1>7, <1>8, <1>9 DEF TypeOK
<1>11. ASSUME NEW s \in DOMAIN subscriptions' PROVE \E c \in DOMAIN cycles' : cycles'[c].sub = s
  <2>1. CASE s \in DOMAIN subscriptions
    <3>1. PICK c \in DOMAIN cycles : cycles[c].sub = s
      BY <1>0, <2>1 DEF CycleInv, CyclesOf
    <3> QED
      BY <1>3, <3>1
  <2>2. CASE s \notin DOMAIN subscriptions
    <3>1. s = m /\ t.opens = Opens(m, event)
      BY <1>2, <1>11, <2>2
    <3>2. 1 \in 1..Len(t.opens) /\ t.opens[1].sub = s
      BY <3>1 DEF Opens
    <3>3. n + 1 \in DOMAIN cycles' /\ cycles'[n + 1].sub = s
      BY <1>3, <3>2
    <3> QED
      BY <3>3
  <2> QED
    BY <2>1, <2>2
<1>12. ASSUME NEW c \in DOMAIN cycles' PROVE cycles'[c].end <= customer.period
  <2>1. CASE c \in DOMAIN cycles
    BY <1>0, <1>3, <2>1 DEF CycleInv
  <2>2. CASE c \notin DOMAIN cycles
    <3>1. cycles'[c].end = event.period
      BY <1>4, <2>2
    <3>2. event.period <= customer.period
      BY <1>e, <1>0, <1>1 DEF EventInv, Told
    <3> QED
      BY <3>1, <3>2
  <2> QED
    BY <2>1, <2>2
<1>13. CycleInv'
  BY <1>11, <1>12 DEF CycleInv, CyclesOf
<1> QED
  BY <1>10, <1>13

LEMMA CommitTypes ==
    ASSUME Inv, Commit
    PROVE  TypeOK' /\ CycleInv'
<1>e. PICK e, m : e = tx.event /\ m = NewRow
  OBVIOUS
<1>0. TypeOK
  BY DEF Inv
<1>1. /\ tx \in Transactions /\ e \in DOMAIN events /\ events[e] \in Event
      /\ Shape(tx, events[e], subscriptions, cycles, Clean({"ambiguous"}))
      /\ CloseAndOpen(tx) /\ subscriptions' = tx.subscriptions
      /\ eventRow' \in Seq({"none", "inserted", "processed"}) /\ Len(eventRow') = Len(events)
      /\ mishaps' \subseteq Mishap
      /\ UNCHANGED <<customer, events, answer, spend, failures>>
      /\ known' = tx.known /\ extra' = [extra EXCEPT !.bought = @ + tx.buys]
      /\ tx' = NoTx \/ tx' = [tx EXCEPT !.committed = TRUE]
  BY <1>e, CommitFacts
<1>2. /\ m \notin DOMAIN subscriptions
      /\ \/ DOMAIN tx.subscriptions = DOMAIN subscriptions
         \/ /\ DOMAIN tx.subscriptions = DOMAIN subscriptions \cup {m}
            /\ tx.opens = Opens(m, events[e])
      /\ tx.opens = <<>> \/ \E s \in DOMAIN tx.subscriptions : tx.opens = Opens(s, events[e])
  <2> DEFINE clean == Clean({"ambiguous"})
             event == events[e]
  <2>1. Shape(tx, event, subscriptions, cycles, clean) /\ event \in Event
    BY <1>1
  <2> HIDE DEF clean, event
  <2>2. RowsAfter(tx, event, cycles, clean)
    BY <1>0, <1>1, <2>1, ShapeRows
  <2> QED
    BY <1>e, <2>2 DEF RowsAfter, event
<1>3. tx' \in {NoTx} \cup Transactions /\ tx'.event \in 0..Len(events)
  <2>1. NoTx.event \in 0..Len(events) /\ tx.event \in 0..Len(events)
    BY <1>0, EventTypes DEF TypeOK, NoTx
  <2>2. /\ [tx EXCEPT !.committed = TRUE] \in Transactions
        /\ [tx EXCEPT !.committed = TRUE].event = tx.event
    BY <1>1 DEF Transactions
  <2> QED
    BY <1>1, <2>1, <2>2
<1>4. failures' \in 0..MaxFailures
  BY <1>0, <1>1 DEF TypeOK
<1> QED
  BY <1>1, <1>2, <1>3, <1>4, WrittenTypes

(* Extra credits are bought. *)
LEMMA BoughtMore ==
    ASSUME TypeOK, ExtraInv, NEW more \in Nat, extra' = [extra EXCEPT !.bought = @ + more],
           mishaps \subseteq mishaps', UNCHANGED <<answer, spend>>
    PROVE  ExtraInv' /\ extra'.bought = extra.bought + more
<1> DEFINE bought == extra.bought + more
<1>1. extra' = [extra EXCEPT !.bought = bought] /\ extra \in [bought : Nat, used : Nat]
      /\ extra.bought \in Nat /\ extra.used \in Nat
  BY TableTypes DEF TypeOK
<1> HIDE DEF bought
<1>2. extra'.bought = bought /\ extra'.used = extra.used
  BY <1>1
<1>3. ExtraBalance' >= ExtraBalance /\ ExtraBalance' \in Int /\ ExtraBalance \in Int
  BY <1>1, <1>2 DEF ExtraBalance, bought
<1>4. Clean({"leaked"})' => Clean({"leaked"})
  BY DEF Clean
<1>5. ASSUME Clean({"leaked"}), NEW a \in Answers, spend[a] # NoSpend
      PROVE  spend[a].extra <= ExtraBalance'
  <2>1. spend[a].extra <= ExtraBalance
    BY <1>5 DEF ExtraInv
  <2>2. spend[a].extra \in Nat
    BY <1>5 DEF TypeOK, Spending
  <2> QED
    BY <1>3, <2>1, <2>2
<1>6. Clean({"leaked"}) => ExtraBalance' >= 0
  BY <1>3 DEF ExtraInv
<1>7. Tracking' = Tracking
  BY DEF Tracking
<1> QED
  BY <1>2, <1>4, <1>5, <1>6, <1>7 DEF ExtraInv, bought

(* A purchase is credited by the commit of its transaction. *)
LEMMA CommitPurchase ==
    ASSUME Inv, Commit
    PROVE  PurchasesAreCreditedOnce' /\ ExtraInv'
<1>e. PICK e, event : e = tx.event /\ event = events[e]
  OBVIOUS
<1>0. TypeOK /\ ExtraInv /\ PurchasesAreCreditedOnce
  BY DEF Inv
<1>1. /\ tx \in Transactions /\ e \in DOMAIN events /\ eventRow[e] = "none"
      /\ Shape(tx, event, subscriptions, cycles, Clean({"ambiguous"}))
      /\ \A d \in DOMAIN events : Handled(d)' <=> d = e \/ Handled(d)
      /\ mishaps \subseteq mishaps' /\ UNCHANGED <<events, answer, spend>>
      /\ extra' = [extra EXCEPT !.bought = @ + tx.buys]
  BY <1>e, CommitFacts
<1>2. /\ tx.buys = (IF event.kind = "purchase" THEN Reload ELSE 0) /\ tx.buys \in Nat /\ Reload \in Nat
  BY <1>1, AmountsAssumption DEF Shape, Transactions
<1>3. ExtraInv' /\ extra'.bought = extra.bought + tx.buys /\ extra.bought \in Nat
  BY <1>0, <1>1, <1>2, TableTypes, BoughtMore
<1> DEFINE S == {d \in DOMAIN events : events[d].kind = "purchase" /\ eventRow[d] # "none"}
           T == {d \in DOMAIN events : events[d].kind = "purchase" /\ eventRow'[d] # "none"}
<1>4. /\ e \notin S
      /\ T = IF event.kind = "purchase" THEN S \cup {e} ELSE S
  BY <1>e, <1>1 DEF Handled
<1>5. IsFiniteSet(S) /\ ("strayed" \notin mishaps => extra.bought = Reload * Cardinality(S))
  <2>1. IsFiniteSet(1..Len(events)) /\ DOMAIN events = 1..Len(events)
    BY <1>0, EventTypes, FS_Interval
  <2>2. S \subseteq DOMAIN events
    OBVIOUS
  <2>3. "strayed" \notin mishaps => extra.bought = Reload * Cardinality(S)
    BY <1>0 DEF PurchasesAreCreditedOnce
  <2> HIDE DEF S
  <2>4. IsFiniteSet(S)
    BY <2>1, <2>2, FS_Subset
  <2> QED
    BY <2>3, <2>4
<1>6. T = {d \in DOMAIN events : events[d].kind = "purchase" /\ eventRow[d] # "none"}'
  BY <1>1
<1>7. PurchasesAreCreditedOnce'
  <2> SUFFICES ASSUME "strayed" \notin mishaps PROVE PurchasesAreCreditedOnce'
    BY <1>1 DEF PurchasesAreCreditedOnce
  <2> HIDE DEF S, T
  <2>1. extra'.bought = Reload * Cardinality(T)
    <3>1. CASE event.kind = "purchase"
      <4>1. Cardinality(T) = Cardinality(S) + 1 /\ Cardinality(S) \in Nat
        <5>1. T = S \cup {e} /\ e \notin S
          BY <1>4, <3>1
        <5> QED
          BY <1>5, <5>1, FS_AddElement, FS_CardinalityType
      <4> DEFINE k == Cardinality(S)
      <4>2. k \in Nat /\ Cardinality(T) = k + 1 /\ extra.bought = Reload * k
        BY <1>5, <4>1
      <4>3. extra'.bought = Reload * k + Reload
        BY <1>2, <1>3, <3>1, <4>2
      <4> HIDE DEF k
      <4>4. Reload * k + Reload = Reload * (k + 1)
        BY <1>2, <4>2
      <4> QED
        BY <4>2, <4>3, <4>4
    <3>2. CASE event.kind # "purchase"
      BY <1>2, <1>3, <1>4, <1>5, <3>2
    <3> QED
      BY <3>1, <3>2
  <2> QED
    BY <1>6, <2>1 DEF PurchasesAreCreditedOnce
<1> QED
  BY <1>3, <1>7

LEMMA CommitInv ==
    ASSUME Inv, CreditInv, Commit
    PROVE  Inv' /\ CreditInv'
<1>e. PICK e : e = tx.event
  OBVIOUS
<1>0. TypeOK /\ EventInv /\ OrderInv
  BY DEF Inv
<1>1. /\ e \in DOMAIN events /\ ~tx.committed
      /\ Clean({"reordered", "strayed"}) => InOrder /\ \A d \in 1..(e - 1) : Handled(d)
      /\ \A d \in DOMAIN events : Handled(d)' <=> d = e \/ Handled(d)
      /\ \A which : Clean(which)' => Clean(which)
      /\ UNCHANGED <<customer, events>>
      /\ \/ tx' = NoTx
         \/ tx' = [tx EXCEPT !.committed = TRUE] /\ eventRow'[e] = "inserted"
  BY <1>e, CommitFacts
<1>2. TypeOK' /\ CycleInv' /\ PurchasesAreCreditedOnce' /\ ExtraInv' /\ RowInv' /\ LedgerInv'
  BY CommitTypes, CommitPurchase, CommitRows, CommitLedger
<1>3. EventInv'
  BY <1>0, <1>1 DEF EventInv, Told
<1>4. ~Open(tx') \/ (tx'.committed /\ tx'.event = e /\ eventRow'[e] = "inserted")
  <2>1. tx \in Transactions
    BY <1>e, CommitFacts
  <2>2. [tx EXCEPT !.committed = TRUE].committed /\ [tx EXCEPT !.committed = TRUE].event = tx.event
    BY <2>1 DEF Transactions
  <2> QED
    BY <1>e, <1>1, <2>2 DEF Open
<1>5. TxInv' /\ PendingInv'
  BY <1>4 DEF TxInv, PendingInv, Open
<1>6. OrderInv'
  <2>1. ASSUME Clean({"reordered", "strayed"}), NEW f \in DOMAIN events, NEW d \in 1..(f - 1), Handled(f)'
        PROVE  Handled(d)'
    <3>1. d \in DOMAIN events
      BY <1>0, EventTypes
    <3>2. Handled(d)
      BY <1>1, <2>1 DEF InOrder
    <3> QED
      BY <1>1, <3>1, <3>2
  <2>2. Clean({"reordered", "strayed"})' => InOrder'
    BY <1>1, <2>1 DEF InOrder
  <2> QED
    BY <1>4, <2>2 DEF OrderInv, Open
<1> QED
  BY <1>2, <1>3, <1>5, <1>6 DEF Inv, CreditInv

(* What strays of a transaction: rows that it ends, or also the one it inserts,
   with its cycle. *)
LEMMA StrayFacts ==
    ASSUME TypeOK, CycleInv, Open(tx), tx \in Transactions, NEW event \in Event,
           NEW clean, Shape(tx, event, subscriptions, cycles, clean), NEW t \in Strays(tx)
    PROVE  /\ t \in Transactions
           /\ \/ DOMAIN t.subscriptions = DOMAIN subscriptions
              \/ /\ DOMAIN t.subscriptions = DOMAIN subscriptions \cup {NewRow}
                 /\ t.opens = Opens(NewRow, event)
           /\ t.opens = <<>> \/ \E s \in DOMAIN t.subscriptions : t.opens = Opens(s, event)
<1> DEFINE old == SubSeq(tx.subscriptions, 1, Len(subscriptions))
<1>1. RowsAfter(tx, event, cycles, clean)
  BY ShapeRows
<1>2. /\ tx.subscriptions \in Seq(Subscription) /\ tx.opens \in Seq(Cycle) /\ tx.closes \in Nat
      /\ tx.buys \in Nat /\ known \in BOOLEAN /\ tx.known \in BOOLEAN
      /\ subscriptions \in Seq(Subscription)
  BY DEF TypeOK, Transactions
<1>3. old \in Seq(Subscription) /\ DOMAIN old = DOMAIN subscriptions
  <2>1. /\ Len(subscriptions) \in Nat /\ DOMAIN subscriptions = 1..Len(subscriptions)
        /\ Len(tx.subscriptions) \in Nat /\ DOMAIN tx.subscriptions = 1..Len(tx.subscriptions)
    BY <1>2, LenProperties
  <2>2. DOMAIN subscriptions \subseteq DOMAIN tx.subscriptions
    BY <1>1 DEF RowsAfter
  <2>3. Len(subscriptions) <= Len(tx.subscriptions)
    <3>1. CASE Len(subscriptions) = 0
      BY <2>1, <3>1
    <3>2. CASE Len(subscriptions) # 0
      <4>1. Len(subscriptions) \in 1..Len(tx.subscriptions)
        BY <2>1, <2>2, <3>2
      <4> QED
        BY <2>1, <4>1
    <3> QED
      BY <3>1, <3>2
  <2> DEFINE k == Len(subscriptions) + 1
  <2>4. k \in 1..(Len(tx.subscriptions) + 1) /\ k - 1 = Len(subscriptions)
    BY <2>1, <2>3
  <2> HIDE DEF k
  <2>5. SubSeq(tx.subscriptions, 1, k - 1) \in Seq(Subscription)
        /\ Len(SubSeq(tx.subscriptions, 1, k - 1)) = k - 1
    BY <1>2, <2>4, SplitFacts
  <2>6. old \in Seq(Subscription) /\ Len(old) = Len(subscriptions)
    BY <2>4, <2>5
  <2> HIDE DEF old
  <2> QED
    BY <2>1, <2>6, LenProperties
<1> DEFINE Stray(k, c, b, rows) ==
              [tx EXCEPT !.known = k, !.subscriptions = rows[1], !.opens = rows[2],
                         !.closes = c, !.buys = b]
           Rows == {<<subscriptions, <<>>>>, <<old, <<>>>>, <<tx.subscriptions, tx.opens>>}
<1>9. Strays(tx) = {Stray(k, c, b, rows) : k \in {known, tx.known}, c \in {0, tx.closes},
                                           b \in {0, tx.buys}, rows \in Rows}
  BY DEF Strays
<1> HIDE DEF old, Stray, Rows
<1>4. PICK k \in {known, tx.known}, c \in {0, tx.closes}, b \in {0, tx.buys}, rows \in Rows :
         t = Stray(k, c, b, rows)
  BY <1>9
<1>5. PICK r, o : /\ r = rows[1] /\ o = rows[2]
                  /\ \/ r \in {subscriptions, old} /\ o = <<>>
                     \/ r = tx.subscriptions /\ o = tx.opens
  BY DEF Rows
<1>6. r \in Seq(Subscription) /\ o \in Seq(Cycle) /\ k \in BOOLEAN /\ c \in Nat /\ b \in Nat
  <2>1. <<>> \in Seq(Cycle)
    OBVIOUS
  <2>2. r \in Seq(Subscription) /\ o \in Seq(Cycle)
    BY <1>2, <1>3, <1>5, <2>1, Zenon
  <2>3. k \in BOOLEAN /\ c \in Nat /\ b \in Nat
    BY <1>2
  <2> QED
    BY <2>2, <2>3
<1>7. t = [tx EXCEPT !.known = k, !.subscriptions = r, !.opens = o, !.closes = c, !.buys = b]
  BY <1>4, <1>5 DEF Stray
<1>8. t \in Transactions /\ t.subscriptions = r /\ t.opens = o
  BY <1>6, <1>7 DEF Transactions
<1> QED
  BY <1>1, <1>3, <1>5, <1>8 DEF RowsAfter

(* Statements of a transaction stray: the tables keep their types, and what the
   invariant says of the order of the events and of the rows holds no more. *)
LEMMA HandlerStraysInv ==
    ASSUME Inv, CreditInv, HandlerStrays
    PROVE  Inv' /\ CreditInv'
<1>0. TypeOK /\ EventInv /\ CycleInv /\ TxInv /\ ExtraInv
  BY DEF Inv
<1>1. PICK t \in Strays(tx) :
         /\ known' = t.known /\ subscriptions' = t.subscriptions /\ CloseAndOpen(t)
         /\ extra' = [extra EXCEPT !.bought = @ + t.buys]
  BY DEF HandlerStrays
<1>2. PICK row \in {"none", "inserted", "processed"} : eventRow' = [eventRow EXCEPT ![tx.event] = row]
  BY DEF HandlerStrays
<1>3. /\ Open(tx) /\ ~tx.committed /\ failures < MaxFailures /\ failures' = failures + 1
      /\ tx' = NoTx
      /\ mishaps' = mishaps \cup {"strayed"} \cup Overlap(\E a \in Answers : spend[a] # NoSpend)
      /\ UNCHANGED <<customer, events, answer, spend>>
  BY DEF HandlerStrays, stripe, bot
<1>e. PICK e : e = tx.event
  OBVIOUS
<1>4. /\ tx \in Transactions /\ e \in DOMAIN events /\ e \in 1..Len(eventRow) /\ events[e] \in Event
      /\ eventRow \in Seq({"none", "inserted", "processed"}) /\ Len(eventRow) = Len(events)
      /\ Len(events) \in Nat
  <2>1. tx \in Transactions /\ e \in Nat \ {0} /\ e \in 0..Len(events)
    BY <1>e, <1>0, <1>3 DEF TypeOK, Open, Transactions
  <2>2. Len(events) \in Nat /\ DOMAIN events = 1..Len(events) /\ Len(eventRow) = Len(events)
    BY <1>0, EventTypes DEF TypeOK
  <2>3. e \in DOMAIN events
    BY <2>1, <2>2
  <2> QED
    BY <1>0, <2>1, <2>2, <2>3, EventTypes DEF TypeOK
<1>5. Shape(tx, events[e], subscriptions, cycles, Clean({"ambiguous"}))
  BY <1>e, <1>0, <1>3 DEF TxInv
<1>6. /\ t \in Transactions
      /\ \/ DOMAIN t.subscriptions = DOMAIN subscriptions
         \/ /\ DOMAIN t.subscriptions = DOMAIN subscriptions \cup {NewRow}
            /\ t.opens = Opens(NewRow, events[e])
      /\ t.opens = <<>> \/ \E s \in DOMAIN t.subscriptions : t.opens = Opens(s, events[e])
  <2> DEFINE event == events[e]
             clean == Clean({"ambiguous"})
  <2>1. Shape(tx, event, subscriptions, cycles, clean) /\ event \in Event
    BY <1>4, <1>5
  <2> HIDE DEF event, clean
  <2>2. /\ t \in Transactions
        /\ \/ DOMAIN t.subscriptions = DOMAIN subscriptions
           \/ /\ DOMAIN t.subscriptions = DOMAIN subscriptions \cup {NewRow}
              /\ t.opens = Opens(NewRow, event)
        /\ t.opens = <<>> \/ \E s \in DOMAIN t.subscriptions : t.opens = Opens(s, event)
    BY <1>0, <1>3, <1>4, <2>1, StrayFacts
  <2> QED
    BY <2>2 DEF event
<1>7. NewRow \notin DOMAIN subscriptions
  BY <1>0, TableTypes DEF NewRow
<1>8. eventRow' \in Seq({"none", "inserted", "processed"}) /\ Len(eventRow') = Len(events)
  BY <1>e, <1>2, <1>4, ExceptSeq
<1>9. /\ mishaps' \subseteq Mishap /\ mishaps \subseteq mishaps' /\ "strayed" \in mishaps'
      /\ failures' \in 0..MaxFailures
  BY <1>0, <1>3, BoundsAssumption DEF TypeOK, Overlap, Mishap
<1>10. tx' \in {NoTx} \cup Transactions /\ tx'.event \in 0..Len(events)
  BY <1>3, <1>4 DEF NoTx
<1>11. TypeOK' /\ CycleInv'
  <2> DEFINE m == NewRow
  <2>1. /\ m \notin DOMAIN subscriptions
        /\ \/ DOMAIN t.subscriptions = DOMAIN subscriptions
           \/ DOMAIN t.subscriptions = DOMAIN subscriptions \cup {m} /\ t.opens = Opens(m, events[e])
    BY <1>6, <1>7
  <2> HIDE DEF m
  <2> QED
    BY <1>1, <1>3, <1>4, <1>6, <1>8, <1>9, <1>10, <2>1, WrittenTypes
<1>12. ExtraInv'
  <2>1. t.buys \in Nat
    BY <1>6 DEF Transactions
  <2> QED
    BY <1>0, <1>1, <1>3, <1>9, <2>1, BoughtMore
<1>13. EventInv' /\ TxInv' /\ PendingInv'
  BY <1>0, <1>3 DEF EventInv, Told, TxInv, PendingInv, Open
<1>14. OrderInv' /\ RowInv' /\ PurchasesAreCreditedOnce' /\ LedgerInv'
  BY <1>9 DEF OrderInv, RowInv, PurchasesAreCreditedOnce, LedgerInv, CleanLedger, Clean
<1> QED
  BY <1>11, <1>12, <1>13, <1>14 DEF Inv, CreditInv

-----------------------------------------------------------------------------
LEMMA StepInv == Inv /\ CreditInv /\ [Next]_vars => Inv' /\ CreditInv'
<1> SUFFICES ASSUME Inv, CreditInv, [Next]_vars PROVE Inv' /\ CreditInv'
  OBVIOUS
<1>1. CASE CustomerActs
  BY <1>1, CustomerInv
<1>2. CASE \E e \in DOMAIN events : HandleEvent(e)
  BY <1>2, HandleInv
<1>3. CASE Commit \/ MarkAsProcessed \/ HandlerFails \/ HandlerStrays
  BY <1>3, CommitInv, MarkInv, HandlerFailsInv, HandlerStraysInv
<1>4. ASSUME NEW a \in Answers,
             \/ Message(a) \/ Ask(a) \/ TrackAiUsageCost(a) \/ SpendCredits(a)
             \/ SkipUsage(a) \/ CommitSpend(a) \/ SpendFails(a) \/ StraySpend(a)
      PROVE  Inv' /\ CreditInv'
  BY <1>4, BotInv, SpendInv, CommitSpendInv, SpendFailsInv, StraySpendInv
<1>5. CASE UNCHANGED vars
  <2>1. /\ UNCHANGED <<customer, events, eventRow, known, subscriptions, cycles, ledger,
                       extra, tx, answer, spend, mishaps, failures>>
    BY <1>5 DEF vars, stripe, tables, bot
  <2>2. TypeOK' /\ ExtraInv'
    BY <2>1 DEF Inv, TypeOK, ExtraInv, ExtraBalance, Tracking, Clean
  <2>3. /\ EventInv' /\ TxInv' /\ CycleInv' /\ OrderInv' /\ RowInv'
        /\ PurchasesAreCreditedOnce'
    BY <2>1, Frame DEF Handled
  <2>4. CreditInv'
    BY <2>1 DEF CreditInv, LedgerInv, PendingInv, CleanLedger, Clean, Handled,
           Settled, Remaining, Active, Open
  <2> QED
    BY <2>2, <2>3, <2>4 DEF Inv
<1> QED
  BY <1>1, <1>2, <1>3, <1>4, <1>5 DEF Next

(* The webhook and the bot keep the inductive invariant, whatever Stripe sends
   again, out of order or late, and wherever a transaction fails or strays. *)
THEOREM Invariants == Spec => [](Inv /\ CreditInv)
<1> QED
  BY InitInv, StepInv, PTL DEF Spec

(* The tables, the open transactions and the answers have their types: what is
   taken from a cycle, or belongs to a subscription, is of one that is there. *)
THEOREM TypeCorrectness == Spec => []TypeOK
<1>1. Inv => TypeOK
  BY DEF Inv
<1> QED
  BY <1>1, Invariants, PTL

(* stripe_events makes the webhook credit a purchase once, and wholly, unless
   statements of a handler have strayed to another connection. *)
THEOREM PurchasesAreCredited == Spec => []PurchasesAreCreditedOnce
<1>1. Inv => PurchasesAreCreditedOnce
  BY DEF Inv
<1> QED
  BY <1>1, Invariants, PTL

(* What spendCredits takes of the extra credits is there when it commits: the
   costs of a user are tracked one at a time, and nothing else takes any, if
   none was left in an open transaction. *)
THEOREM ExtraIsThere == Spec => []ExtraIsNotOverdrawn
<1>1. Inv => ExtraIsNotOverdrawn
  BY DEF Inv, ExtraInv, ExtraIsNotOverdrawn, Clean
<1> QED
  BY <1>1, Invariants, PTL

(* Of the events that name the plan of a subscription, one is the last. *)
LEMMA LastTold ==
    ASSUME TypeOK, EventInv, NEW x \in DOMAIN customer.subs
    PROVE  \E e \in DOMAIN events : /\ SetsPlan(events[e], x)
                                   /\ \A d \in DOMAIN events : d > e => ~SetsPlan(events[d], x)
<1> DEFINE n == Len(events)
           Setting == {e \in DOMAIN events : SetsPlan(events[e], x)}
           T == {n - e : e \in Setting}
<1>1. n \in Nat /\ DOMAIN events = 1..n
  BY EventTypes
<1>2. Setting # {} /\ Setting \subseteq 1..n
  BY <1>1 DEF EventInv, Told, SetsPlan
<1> HIDE DEF n, Setting
<1>3. T \subseteq Nat /\ T # {}
  <2>1. \A e \in Setting : n - e \in Nat
    BY <1>1, <1>2
  <2>2. PICK e \in Setting : TRUE
    BY <1>2
  <2>3. n - e \in T
    OBVIOUS
  <2>4. T \subseteq Nat
    BY <2>1
  <2> QED
    BY <2>3, <2>4
<1>4. PICK k \in T : \A m \in T : k <= m
  <2> HIDE DEF T
  <2> QED
    BY <1>3, Smallest, Zenon
<1>5. PICK e \in Setting : k = n - e
  OBVIOUS
<1>6. \A d \in Setting : n - e <= n - d
  BY <1>4, <1>5
<1>7. ASSUME NEW d \in DOMAIN events, d > e PROVE d \notin Setting
  BY <1>1, <1>2, <1>5, <1>6, <1>7
<1> QED
  BY <1>5, <1>7 DEF Setting

(* Whatever is sent again, fails or is retried, the database says in the end
   what Stripe says: the row that is active is that of the subscription the
   customer has, with the plan he has chosen last. *)
THEOREM SubscriptionsAreTheCustomers == Spec => []SubscriptionIsTheCustomers
<1>1. Inv => SubscriptionIsTheCustomers
  <2> DEFINE rows == {<<subscriptions[s].stripe, subscriptions[s].plan>> : s \in Active}
             subs == {<<x, customer.subs[x].plan>> : x \in Lives}
  <2> SUFFICES ASSUME Inv, \A e \in DOMAIN events : eventRow[e] = "processed",
                      Clean({"reordered", "ambiguous", "strayed"})
               PROVE  rows = subs
    BY DEF SubscriptionIsTheCustomers, Clean
  <2>1. TypeOK /\ EventInv /\ RowInv /\ \A e \in DOMAIN events : Handled(e)
    BY DEF Inv, Handled
  <2>2. \A x : Lasts(x) => x \in DOMAIN customer.subs
    BY <2>1 DEF Lasts, EventInv, Told
  <2>3. \A x \in DOMAIN customer.subs : Lasts(x) <=> x \in Lives
    BY <2>1 DEF Lasts, Lives, EventInv, Told
  <2>4. ASSUME NEW x \in DOMAIN customer.subs, NEW plan, PlanTold(x, plan)
        PROVE  plan = customer.subs[x].plan
    <3>1. PICK e \in DOMAIN events : /\ SetsPlan(events[e], x)
                                    /\ \A d \in DOMAIN events : d > e => ~SetsPlan(events[d], x)
      BY <2>1, LastTold
    <3>2. customer.subs[x].plan = events[e].plan
      BY <2>1, <3>1 DEF EventInv, Told
    <3>3. plan = events[e].plan
      BY <2>1, <2>4, <3>1 DEF PlanTold
    <3> QED
      BY <3>2, <3>3
  <2>5. ASSUME NEW s \in Active
        PROVE  /\ subscriptions[s].stripe \in Lives
               /\ subscriptions[s].plan = customer.subs[subscriptions[s].stripe].plan
    <3>1. Lasts(subscriptions[s].stripe) /\ PlanTold(subscriptions[s].stripe, subscriptions[s].plan)
      BY <2>1 DEF RowInv
    <3> QED
      BY <2>2, <2>3, <2>4, <3>1
  <2>6. \A x \in Lives : \E s \in Active : subscriptions[s].stripe = x
    BY <2>1, <2>3 DEF RowInv, Lives
  <2>7. rows \subseteq subs
    BY <2>5
  <2>8. subs \subseteq rows
    BY <2>5, <2>6
  <2> QED
    BY <2>7, <2>8
<1> QED
  BY <1>1, Invariants, PTL

(* The allowance of a cycle that is over is gone, exactly once, and that of the
   current one is never overdrawn, as long as no event is handled before an
   earlier one, no answer is charged while a cycle is closed, no deletion finds
   several rows, and no statement strays from its transaction. *)
THEOREM OldCyclesSettle == Spec => []OldCyclesAreSettled
<1>1. Inv /\ CreditInv => OldCyclesAreSettled
  <2> SUFFICES ASSUME Inv, CreditInv, CleanLedger
               PROVE  /\ PlanBalance >= 0
                      /\ \A c \in DOMAIN cycles :
                            (\A s \in Active : c # MostRecentCycle(s)) => Remaining(c) = ledger[c].expired
    BY DEF OldCyclesAreSettled, CleanLedger, Clean
  <2>1. TypeOK /\ CycleInv /\ Active \subseteq DOMAIN subscriptions
    BY ActiveFacts DEF Inv
  <2>2. \A s \in Active : MostRecentCycle(s) = Latest(cycles, s)
    BY <2>1, LatestFacts
  <2>3. \A c \in DOMAIN cycles : (\A s \in Active : c # Latest(cycles, s)) => Settled(c)
    BY DEF CreditInv, LedgerInv
  <2>4. \A c \in DOMAIN cycles :
           (\A s \in Active : c # MostRecentCycle(s)) => Remaining(c) = ledger[c].expired
    BY <2>2, <2>3 DEF Settled
  <2>5. ASSUME NEW c \in DOMAIN cycles PROVE Remaining(c) - ledger[c].expired >= 0
    <3>1. Remaining(c) \in Int /\ ledger[c].expired \in Int
      BY <2>1, TableTypes
    <3>2. CASE Settled(c)
      BY <3>1, <3>2 DEF Settled
    <3>3. CASE ~Settled(c)
      <4>1. PICK s \in Active : c = Latest(cycles, s)
        BY <2>3, <3>3
      <4>2. ledger[c].expired = 0 /\ Remaining(c) >= 0
        BY <4>1 DEF CreditInv, LedgerInv
      <4> QED
        BY <3>1, <4>2
    <3> QED
      BY <3>2, <3>3
  <2>6. PlanBalance >= 0
    BY <2>1, <2>5, BalanceFacts
  <2> QED
    BY <2>4, <2>6
<1> QED
  BY <1>1, Invariants, PTL
=============================================================================
