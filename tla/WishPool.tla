------------------------------ MODULE WishPool ------------------------------
(***************************************************************************)
(* The wish pool: sites users wish for, the pledges that pay for them and  *)
(* the free credit a member has every month (internal/store/wishes.go,     *)
(* wish_credits.go, the wish part of ldc_orders.go, and their handlers in  *)
(* internal/httpserver/user_routes.go and admin_membership.go).            *)
(*                                                                         *)
(* Store calls are atomic, handlers are not: a wish may be edited, deleted *)
(* or reached, a membership may lapse and the month may turn between two   *)
(* calls of one handler, and a crash ends every handler.  What the payment *)
(* platform does with a pending order is the matter of Orders; here it is  *)
(* paid or cancelled at some time.  An order with a refund attempt, which  *)
(* would keep its wish from being deleted, is also left to Orders.         *)
(***************************************************************************)
EXTENDS Naturals, FiniteSets, FiniteSetsExt

CONSTANTS
    Users, Domains,
    MaxPledge,      \* order ids are 1..MaxPledge
    Clients,        \* requests in progress
    MaxWish,        \* wish ids are 1..MaxWish
    MaxAmount,      \* every amount is at most this
    Goals, Grants, Offers,  \* targets set, monthly credits granted, amounts pledged
    MaxMonth

ASSUME WishAssumption ==
    /\ MaxPledge \in Nat /\ MaxWish \in Nat /\ MaxAmount \in Nat \ {0} /\ MaxMonth \in Nat \ {0}
    /\ Goals \cup Grants \cup Offers \subseteq 1..MaxAmount

VARIABLES
    wish,           \* wish_sites by id
    order,          \* ldc_orders of kind wish; "none" before, "deleted" after
    credit, debited,  \* wish_credits per user and month, 0 granted for no row
    members,        \* users whose membership has not expired
    month,          \* of options.Now()
    work,           \* per handler: the store call it makes next
    edited          \* history: wishes an administrator has set since money
                    \* last decided their status

poolBooks == <<wish, order, credit, debited, edited>>
outside == <<members, month>>
poolVars == <<poolBooks, outside, work>>

Wishes == 1..MaxWish
Pledges == 1..MaxPledge
Months == 1..MaxMonth
Amounts == 1..MaxAmount
NoTarget == 0       \* target_ldc is NULL until an administrator sets one
WishStatus == {"open", "reached", "closed"}   \* closed: rejected or connected
NoWish == [status |-> "none"]
WishRow == [status : WishStatus, domain : Domains, target : Amounts \cup {NoTarget}]
OrderState == {"pending", "paid", "cancelled", "refunded", "deleted"}
NoRow == [state |-> "none"]
Charged == 0        \* the month of an order that no credit pays for
OrderRow == [state : OrderState, user : Users, wish : Wishes, amount : Amounts,
             month : Months \cup {Charged}]

Idle == [step |-> "idle"]
Job == {Idle}
    \cup [step : {"insert"}, domain : Domains, target : Amounts \cup {NoTarget}]
    \cup [step : {"credit"}, user : Users, wish : Wishes, amount : Amounts, month : Months]
    \cup [step : {"charge"}, user : Users, wish : Wishes, amount : Amounts]
    \cup [step : {"grant"}, user : Users]
    \cup [step : {"status"}, wish : Wishes, to : WishStatus]

PoolTypeOK ==
    /\ wish \in [Wishes -> {NoWish} \cup WishRow]
    /\ order \in [Pledges -> {NoRow} \cup OrderRow]
    /\ credit \in [Users -> [Months -> Amounts \cup {0}]]
    /\ debited \in [Users -> [Months -> Amounts \cup {0}]]
    /\ \A u \in Users, m \in Months : debited[u][m] <= credit[u][m]
    /\ members \subseteq Users
    /\ month \in Months
    /\ work \in [Clients -> Job]
    /\ edited \subseteq Wishes

PoolInit ==
    /\ wish = [w \in Wishes |-> NoWish]
    /\ order = [o \in Pledges |-> NoRow]
    /\ credit = [u \in Users |-> [m \in Months |-> 0]]
    /\ debited = [u \in Users |-> [m \in Months |-> 0]]
    /\ members \in SUBSET Users
    /\ month = 1
    /\ work = [h \in Clients |-> Idle]
    /\ edited = {}

Rows == {w \in Wishes : wish[w].status # "none"}

\* SUM(amount_ldc) over a set of orders, as a number of units.
Units(S, row) == UNION {{o} \X (1..row[o].amount) : o \in S}
PaidFor(w, row) == {o \in Pledges : row[o].state = "paid" /\ row[o].wish = w}
Pledged(w, row) == Cardinality(Units(PaidFor(w, row), row))

Do(h, from, to) == work[h].step = from /\ work' = [work EXCEPT ![h] = to]

-----------------------------------------------------------------------------
(* Wishes.                                                                 *)

\* CreateWishSite looks for the domain; an invited site has no target yet,
\* any other the default of the settings, which may be anything.
LookUp(h, d, t) ==
    /\ Do(h, "idle", [step |-> "insert", domain |-> d, target |-> t])
    /\ \A w \in Rows : wish[w].domain # d
    /\ UNCHANGED <<poolBooks, outside>>

\* Ids follow the greatest one in the table, so that a deleted wish's id may
\* be given out again.
NewId(w) == /\ \A v \in Rows : v < w
            /\ w > 1 => w - 1 \in Rows

\* The insert fails when the domain has come in since the lookup.
Insert(h) ==
    /\ Do(h, "insert", Idle)
    /\ \/ \E w \in Wishes :
             /\ NewId(w) /\ \A v \in Rows : wish[v].domain # work[h].domain
             /\ wish' = [wish EXCEPT ![w] = [status |-> "open",
                             domain |-> work[h].domain, target |-> work[h].target]]
             /\ edited' = edited \ {w}
       \/ /\ \E v \in Rows : wish[v].domain = work[h].domain
          /\ UNCHANGED <<wish, edited>>
    /\ UNCHANGED <<order, credit, debited, outside>>

\* UpdateWishSite: the target, then the status, in two updates of their own;
\* either may be left out.
SetTarget(w, t) ==
    /\ w \in Rows
    /\ wish' = [wish EXCEPT ![w].target = t]
    /\ edited' = edited \cup {w}
    /\ UNCHANGED <<order, credit, debited, outside>>

SetWishStatus(w, to) ==
    /\ IF w \in Rows THEN /\ wish' = [wish EXCEPT ![w].status = to]
                          /\ edited' = edited \cup {w}
                     ELSE UNCHANGED <<wish, edited>>
    /\ UNCHANGED <<order, credit, debited, outside>>

UpdateOne(w) ==
    /\ \/ \E t \in Goals : SetTarget(w, t)
       \/ w \in Rows /\ \E to \in WishStatus : SetWishStatus(w, to)
    /\ UNCHANGED work

UpdateBoth(h, w) ==
    /\ \E t \in Goals : SetTarget(w, t)
    /\ \E to \in WishStatus : Do(h, "idle", [step |-> "status", wish |-> w, to |-> to])

UpdateStatus(h) == Do(h, "status", Idle) /\ SetWishStatus(work[h].wish, work[h].to)

\* DeleteWishSite takes the orders of the wish with it.
DeleteWishSite(w) ==
    /\ w \in Rows
    /\ wish' = [wish EXCEPT ![w] = NoWish]
    /\ order' = [o \in Pledges |-> IF order[o] # NoRow /\ order[o].wish = w
                                    THEN [order[o] EXCEPT !.state = "deleted"]
                                    ELSE order[o]]
    /\ UNCHANGED <<credit, debited, edited, outside, work>>

-----------------------------------------------------------------------------
(* Money for a wish.  Both updates of the status look at it inside the     *)
(* transaction that changes the order.                                     *)

\* After a payment an open wish with a target is reached, or still short.
PaymentCounts(w) ==
    IF wish[w].status = "open"
      THEN /\ wish' = IF wish[w].target \in 1..Pledged(w, order')
                        THEN [wish EXCEPT ![w].status = "reached"] ELSE wish
           /\ edited' = edited \ {w}
      ELSE UNCHANGED <<wish, edited>>

\* After a refund a reached wish with a target is open again, or still covered.
RefundCounts(w) ==
    IF w \in Rows /\ wish[w].status = "reached" /\ wish[w].target # NoTarget
      THEN /\ wish' = IF wish[w].target > Pledged(w, order')
                        THEN [wish EXCEPT ![w].status = "open"] ELSE wish
           /\ edited' = edited \ {w}
      ELSE UNCHANGED <<wish, edited>>

\* MarkOrderPaid, by notification or poll.
MarkPledgePaid(o) ==
    /\ order[o].state = "pending"
    /\ order' = [order EXCEPT ![o].state = "paid"]
    /\ PaymentCounts(order[o].wish)
    /\ UNCHANGED <<credit, debited, outside, work>>

\* CancelOrder after a charge that failed, or maintenance after a day.
CancelPledge(o) ==
    /\ order[o].state = "pending"
    /\ order' = [order EXCEPT ![o].state = "cancelled"]
    /\ UNCHANGED <<wish, credit, debited, edited, outside, work>>

\* MarkOrderRefunded; credit that is refunded stays used.
MarkPledgeRefunded(o) ==
    /\ order[o].state = "paid"
    /\ order' = [order EXCEPT ![o].state = "refunded"]
    /\ RefundCounts(order[o].wish)
    /\ UNCHANGED <<credit, debited, outside, work>>

-----------------------------------------------------------------------------
(* Pledges and the monthly credit.                                         *)

\* The handler of a pledge reads the wish, the time and the amount.
StartPledge(h, u, w, n) ==
    /\ wish[w].status = "open"
    /\ Do(h, "idle", [step |-> "credit", user |-> u, wish |-> w, amount |-> n,
                      month |-> month])
    /\ UNCHANGED <<poolBooks, outside>>

\* The credit is granted once a month: a row that exists keeps its grant.
Grant(u, m, g) ==
    IF credit[u][m] = 0 THEN [credit EXCEPT ![u][m] = g] ELSE credit

\* GET /me/wish-credit reads the membership, then grants.
StartGrant(h, u) ==
    /\ u \in members
    /\ Do(h, "idle", [step |-> "grant", user |-> u])
    /\ UNCHANGED <<poolBooks, outside>>

EnsureMonthlyCredit(h) ==
    /\ Do(h, "grant", Idle)
    /\ \E g \in Grants : credit' = Grant(work[h].user, month, g)
    /\ UNCHANGED <<wish, order, debited, edited, outside>>

\* MIN(granted_ldc - used_ldc, amount)
Consume(left, n) == Min({left, n})

\* An order whose wish is deleted keeps its number.
NewOrder(o) == order[o] = NoRow /\ \A p \in 1..o-1 : order[p] # NoRow

CreditOrder(p, n) == [state |-> "paid", user |-> p.user, wish |-> p.wish,
                      amount |-> n, month |-> p.month]

Charge(p, n) == [step |-> "charge", user |-> p.user, wish |-> p.wish, amount |-> n]

\* Variant: the debit is committed before the order is inserted.
DebitFirst(h) ==
    LET p == work[h]
        n == IF p.step # "credit" THEN 0 ELSE Consume(credit[p.user][p.month] - debited[p.user][p.month], p.amount)
    IN  /\ n > 0
        /\ Do(h, "credit", IF n = p.amount THEN Idle
                           ELSE Charge(p, p.amount - n))
        /\ debited' = [debited EXCEPT ![p.user][p.month] = @ + n]
        /\ UNCHANGED <<wish, order, credit, edited, outside>>

\* PledgeMonthlyCredit for a member and an open wish: grant, debit, order and
\* the test of the target in one transaction.
PledgeCredit(h) ==
    LET p == work[h]
    IN  /\ p.step = "credit" /\ p.user \in members
        /\ wish[p.wish].status = "open"
        /\ \E g \in Grants :
             LET g1 == Grant(p.user, p.month, g)
                 n == Consume(g1[p.user][p.month] - debited[p.user][p.month], p.amount)
             IN  /\ credit' = g1
                 /\ work' = [work EXCEPT ![h] =
                       IF n = p.amount THEN Idle
                       ELSE Charge(p, p.amount - n)]
                 /\ \/ /\ n > 0
                       /\ debited' = [debited EXCEPT ![p.user][p.month] = @ + n]
                       /\ \E o \in Pledges :
                             /\ NewOrder(o)
                             /\ order' = [order EXCEPT ![o] = CreditOrder(p, n)]
                       /\ PaymentCounts(p.wish)
                    \/ n = 0 /\ UNCHANGED <<wish, order, debited, edited>>
        /\ UNCHANGED outside

\* Nobody but a member has credit: the whole amount is to be charged.
NoCredit(h) ==
    /\ work[h].step = "credit" /\ work[h].user \notin members
    /\ work' = [work EXCEPT ![h] = Charge(work[h], work[h].amount)]
    /\ UNCHANGED <<poolBooks, outside>>

\* The wish is gone or not open any more, or the transaction fails: nothing
\* of it happens, the grant included.
PledgeFails(h) ==
    /\ Do(h, "credit", Idle)
    /\ UNCHANGED <<poolBooks, outside>>

\* CreateOrder for what the credit does not cover; a wish deleted meanwhile
\* breaks the reference and no order comes about.
CreatePledge(h) ==
    LET p == work[h]
    IN  /\ Do(h, "charge", Idle)
        /\ \/ /\ p.wish \in Rows
              /\ \E o \in Pledges :
                   /\ NewOrder(o)
                   /\ order' = [order EXCEPT ![o] =
                         [state |-> "pending", user |-> p.user, wish |-> p.wish,
                          amount |-> p.amount, month |-> Charged]]
           \/ UNCHANGED order
        /\ UNCHANGED <<wish, credit, debited, edited, outside>>

-----------------------------------------------------------------------------
(* The world.                                                              *)

\* A membership begins, is prolonged, ends or is taken back (Membership).
MembershipTurns(u) ==
    /\ members' = IF u \in members THEN members \ {u} ELSE members \cup {u}
    /\ UNCHANGED <<poolBooks, month, work>>

NextMonth ==
    /\ month < MaxMonth /\ month' = month + 1
    /\ UNCHANGED <<poolBooks, members, work>>

CrashPool ==
    /\ work' = [h \in Clients |-> Idle]
    /\ UNCHANGED <<poolBooks, outside>>

PoolNext ==
    \/ NextMonth \/ CrashPool
    \/ \E u \in Users : MembershipTurns(u)
    \/ \E w \in Wishes : DeleteWishSite(w) \/ UpdateOne(w)
    \/ \E o \in Pledges : MarkPledgePaid(o) \/ CancelPledge(o) \/ MarkPledgeRefunded(o)
    \/ \E h \in Clients :
          \/ Insert(h) \/ UpdateStatus(h) \/ EnsureMonthlyCredit(h) \/ PledgeCredit(h)
          \/ NoCredit(h) \/ PledgeFails(h) \/ CreatePledge(h)
          \/ \E d \in Domains, t \in Goals \cup {NoTarget} : LookUp(h, d, t)
          \/ \E w \in Wishes : UpdateBoth(h, w)
          \/ \E u \in Users : StartGrant(h, u)
          \/ \E u \in Users, w \in Wishes, n \in Offers : StartPledge(h, u, w, n)

PoolSpec == PoolInit /\ [][PoolNext]_poolVars

-----------------------------------------------------------------------------
(* Properties.                                                             *)

\* Two users wishing for one domain at once get one wish between them.
OneWishPerDomain ==
    \A v, w \in Rows : wish[v].domain = wish[w].domain => v = w

\* Unless an administrator has decided otherwise since, an open wish is short
\* of its target and a reached one has it, whatever is paid, refunded, given
\* from credit, deleted or created again under an old id.
StatusFollowsMoney ==
    \A w \in Rows \ edited :
        wish[w].target # NoTarget =>
            /\ wish[w].status = "open" => Pledged(w, order) < wish[w].target
            /\ wish[w].status = "reached" => Pledged(w, order) >= wish[w].target

\* Every unit of credit that is used is in an order, and every credit order
\* has been debited: a pledge that fails halfway, concurrent pledges of one
\* member, the turn of the month and a lapsed membership lose and invent none.
PaidFromCredit(u, m) ==
    {o \in Pledges : order[o] # NoRow /\ order[o].user = u /\ order[o].month = m}
CreditMatchesOrders ==
    \A u \in Users, m \in Months :
        debited[u][m] = Cardinality(Units(PaidFromCredit(u, m), order))

\* The books of the pool: the three of them together.
PoolKeepsBooks == OneWishPerDomain /\ StatusFollowsMoney /\ CreditMatchesOrders
=============================================================================
