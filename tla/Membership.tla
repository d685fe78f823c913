----------------------------- MODULE Membership -----------------------------
(***************************************************************************)
(* The time of one user's membership (internal/store): users keeps only    *)
(* the moment the membership expires, membership_order_intervals the       *)
(* stretch of it that each paid order sold.  Time that no interval covers  *)
(* was given: redeemed codes, edits by hand, preregistrations, balances    *)
(* from before intervals existed.  A refund takes what remains of its own  *)
(* interval out of the middle and moves the later intervals forward.       *)
(*                                                                         *)
(* Every operation is one transaction.  A payment and a redemption read    *)
(* the time before they are granted SQLite's write lock, so theirs may be  *)
(* older than the one a transaction committed before them has used; a      *)
(* refund reads it with the lock held.  Where the money goes is module     *)
(* Orders; which row a username names is left out.                         *)
(***************************************************************************)
EXTENDS Integers

CONSTANTS
    Orders,         \* the user's membership orders
    LegacyOrders,   \* those paid before intervals existed
    Codes,          \* redeem codes
    Days,           \* lengths on sale: days of an order or a code
    MaxLag,         \* how old a transaction's time may be: busy_timeout
    MaxTime         \* bound on the clock and on expiries

ASSUME LegacyAssumption == LegacyOrders \subseteq Orders
ASSUME DaysAssumption == Days \subseteq Nat \ {0}
ASSUME TimeAssumption == MaxLag \in Nat /\ MaxTime \in Nat

VARIABLES
    clock,      \* the time of the machine
    row,        \* the user has a users row
    expiry,     \* users.membership_expires_at, 0 for NULL
    prereg,     \* membership_preregistrations.membership_expires_at, 0 for none
    status,     \* ldc_orders.status of the order
    owned,      \* the orders with a row in membership_order_intervals
    starts,     \* its starts_at
    ends,       \* its ends_at
    code        \* redeem_codes.status

vars == <<clock, row, expiry, prereg, status, owned, starts, ends, code>>

Times == 0..MaxTime
MaxOf(a, b) == IF a >= b THEN a ELSE b
MinOf(a, b) == IF a <= b THEN a ELSE b

TypeOK ==
    /\ clock \in Times /\ row \in BOOLEAN
    /\ expiry \in Times /\ prereg \in Times
    /\ status \in [Orders -> {"pending", "paid", "refunded"}]
    /\ owned \subseteq Orders
    /\ starts \in [Orders -> Times] /\ ends \in [Orders -> Times]
    /\ code \in [Codes -> {"none", "unused", "used", "revoked"}]
    /\ IF row THEN prereg = 0 ELSE expiry = 0 /\ owned = {}

\* A user of an older version may come with a balance and paid orders.
Init ==
    /\ clock = 0 /\ prereg = 0
    /\ row \in BOOLEAN
    /\ expiry \in IF row THEN Times ELSE {0}
    /\ status = [o \in Orders |-> IF row /\ o \in LegacyOrders
                                     THEN "paid" ELSE "pending"]
    /\ owned = {}
    /\ starts = [o \in Orders |-> 0] /\ ends = [o \in Orders |-> 0]
    /\ code = [c \in Codes |-> "none"]

-----------------------------------------------------------------------------

\* The times a transaction that commits now may have read before its lock.
Readings == {t \in 0..clock : clock <= t + MaxLag}

\* Set the expiry, within the bound of the model.
SetExpiry(e) == e \in Times /\ expiry' = e

Tick ==
    /\ clock < MaxTime /\ clock' = clock + 1
    /\ UNCHANGED <<row, expiry, prereg, status, owned, starts, ends, code>>

\* UpsertUser: the first login creates the row, and every login consumes a
\* preregistration of the user's name.
UpsertUser ==
    /\ row' = TRUE
    /\ expiry' = MaxOf(expiry, prereg) /\ prereg' = 0
    /\ UNCHANGED <<clock, status, owned, starts, ends, code>>

\* MarkOrderPaid: the order owns what it adds to the membership.
MarkOrderPaid(o) ==
    \E t \in Readings, days \in Days :
        /\ row /\ status[o] = "pending"
        /\ status' = [status EXCEPT ![o] = "paid"]
        /\ SetExpiry(MaxOf(expiry, t) + days)
        /\ owned' = owned \cup {o}
        /\ starts' = [starts EXCEPT ![o] = MaxOf(expiry, t)]
        /\ ends' = [ends EXCEPT ![o] = MaxOf(expiry, t) + days]
        /\ UNCHANGED <<clock, row, prereg, code>>

GenerateCode(c) ==
    /\ code[c] = "none" /\ code' = [code EXCEPT ![c] = "unused"]
    /\ UNCHANGED <<clock, row, expiry, prereg, status, owned, starts, ends>>

RevokeCode(c) ==
    /\ code[c] = "unused" /\ code' = [code EXCEPT ![c] = "revoked"]
    /\ UNCHANGED <<clock, row, expiry, prereg, status, owned, starts, ends>>

\* RedeemCode: the compare-and-set on the code decides among its users.
RedeemCode(c) ==
    /\ row /\ code[c] = "unused" /\ code' = [code EXCEPT ![c] = "used"]
    /\ \E t \in Readings, days \in Days : SetExpiry(MaxOf(expiry, t) + days)
    /\ UNCHANGED <<clock, row, prereg, status, owned, starts, ends>>

\* Variant: what an order has lost is given back when the expiry is raised.
SetMembershipRestoring(e) ==
    /\ row /\ expiry' = e /\ prereg' = 0
    /\ ends' = [o \in Orders |-> IF o \in owned /\ (ends[o] = expiry \/ ends[o] > e)
                                    THEN e ELSE ends[o]]
    /\ starts' = [o \in Orders |-> IF o \in owned THEN MinOf(starts[o], e) ELSE starts[o]]
    /\ UNCHANGED <<clock, row, status, owned, code>>

\* SetMembershipByUsername: 0 clears.  With a row, clipMembershipIntervals
\* takes the tail from the intervals; without one the time is put aside.
SetMembership(e) ==
    /\ \/ /\ row /\ expiry' = e /\ prereg' = 0
          /\ starts' = [o \in Orders |-> IF o \in owned /\ ends[o] > e
                                            THEN MinOf(starts[o], e) ELSE starts[o]]
          /\ ends' = [o \in Orders |-> IF o \in owned /\ ends[o] > e
                                          THEN e ELSE ends[o]]
       \/ ~row /\ prereg' = e /\ UNCHANGED <<expiry, starts, ends>>
    /\ UNCHANGED <<clock, row, status, owned, code>>

\* Variant: all the days of the order are taken, used up or not.
RevokeWhole(o, t) ==
    /\ expiry' = expiry - (ends[o] - starts[o])
    /\ starts' = [p \in Orders |-> IF p \in owned \ {o} /\ starts[p] >= ends[o]
                                      THEN starts[p] - (ends[o] - starts[o])
                                      ELSE starts[p]]
    /\ ends' = [p \in Orders |->
                   IF p \in owned \ {o} /\ starts[p] >= ends[o]
                      THEN ends[p] - (ends[o] - starts[o])
                      ELSE IF p = o THEN starts[o] ELSE ends[p]]

\* Variant: the later intervals stay where they are.
RevokeInPlace(o, t) ==
    LET from == MaxOf(starts[o], t)
        until == MinOf(ends[o], expiry)
        remaining == MaxOf(0, until - from)
    IN  /\ expiry' = expiry - remaining
        /\ ends' = [ends EXCEPT ![o] = MinOf(@, from)]
        /\ UNCHANGED starts

\* revokeOrderMembership: take the remaining part out, move the rest forward.
Revoke(o, t) ==
    LET from == MaxOf(starts[o], t)
        until == MinOf(ends[o], expiry)
        remaining == MaxOf(0, until - from)
        Later(p) == p \in owned \ {o} /\ starts[p] >= until
    IN  \/ remaining = 0 /\ UNCHANGED <<expiry, starts, ends>>
        \/ /\ remaining # 0
           /\ expiry' = expiry - remaining
           /\ starts' = [p \in Orders |->
                            IF Later(p) THEN starts[p] - remaining ELSE starts[p]]
           /\ ends' = [p \in Orders |->
                          IF Later(p) THEN ends[p] - remaining
                          ELSE IF p = o THEN MinOf(ends[o], from) ELSE ends[p]]

\* MarkOrderRefunded rolls back for an order that owns no interval.
MarkOrderRefunded(o) ==
    /\ status[o] = "paid" /\ o \in owned
    /\ status' = [status EXCEPT ![o] = "refunded"]
    /\ Revoke(o, clock)
    /\ UNCHANGED <<clock, row, prereg, owned, code>>

Next ==
    \/ Tick \/ UpsertUser
    \/ \E o \in Orders : MarkOrderPaid(o) \/ MarkOrderRefunded(o)
    \/ \E c \in Codes : GenerateCode(c) \/ RevokeCode(c) \/ RedeemCode(c)
    \/ \E e \in Times : SetMembership(e)

Spec == Init /\ [][Next]_vars

-----------------------------------------------------------------------------
(* Properties.                                                             *)

Length(o) == ends[o] - starts[o]

\* No moment of the membership is sold twice, and none that was sold lies
\* beyond the expiry, whatever was paid, given, cut and refunded before.
SoldOnce ==
    /\ \A o \in owned : starts[o] <= ends[o] /\ ends[o] <= expiry
    /\ \A o, p \in owned : o # p => ends[o] <= starts[p] \/ ends[p] <= starts[o]

\* A refund shortens the membership by what is left of its own order and by
\* nothing else: other orders keep all of their time, gifts keep theirs, and
\* the part of the order that has been used stays with it.
RefundTakesOwnShare ==
    [][\A o \in Orders :
          status[o] = "paid" /\ status'[o] = "refunded" =>
              /\ expiry - expiry' = Length(o) - Length(o)'
              /\ \A p \in owned \ {o} : Length(p)' = Length(p)
              /\ starts'[o] = starts[o]
              /\ ends'[o] >= MinOf(ends[o], clock)]_vars

\* Time an order has lost, to a refund or to an administrator's cut, never
\* comes back to it, not even when the membership is extended again.
LostTimeStaysLost ==
    [][\A o \in owned : o \in owned' /\ Length(o)' <= Length(o)]_vars

=============================================================================
