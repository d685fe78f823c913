------------------------------- MODULE Orders -------------------------------
(***************************************************************************)
(* LDC orders from their creation to their refund: the handlers that       *)
(* create, poll, book and refund them (internal/httpserver/user_routes.go, *)
(* admin_membership.go), the rows of ldc_orders and order_refund_attempts  *)
(* (internal/store), and the payment platform behind payment.Provider,     *)
(* whose calls may be lost, answered late or answered twice.               *)
(*                                                                         *)
(* A crash ends every handler and leaves the rows; the process is taken to *)
(* be up again at once.  How much membership an order grants is left to    *)
(* the interval arithmetic of the store; here a grant is only counted.     *)
(***************************************************************************)
EXTENDS Naturals, FiniteSets

CONSTANTS
    Orders,         \* order rows
    WishOrders,     \* the orders that pledge to the one wish site modelled
    CreditOrders,   \* the wish orders paid from the monthly free credit
    Admins,         \* concurrent POST /admin/orders/{id}/refund handlers
    NoOrder,
    MaxFaults       \* bound on the writes that fail

ASSUME OrdersAssumption == /\ CreditOrders \subseteq WishOrders
                           /\ WishOrders \subseteq Orders
                           /\ NoOrder \notin Orders
ASSUME OrderFaultsAssumption == MaxFaults \in Nat

VARIABLES
    \* rows of SQLite
    status,         \* ldc_orders.status; "none" before, "deleted" after the row
    granted,        \* how often MarkOrderPaid has given the order's benefit
    attempt,        \* order_refund_attempts.status, "none" for no row
    wishExists,     \* the wish site's row
    \* the platform
    charge,         \* the order's charge there: none, open or paid
    acked,          \* our "success" has reached the platform
    transfers,      \* refunds it has paid out for the order
    \* handlers
    creating,       \* createChargeOrder of the order: where it is
    polled,         \* orders whose poll has seen the charge paid
    pc, job, result,    \* per refund handler: where it is, its order and what
                        \* the platform answered
    faults          \* writes that have failed so far

books == <<status, granted, attempt, wishExists>>
platform == <<charge, acked, transfers>>
refunder == <<pc, job, result>>
vars == <<books, platform, creating, polled, refunder, faults>>

OrderStatus == {"none", "pending", "paid", "cancelled", "refunded", "deleted"}
Attempt == {"none", "running", "uncertain", "succeeded", "rejected"}
Result == {"uncertain", "succeeded", "rejected"}
RefundPC == {"idle", "claim", "transfer", "record", "mark"}

TypeOK ==
    /\ status \in [Orders -> OrderStatus]
    /\ granted \in [Orders -> Nat]
    /\ attempt \in [Orders -> Attempt]
    /\ wishExists \in BOOLEAN
    /\ charge \in [Orders -> {"none", "open", "paid"}]
    /\ acked \in [Orders -> BOOLEAN]
    /\ transfers \in [Orders -> Nat]
    /\ creating \in [Orders -> {"idle", "charge", "cancel"}]
    /\ polled \subseteq Orders
    /\ pc \in [Admins -> RefundPC]
    /\ job \in [Admins -> Orders \cup {NoOrder}]
    /\ result \in [Admins -> Result]
    /\ \A a \in Admins : pc[a] # "idle" => job[a] \in Orders
    /\ \A o \in CreditOrders : charge[o] = "none" /\ creating[o] = "idle"
    /\ faults \in 0..MaxFaults

Init ==
    /\ status = [o \in Orders |-> "none"]
    /\ granted = [o \in Orders |-> 0]
    /\ attempt = [o \in Orders |-> "none"]
    /\ wishExists = TRUE
    /\ charge = [o \in Orders |-> "none"]
    /\ acked = [o \in Orders |-> FALSE]
    /\ transfers = [o \in Orders |-> 0]
    /\ creating = [o \in Orders |-> "idle"]
    /\ polled = {}
    /\ pc = [a \in Admins |-> "idle"]
    /\ job = [a \in Admins |-> NoOrder]
    /\ result = [a \in Admins |-> "uncertain"]
    /\ faults = 0

WriteFails == faults < MaxFaults /\ faults' = faults + 1

\* The compare-and-set every status change of the store is written as.
SetStatus(o, from, to) ==
    /\ status' = IF status[o] = from THEN [status EXCEPT ![o] = to] ELSE status

-----------------------------------------------------------------------------
(* Creation.                                                               *)

\* createChargeOrder inserts the row, then asks the platform for a charge.
CreateOrder(o) ==
    /\ status[o] = "none" /\ o \notin CreditOrders
    /\ o \in WishOrders => wishExists
    /\ status' = [status EXCEPT ![o] = "pending"]
    /\ creating' = [creating EXCEPT ![o] = "charge"]
    /\ UNCHANGED <<granted, attempt, wishExists, platform, polled, refunder, faults>>

\* CreateCharge returns the page to pay on, or an error.
CreateCharge(o) ==
    /\ creating[o] = "charge"
    /\ \/ /\ charge' = [charge EXCEPT ![o] = "open"]
          /\ creating' = [creating EXCEPT ![o] = "idle"]
       \/ /\ creating' = [creating EXCEPT ![o] = "cancel"] /\ UNCHANGED charge
    /\ UNCHANGED <<books, acked, transfers, polled, refunder, faults>>

\* CancelOrder on the request's context; its error is dropped.
CancelOrder(o) ==
    /\ creating[o] = "cancel"
    /\ creating' = [creating EXCEPT ![o] = "idle"]
    /\ SetStatus(o, "pending", "cancelled") \/ UNCHANGED status
    /\ UNCHANGED <<granted, attempt, wishExists, platform, polled, refunder, faults>>

\* PledgeMonthlyCredit: a credit order is inserted as paid.
Pledge(o) ==
    /\ o \in CreditOrders /\ status[o] = "none" /\ wishExists
    /\ status' = [status EXCEPT ![o] = "paid"]
    /\ granted' = [granted EXCEPT ![o] = @ + 1]
    /\ UNCHANGED <<attempt, wishExists, platform, creating, polled, refunder, faults>>

\* Maintenance: CancelExpiredOrders, a day after the creation.
CancelExpired(o) ==
    /\ status[o] = "pending" /\ creating[o] = "idle"
    /\ SetStatus(o, "pending", "cancelled")
    /\ UNCHANGED <<granted, attempt, wishExists, platform, creating, polled,
                   refunder, faults>>

\* DeleteWishSite deletes the orders of the wish with it, unless one has a
\* refund attempt: that reference does not cascade and the delete fails.
DeleteWish ==
    /\ wishExists /\ wishExists' = FALSE
    /\ \A o \in WishOrders : attempt[o] = "none"
    /\ status' = [o \in Orders |-> IF o \in WishOrders /\ status[o] # "none"
                                      THEN "deleted" ELSE status[o]]
    /\ UNCHANGED <<granted, attempt, platform, creating, polled, refunder, faults>>

-----------------------------------------------------------------------------
(* Payment.                                                                *)

\* The user pays on the platform's page.
Pay(o) ==
    /\ charge[o] = "open"
    /\ charge' = [charge EXCEPT ![o] = "paid"]
    /\ UNCHANGED <<books, acked, transfers, creating, polled, refunder, faults>>

\* Variant: the update does not ask that the order be pending.
MarkOrderPaidAgain(o) ==
    /\ status' = [status EXCEPT ![o] = "paid"]
    /\ granted' = [granted EXCEPT ![o] = @ + 1]

\* MarkOrderPaid: status, interval and expiry, or the wish's progress, in one
\* transaction; no change, and no error, unless the order is pending.
MarkOrderPaid(o) ==
    /\ SetStatus(o, "pending", "paid")
    /\ granted' = IF status[o] = "pending" THEN [granted EXCEPT ![o] = @ + 1]
                                           ELSE granted

\* Variant: the platform is answered although the write has failed.
NotifyAcksFirst(o) ==
    /\ charge[o] = "paid" /\ ~acked[o] /\ status[o] \notin {"none", "deleted"}
    /\ acked' = [acked EXCEPT ![o] = TRUE]
    /\ \/ MarkOrderPaid(o) /\ UNCHANGED faults
       \/ WriteFails /\ UNCHANGED <<status, granted>>
    /\ UNCHANGED <<attempt, wishExists, charge, transfers, creating, polled, refunder>>

\* The platform notifies until it is told "success": the order must exist and
\* the write succeed, but whether it changed anything is not looked at.
Notify(o) ==
    /\ charge[o] = "paid" /\ ~acked[o]
    /\ status[o] \notin {"none", "deleted"}
    /\ \/ /\ MarkOrderPaid(o)
          /\ acked' \in {acked, [acked EXCEPT ![o] = TRUE]}
          /\ UNCHANGED faults
       \/ WriteFails /\ UNCHANGED <<status, granted, acked>>
    /\ UNCHANGED <<attempt, wishExists, charge, transfers, creating, polled, refunder>>

\* Variant: the answer of Verify is not looked at.
PollUnverified(o) ==
    /\ status[o] = "pending"
    /\ polled' = polled \cup {o}
    /\ UNCHANGED <<books, platform, creating, refunder, faults>>

\* The owner polls a pending order and Payment.Verify says it is paid.
PollVerify(o) ==
    /\ status[o] = "pending" /\ charge[o] = "paid"
    /\ polled' = polled \cup {o}
    /\ UNCHANGED <<books, platform, creating, refunder, faults>>

PollBook(o) ==
    /\ o \in polled /\ polled' = polled \ {o}
    /\ \/ MarkOrderPaid(o) /\ UNCHANGED faults
       \/ WriteFails /\ UNCHANGED <<status, granted>>
    /\ UNCHANGED <<attempt, wishExists, platform, creating, refunder>>

-----------------------------------------------------------------------------
(* Refund, one handler per administrator.                                  *)

Advance(a, from, to) ==
    /\ pc[a] = from /\ pc' = [pc EXCEPT ![a] = to]
    /\ job' = IF to = "idle" THEN [job EXCEPT ![a] = NoOrder] ELSE job

\* ValidateOrderRefund, then GetOrder: with the platform, or only in the books
\* when told so and always for credit.
StartRefund(a, o) ==
    /\ pc[a] = "idle" /\ status[o] = "paid"
    /\ \/ o \notin CreditOrders /\ pc' = [pc EXCEPT ![a] = "claim"]
       \/ pc' = [pc EXCEPT ![a] = "mark"]
    /\ job' = [job EXCEPT ![a] = o]
    /\ UNCHANGED <<books, platform, creating, polled, result, faults>>

\* Variant: the attempt is claimed whatever became of an earlier one.
ClaimAnyRefund(a) ==
    /\ Advance(a, "claim", "transfer")
    /\ status[job[a]] = "paid"
    /\ attempt' = [attempt EXCEPT ![job[a]] = "running"]
    /\ UNCHANGED <<status, granted, wishExists, platform, creating, polled,
                   result, faults>>

\* ClaimPlatformRefund: a first attempt, or one after an explicit rejection.
ClaimRefund(a) ==
    /\ \/ /\ Advance(a, "claim", "transfer")
          /\ status[job[a]] = "paid" /\ attempt[job[a]] \in {"none", "rejected"}
          /\ attempt' = [attempt EXCEPT ![job[a]] = "running"]
       \/ Advance(a, "claim", "idle") /\ UNCHANGED attempt
    /\ UNCHANGED <<status, granted, wishExists, platform, creating, polled,
                   result, faults>>

\* Payment.Refund: an answer, a refusal, or neither with the money sent or not.
Transfer(a) ==
    /\ Advance(a, "transfer", "record")
    /\ \/ /\ result' \in {[result EXCEPT ![a] = r] : r \in {"succeeded", "uncertain"}}
          /\ transfers' = [transfers EXCEPT ![job[a]] = @ + 1]
       \/ /\ result' \in {[result EXCEPT ![a] = r] : r \in {"rejected", "uncertain"}}
          /\ UNCHANGED transfers
    /\ UNCHANGED <<books, charge, acked, creating, polled, faults>>

\* Variant: an answer that is not clear is recorded as a refusal.
RecordUncertainAsRejected(a) ==
    /\ Advance(a, "record", IF result[a] = "succeeded" THEN "mark" ELSE "idle")
    /\ attempt' = [attempt EXCEPT ![job[a]] =
                        IF result[a] = "succeeded" THEN "succeeded" ELSE "rejected"]
    /\ UNCHANGED <<status, granted, wishExists, platform, creating, polled, result,
                   faults>>

\* RecordPlatformRefundResult, on a context of its own.
RecordResult(a) ==
    /\ pc[a] = "record"
    /\ \/ /\ attempt' = IF attempt[job[a]] = "running"
                           THEN [attempt EXCEPT ![job[a]] = result[a]] ELSE attempt
          /\ Advance(a, "record", IF result[a] = "succeeded" THEN "mark" ELSE "idle")
          /\ UNCHANGED faults
       \/ WriteFails /\ Advance(a, "record", "idle") /\ UNCHANGED attempt
    /\ UNCHANGED <<status, granted, wishExists, platform, creating, polled, result>>

\* MarkOrderRefunded revokes what is left of the benefit in the same
\* transaction; it fails when the order is no longer paid, or with the write.
MarkRefunded(a) ==
    /\ Advance(a, "mark", "idle")
    /\ \/ SetStatus(job[a], "paid", "refunded") /\ UNCHANGED faults
       \/ WriteFails /\ UNCHANGED status
    /\ UNCHANGED <<granted, attempt, wishExists, platform, creating, polled, result>>

Refund(a) ==
    \/ ClaimRefund(a) \/ Transfer(a) \/ RecordResult(a) \/ MarkRefunded(a)

\* The process dies and starts again: every handler is gone.
Crash ==
    /\ creating' = [o \in Orders |-> "idle"]
    /\ polled' = {}
    /\ pc' = [a \in Admins |-> "idle"]
    /\ job' = [a \in Admins |-> NoOrder]
    /\ UNCHANGED <<books, platform, result, faults>>

Next ==
    \/ Crash \/ DeleteWish
    \/ \E o \in Orders :
          \/ CreateOrder(o) \/ CreateCharge(o) \/ CancelOrder(o) \/ Pledge(o)
          \/ CancelExpired(o) \/ Pay(o) \/ Notify(o) \/ PollVerify(o) \/ PollBook(o)
    \/ \E a \in Admins : Refund(a) \/ \E o \in Orders : StartRefund(a, o)

\* The platform repeats its notification until it is answered.
Fairness == \A o \in Orders : WF_vars(Notify(o))

Spec == Init /\ [][Next]_vars
FairSpec == Spec /\ Fairness

-----------------------------------------------------------------------------
(* Properties.                                                             *)

\* The platform is never asked to pay an order back twice, whatever crashes,
\* lost answers, retries and concurrent administrators come between: the
\* claim is durable and only an explicit refusal reopens it.
AtMostOneTransfer == \A o \in Orders : transfers[o] <= 1

\* While a transfer may have happened the attempt says so: what an
\* administrator is shown never invites a second one.
TransferOnRecord ==
    \A o \in Orders : transfers[o] > 0
        => attempt[o] \in {"running", "uncertain", "succeeded"}

\* Callback, poll, replay and expiry race for one order: its benefit is given
\* at most once, and only for money that came in.
GrantedOnce ==
    \A o \in Orders :
        /\ granted[o] <= 1
        /\ granted[o] > 0 => charge[o] = "paid" \/ o \in CreditOrders

\* Money is sent back only for a charge that was paid and booked.
TransferOnlyBooked ==
    \A o \in Orders : transfers[o] > 0 => charge[o] = "paid" /\ granted[o] > 0

\* A paid charge is settled in the books in the end, or was given up there.
PaidIsSettled ==
    \A o \in Orders :
        charge[o] = "paid" ~> status[o] \in {"paid", "refunded", "cancelled", "deleted"}

\* user_routes.go says the notification is booked and then answered "success".
\* But an order cancelled meanwhile is answered too, and never booked.
AckedIsBooked ==
    \A o \in Orders : acked[o] => granted[o] > 0
=============================================================================
