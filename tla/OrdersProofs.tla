---------------------------- MODULE OrdersProofs ----------------------------
(***************************************************************************)
(* Proofs about Orders, for any sets of orders and administrators and any  *)
(* number of failed writes; and about Dashboard, for any pages and bounds. *)
(*                                                                         *)
(* Two inductive invariants carry the theorems.  RefundInv says what a     *)
(* refund attempt knows of the money sent: only one handler at a time can  *)
(* be between claiming an attempt and recording its result, and its claim  *)
(* is still "running".  BookInv ties what an order has granted to its      *)
(* status, and every step of a refund to an order that was booked.         *)
(*                                                                         *)
(* Dashboard implements Published: the two reads of a payload straddle no  *)
(* commit, because the revision only grows and was the same before the     *)
(* first and after the second.  DashInv keeps the order of what a request  *)
(* has read so far.                                                        *)
(***************************************************************************)
EXTENDS Orders, Dashboard, TLAPS

USE OrdersAssumption, OrderFaultsAssumption

\* A handler that has claimed an attempt and not yet recorded its result.
InFlight(a) == pc[a] \in {"transfer", "record"}

RefundInv ==
    /\ \A o \in Orders :
          \/ transfers[o] = 0
          \/ transfers[o] = 1 /\ attempt[o] \in {"running", "uncertain", "succeeded"}
    /\ \A a \in Admins : InFlight(a) => attempt[job[a]] = "running"
    /\ \A a \in Admins : pc[a] = "transfer" => transfers[job[a]] = 0
    /\ \A a \in Admins : pc[a] = "record" /\ result[a] = "rejected"
                            => transfers[job[a]] = 0
    /\ \A a, b \in Admins : a # b /\ InFlight(a) /\ InFlight(b) => job[a] # job[b]

BookInv ==
    /\ \A o \in Orders :
          /\ granted[o] \in {0, 1}
          /\ status[o] \in {"none", "pending"} => granted[o] = 0
          /\ status[o] = "paid" => granted[o] = 1
          /\ granted[o] = 1 => charge[o] = "paid" \/ o \in CreditOrders
          /\ o \in polled => charge[o] = "paid"
          /\ status[o] = "none" \/ creating[o] = "charge" => charge[o] = "none"
          /\ status[o] = "none" => creating[o] = "idle"
          /\ transfers[o] > 0 => granted[o] = 1 /\ o \notin CreditOrders
    /\ \A a \in Admins : pc[a] \in {"claim", "transfer", "record"}
                            => job[a] \notin CreditOrders
    /\ \A a \in Admins : InFlight(a) => granted[job[a]] = 1

\* Every action, for the proofs that split Next into its disjuncts.
Actions ==
    \/ Crash \/ DeleteWish
    \/ \E o \in Orders : CreateOrder(o)
    \/ \E o \in Orders : CreateCharge(o)
    \/ \E o \in Orders : CancelOrder(o)
    \/ \E o \in Orders : Pledge(o)
    \/ \E o \in Orders : CancelExpired(o)
    \/ \E o \in Orders : Pay(o)
    \/ \E o \in Orders : Notify(o)
    \/ \E o \in Orders : PollVerify(o)
    \/ \E o \in Orders : PollBook(o)
    \/ \E a \in Admins, o \in Orders : StartRefund(a, o)
    \/ \E a \in Admins : ClaimRefund(a)
    \/ \E a \in Admins : Transfer(a)
    \/ \E a \in Admins : RecordResult(a)
    \/ \E a \in Admins : MarkRefunded(a)

\* A step is a step of one named action.
LEMMA NextSplits == Next => Actions
  BY DEF Next, Actions, Refund

-----------------------------------------------------------------------------
(* The rows, the platform and the handlers keep their types.               *)

LEMMA TypeInit == Init => TypeOK
  BY DEF Init, TypeOK, OrderStatus, Attempt, Result, RefundPC

\* Every step keeps the types.
LEMMA TypeStep == TypeOK /\ [Next]_vars => TypeOK'
<1> SUFFICES ASSUME TypeOK, [Next]_vars PROVE TypeOK'
  OBVIOUS
<1> USE DEF TypeOK, OrderStatus, Attempt, Result, RefundPC, books, platform, refunder,
        SetStatus, WriteFails, Advance, MarkOrderPaid
<1>1. CASE UNCHANGED vars
  BY <1>1 DEF vars
<1>2. CASE Crash
  BY <1>2 DEF Crash
<1>3. CASE DeleteWish
  BY <1>3 DEF DeleteWish
<1>4. ASSUME NEW o \in Orders, CreateOrder(o) PROVE TypeOK'
  BY <1>4 DEF CreateOrder
<1>5. ASSUME NEW o \in Orders, CreateCharge(o) PROVE TypeOK'
  BY <1>5 DEF CreateCharge
<1>6. ASSUME NEW o \in Orders, CancelOrder(o) PROVE TypeOK'
  BY <1>6 DEF CancelOrder
<1>7. ASSUME NEW o \in Orders, Pledge(o) PROVE TypeOK'
  BY <1>7 DEF Pledge
<1>8. ASSUME NEW o \in Orders, CancelExpired(o) PROVE TypeOK'
  BY <1>8 DEF CancelExpired
<1>9. ASSUME NEW o \in Orders, Pay(o) PROVE TypeOK'
  BY <1>9 DEF Pay
<1>10. ASSUME NEW o \in Orders, Notify(o) PROVE TypeOK'
  <2>1. acked' = acked \/ acked' = [acked EXCEPT ![o] = TRUE]
    BY <1>10, Zenon DEF Notify
  <2>2. acked' \in [Orders -> BOOLEAN]
    BY <2>1
  <2>3. /\ \/ MarkOrderPaid(o) /\ UNCHANGED faults
           \/ WriteFails /\ UNCHANGED <<status, granted>>
        /\ status[o] \notin {"none", "deleted"} /\ charge[o] = "paid"
        /\ UNCHANGED <<attempt, wishExists, charge, transfers, creating, polled,
                       refunder>>
    BY <1>10, Zenon DEF Notify
  <2> QED
    BY <2>2, <2>3
<1>11. ASSUME NEW o \in Orders, PollVerify(o) PROVE TypeOK'
  BY <1>11 DEF PollVerify
<1>12. ASSUME NEW o \in Orders, PollBook(o) PROVE TypeOK'
  BY <1>12 DEF PollBook
<1>13. ASSUME NEW a \in Admins, NEW o \in Orders, StartRefund(a, o) PROVE TypeOK'
  BY <1>13 DEF StartRefund
<1>14. ASSUME NEW a \in Admins, ClaimRefund(a) PROVE TypeOK'
  BY <1>14 DEF ClaimRefund
<1>15. ASSUME NEW a \in Admins, Transfer(a) PROVE TypeOK'
  BY <1>15 DEF Transfer
<1>16. ASSUME NEW a \in Admins, RecordResult(a) PROVE TypeOK'
  BY <1>16 DEF RecordResult
<1>17. ASSUME NEW a \in Admins, MarkRefunded(a) PROVE TypeOK'
  BY <1>17 DEF MarkRefunded
<1> QED
  BY <1>1, <1>2, <1>3, <1>4, <1>5, <1>6, <1>7, <1>8, <1>9, <1>10, <1>11, <1>12, <1>13,
     <1>14, <1>15, <1>16, <1>17, NextSplits DEF Actions

-----------------------------------------------------------------------------
(* At most one handler refunds an order, and its attempt is on record.     *)

LEMMA RefundInit == Init => RefundInv
  BY DEF Init, RefundInv, InFlight

\* Every step keeps what is known of refunds.
LEMMA RefundStep == TypeOK /\ RefundInv /\ [Next]_vars => RefundInv'
<1> SUFFICES ASSUME TypeOK, RefundInv, [Next]_vars PROVE RefundInv'
  OBVIOUS
<1> USE DEF TypeOK, RefundInv, InFlight, OrderStatus, Attempt, Result, RefundPC
<1>1. CASE UNCHANGED <<attempt, transfers, pc, job, result>>
  BY <1>1
<1>2. CASE Crash
  BY <1>2 DEF Crash, books, platform
<1>3. ASSUME NEW a \in Admins, NEW o \in Orders, StartRefund(a, o) PROVE RefundInv'
  BY <1>3 DEF StartRefund, books, platform
<1>4. ASSUME NEW a \in Admins, ClaimRefund(a) PROVE RefundInv'
  \* An attempt that is free to be claimed has no handler in flight, and a
  \* refused or missing one has sent no money.
  <2>1. CASE Advance(a, "claim", "idle") /\ UNCHANGED attempt
    BY <1>4, <2>1 DEF ClaimRefund, Advance, platform
  <2>2. CASE /\ Advance(a, "claim", "transfer")
             /\ attempt[job[a]] \in {"none", "rejected"}
             /\ attempt' = [attempt EXCEPT ![job[a]] = "running"]
    <3>1. transfers[job[a]] = 0
      BY <2>2 DEF Advance
    <3>2. \A b \in Admins : InFlight(b) => job[b] # job[a]
      BY <2>2 DEF Advance
    <3> QED
      BY <1>4, <2>2, <3>1, <3>2 DEF ClaimRefund, Advance, platform
  <2> QED
    BY <1>4, <2>1, <2>2 DEF ClaimRefund
<1>5. ASSUME NEW a \in Admins, Transfer(a) PROVE RefundInv'
  BY <1>5 DEF Transfer, Advance, books
<1>6. ASSUME NEW a \in Admins, RecordResult(a) PROVE RefundInv'
  BY <1>6 DEF RecordResult, Advance, platform
<1>7. ASSUME NEW a \in Admins, MarkRefunded(a) PROVE RefundInv'
  BY <1>7 DEF MarkRefunded, Advance, platform
<1>8. CASE \/ DeleteWish
           \/ \E o \in Orders : \/ CreateOrder(o) \/ CreateCharge(o) \/ CancelOrder(o)
                                \/ Pledge(o) \/ CancelExpired(o) \/ Pay(o)
                                \/ Notify(o) \/ PollVerify(o) \/ PollBook(o)
  BY <1>1, <1>8 DEF DeleteWish, CreateOrder, CreateCharge, CancelOrder, Pledge,
     CancelExpired, Pay, Notify, PollVerify, PollBook, books, platform, refunder
<1> QED
  BY <1>1, <1>2, <1>3, <1>4, <1>5, <1>6, <1>7, <1>8 DEF Next, Refund, vars, books,
     platform, refunder

-----------------------------------------------------------------------------
(* What an order has granted follows its status.                           *)

LEMMA BookInit == Init => BookInv
  BY DEF Init, BookInv, InFlight

\* Every step keeps what is known of bookings.
LEMMA BookStep == TypeOK /\ BookInv /\ [Next]_vars => BookInv'
<1> SUFFICES ASSUME TypeOK, BookInv, [Next]_vars PROVE BookInv'
  OBVIOUS
<1> USE DEF TypeOK, BookInv, InFlight, OrderStatus, Attempt, Result, RefundPC, books,
        platform, refunder, SetStatus, WriteFails, Advance, MarkOrderPaid
<1>1. CASE UNCHANGED vars
  BY <1>1 DEF vars
<1>2. CASE Crash
  BY <1>2 DEF Crash
<1>3. CASE DeleteWish
  BY <1>3 DEF DeleteWish
<1>4. ASSUME NEW o \in Orders, CreateOrder(o) PROVE BookInv'
  BY <1>4 DEF CreateOrder
<1>5. ASSUME NEW o \in Orders, CreateCharge(o) PROVE BookInv'
  BY <1>5 DEF CreateCharge
<1>6. ASSUME NEW o \in Orders, CancelOrder(o) PROVE BookInv'
  BY <1>6 DEF CancelOrder
<1>7. ASSUME NEW o \in Orders, Pledge(o) PROVE BookInv'
  BY <1>7 DEF Pledge
<1>8. ASSUME NEW o \in Orders, CancelExpired(o) PROVE BookInv'
  BY <1>8 DEF CancelExpired
<1>9. ASSUME NEW o \in Orders, Pay(o) PROVE BookInv'
  BY <1>9 DEF Pay
<1>10. ASSUME NEW o \in Orders, Notify(o) PROVE BookInv'
  <2>1. /\ \/ MarkOrderPaid(o) /\ UNCHANGED faults
           \/ WriteFails /\ UNCHANGED <<status, granted>>
        /\ status[o] \notin {"none", "deleted"} /\ charge[o] = "paid"
        /\ UNCHANGED <<attempt, wishExists, charge, transfers, creating, polled,
                       refunder>>
    BY <1>10, Zenon DEF Notify
  <2> QED
    BY <2>1
<1>11. ASSUME NEW o \in Orders, PollVerify(o) PROVE BookInv'
  BY <1>11 DEF PollVerify
<1>12. ASSUME NEW o \in Orders, PollBook(o) PROVE BookInv'
  BY <1>12 DEF PollBook
<1>13. ASSUME NEW a \in Admins, NEW o \in Orders, StartRefund(a, o) PROVE BookInv'
  BY <1>13 DEF StartRefund
<1>14. ASSUME NEW a \in Admins, ClaimRefund(a) PROVE BookInv'
  BY <1>14 DEF ClaimRefund
<1>15. ASSUME NEW a \in Admins, Transfer(a) PROVE BookInv'
  BY <1>15 DEF Transfer
<1>16. ASSUME NEW a \in Admins, RecordResult(a) PROVE BookInv'
  BY <1>16 DEF RecordResult
<1>17. ASSUME NEW a \in Admins, MarkRefunded(a) PROVE BookInv'
  BY <1>17 DEF MarkRefunded
<1> QED
  BY <1>1, <1>2, <1>3, <1>4, <1>5, <1>6, <1>7, <1>8, <1>9, <1>10, <1>11, <1>12, <1>13,
     <1>14, <1>15, <1>16, <1>17, NextSplits DEF Actions

-----------------------------------------------------------------------------
(* The theorems.                                                           *)

\* Every handler and row keeps its type, and credit orders never meet the
\* platform.
THEOREM OrdersTypeCorrect == Spec => []TypeOK
  BY TypeInit, TypeStep, PTL DEF Spec

\* What is known of refunds holds in every state.
LEMMA RefundInvariance == Spec => []RefundInv
  BY RefundInit, RefundStep, OrdersTypeCorrect, PTL DEF Spec

\* What is known of bookings holds in every state.
LEMMA BookInvariance == Spec => []BookInv
  BY BookInit, BookStep, OrdersTypeCorrect, PTL DEF Spec

\* An order is paid back at most once, whatever crashes, lost answers, retries
\* and concurrent administrators come between.
THEOREM RefundedOnce == Spec => []AtMostOneTransfer
<1>1. RefundInv => AtMostOneTransfer
  BY DEF RefundInv, AtMostOneTransfer
<1> QED
  BY <1>1, RefundInvariance, PTL

\* Money that may have been sent back is on record as an attempt that is not
\* open to be claimed again.
THEOREM TransfersRecorded == Spec => []TransferOnRecord
<1>1. RefundInv => TransferOnRecord
  BY DEF RefundInv, TransferOnRecord
<1> QED
  BY <1>1, RefundInvariance, PTL

\* An order gives its benefit at most once, and only for money or credit.
THEOREM BenefitGrantedOnce == Spec => []GrantedOnce
<1>1. BookInv => GrantedOnce
  BY DEF BookInv, GrantedOnce
<1> QED
  BY <1>1, BookInvariance, PTL

\* Money goes back only for a charge that was paid and booked.
THEOREM OnlyBookedIsRefunded == Spec => []TransferOnlyBooked
<1>1. BookInv => TransferOnlyBooked
  BY DEF BookInv, TransferOnlyBooked
<1> QED
  BY <1>1, BookInvariance, PTL

-----------------------------------------------------------------------------
(* Dashboard: a payload is one revision.                                   *)

USE DashboardAssumption

\* One revision as a whole.
Whole(payload) == /\ payload.rows.revision = payload.revision
                  /\ payload.history.revision = payload.revision
                  /\ payload.revision <= revision

\* What the request of p has read, in the order it was read in.
ReadInOrder(p) ==
    LET got == page[p].got
    IN  /\ page[p].pc \in {"rows", "history", "check"} => lastAsked[p] <= got.revision
        /\ page[p].pc = "rows" => got.revision <= revision
        /\ page[p].pc = "history" => /\ got.revision <= got.rows.revision
                                     /\ got.rows.revision <= revision
        /\ page[p].pc = "check" => /\ got.revision <= got.rows.revision
                                   /\ got.rows.revision <= got.history.revision
                                   /\ got.history.revision <= revision
        /\ page[p].pc = "apply" => Whole(got) /\ lastAsked[p] <= got.revision

DashInv ==
    /\ DashTypeOK
    /\ Whole(cache)
    /\ \A p \in Pages : lastAsked[p] <= revision /\ ReadInOrder(p)

DashActions ==
    \/ CommitRevision \/ ChangeShape \/ RestartServer
    \/ \E p \in Pages : PollMeta(p)
    \/ \E p \in Pages : LockCache(p)
    \/ \E p \in Pages : ReadRevision(p)
    \/ \E p \in Pages : ReadRows(p)
    \/ \E p \in Pages : ReadHistory(p)
    \/ \E p \in Pages : CheckRevision(p)
    \/ \E p \in Pages : ApplyPayload(p)
    \/ \E p \in Pages : PollFails(p)

\* A step is a step of one named action.
LEMMA DashNextSplits == DashNext => DashActions
  BY DEF DashNext, DashActions, PollStep, LoadStep

\* The empty cache is a payload, of revision 0.
LEMMA NoPayloadIsOne == NoPayload \in Payload /\ NoPayload.revision = 0
                        /\ NoPayload.rows.revision = 0 /\ NoPayload.history.revision = 0
  BY DEF NoPayload, Payload, Content, NoContent

Poll == [pc : {"idle", "fetch", "revision", "rows", "history", "check", "apply"},
         attempt : 0..2, got : Payload]

\* How a request goes on.
LEMMA RecordUpdates ==
    ASSUME NEW S, NEW A, NEW R, NEW C,
           NEW x \in [pc : S, attempt : A, got : [revision : R, rows : C, history : C]],
           NEW s \in S, NEW a \in A, NEW r \in R
    PROVE /\ LET y == [x EXCEPT !.pc = s, !.attempt = a]
             IN  /\ y \in [pc : S, attempt : A, got : [revision : R, rows : C, history : C]]
                 /\ y.pc = s /\ y.got = x.got
          /\ LET y == [x EXCEPT !.pc = s, !.got.revision = r]
             IN  /\ y \in [pc : S, attempt : A, got : [revision : R, rows : C, history : C]]
                 /\ y.pc = s /\ y.got.revision = r
  OBVIOUS

\* What one poller does to the pollers.
LEMMA PollUpdates ==
    ASSUME NEW x \in Poll
    PROVE /\ LET y == [x EXCEPT !.pc = "revision", !.attempt = 1]
             IN  y \in Poll /\ y.pc = "revision" /\ y.got = x.got
          /\ LET y == [x EXCEPT !.pc = "revision", !.attempt = 2]
             IN  y \in Poll /\ y.pc = "revision" /\ y.got = x.got
          /\ \A r \in 0..MaxRevision :
                LET y == [x EXCEPT !.pc = "rows", !.got.revision = r]
                IN  y \in Poll /\ y.pc = "rows" /\ y.got.revision = r
<1> DEFINE S == {"idle", "fetch", "revision", "rows", "history", "check", "apply"}
           A == 0..2
           R == 0..MaxRevision
<1>1. /\ Poll = [pc : S, attempt : A, got : [revision : R, rows : Content, history : Content]]
      /\ "revision" \in S /\ "rows" \in S /\ \E r \in R : TRUE
  BY DEF Poll, Payload
<1>2. 1 \in A /\ 2 \in A
  OBVIOUS
<1> SUFFICES /\ LET y == [x EXCEPT !.pc = "revision", !.attempt = 1]
                IN  y \in Poll /\ y.pc = "revision" /\ y.got = x.got
             /\ LET y == [x EXCEPT !.pc = "revision", !.attempt = 2]
                IN  y \in Poll /\ y.pc = "revision" /\ y.got = x.got
             /\ \A r \in R :
                LET y == [x EXCEPT !.pc = "rows", !.got.revision = r]
                IN  y \in Poll /\ y.pc = "rows" /\ y.got.revision = r
  OBVIOUS
<1> HIDE DEF S, A, R
<1>3. ASSUME NEW a \in A
      PROVE LET y == [x EXCEPT !.pc = "revision", !.attempt = a]
            IN  y \in Poll /\ y.pc = "revision" /\ y.got = x.got
  BY <1>1, RecordUpdates
<1>4. ASSUME NEW r \in R
      PROVE LET y == [x EXCEPT !.pc = "rows", !.got.revision = r]
            IN  y \in Poll /\ y.pc = "rows" /\ y.got.revision = r
  BY <1>1, <1>2, RecordUpdates
<1> QED
  BY <1>2, <1>3, <1>4, Zenon

-----------------------------------------------------------------------------
(* Types, and who holds the mutex.                                         *)

LEMMA DashTypeInit == DashInit => DashInv
<1> SUFFICES ASSUME DashInit PROVE DashInv
  OBVIOUS
<1>1. DashTypeOK
  BY NoPayloadIsOne DEF DashInit, DashTypeOK, NoPoll
<1>2. Whole(cache)
  BY NoPayloadIsOne DEF DashInit, Whole
<1>3. \A p \in Pages : lastAsked[p] <= revision
  <2>1. revision = 1 /\ lastAsked = [p \in Pages |-> 0]
    BY DEF DashInit
  <2>2. 0 <= 1
    OBVIOUS
  <2> QED
    BY <2>1, <2>2, Zenon
<1>5. NoPoll.pc = "idle"
  BY DEF NoPoll
<1>4. \A p \in Pages : ReadInOrder(p)
  BY <1>5 DEF DashInit, ReadInOrder
<1> QED
  BY <1>1, <1>2, <1>3, <1>4 DEF DashInv

\* A step of p alone that gives it the poll new keeps the types, if p holds
\* the mutex afterwards just when new is in the critical section.
LEMMA PollMoves ==
    ASSUME DashTypeOK, NEW p \in Pages, NEW new \in Poll,
           page' = [page EXCEPT ![p] = new],
           IF new.pc \in {"revision", "rows", "history", "check"}
             THEN cacheLock' = p /\ cacheLock \in {p, NoPage}
             ELSE cacheLock' = IF cacheLock = p THEN NoPage ELSE cacheLock
    PROVE /\ page' \in [Pages -> Poll] /\ cacheLock' \in Pages \cup {NoPage}
          /\ \A q \in Pages :
                cacheLock' = q <=> page'[q].pc \in {"revision", "rows", "history", "check"}
  BY DEF DashTypeOK, Poll

\* Every step keeps the types.
LEMMA DashTypeStep == DashTypeOK /\ [DashNext]_dashVars => DashTypeOK'
<1> SUFFICES ASSUME DashTypeOK, [DashNext]_dashVars PROVE DashTypeOK'
  OBVIOUS
<1> USE DEF readers
<1>t. /\ revision \in 1..MaxRevision /\ shape \in 0..MaxShape
      /\ cache \in Payload /\ shown \in [Pages -> Payload]
      /\ lastAsked \in [Pages -> 0..MaxRevision] /\ dashFaults \in 0..MaxDashFaults
      /\ page \in [Pages -> Poll] /\ Now \in Content
      /\ \A p \in Pages : page[p] \in Poll
  BY DEF DashTypeOK, Poll, Now, Content
<1>0. CASE UNCHANGED dashVars
  BY <1>0 DEF dashVars, DashTypeOK
<1>1. CASE CommitRevision
  BY <1>1 DEF CommitRevision, DashTypeOK
<1>2. CASE ChangeShape
  BY <1>2 DEF ChangeShape, DashTypeOK
<1>3. CASE RestartServer
  BY <1>3, NoPayloadIsOne DEF RestartServer, DashTypeOK, DashFault, NoPoll
<1>4. ASSUME NEW p \in Pages, PollMeta(p) PROVE DashTypeOK'
  <2> DEFINE new == [page[p] EXCEPT !.pc = "fetch"]
  <2>1. new \in Poll /\ new.pc = "fetch" /\ page' = [page EXCEPT ![p] = new]
    BY <1>4, <1>t DEF PollMeta, To, Poll
  <2>2. cacheLock # p /\ cacheLock' = cacheLock
    BY <1>4 DEF PollMeta, DashTypeOK
  <2> HIDE DEF new
  <2>3. /\ page' \in [Pages -> Poll] /\ cacheLock' \in Pages \cup {NoPage}
        /\ \A q \in Pages :
              cacheLock' = q <=> page'[q].pc \in {"revision", "rows", "history", "check"}
    BY <2>1, <2>2, PollMoves
  <2> QED
    BY <1>4, <1>t, <2>3 DEF PollMeta, DashTypeOK, Poll
<1>5. ASSUME NEW p \in Pages, LockCache(p) PROVE DashTypeOK'
  <2> DEFINE new == [page[p] EXCEPT !.pc = "revision", !.attempt = 1]
  <2>0. new \in Poll /\ new.pc = "revision"
    BY <1>t, PollUpdates
  <2>1. new \in Poll /\ new.pc = "revision" /\ page' = [page EXCEPT ![p] = new]
    BY <1>5, <1>t, <2>0 DEF LockCache
  <2>2. cacheLock = NoPage /\ cacheLock' = p
    BY <1>5 DEF LockCache
  <2> HIDE DEF new
  <2>3. /\ page' \in [Pages -> Poll] /\ cacheLock' \in Pages \cup {NoPage}
        /\ \A q \in Pages :
              cacheLock' = q <=> page'[q].pc \in {"revision", "rows", "history", "check"}
    BY <2>1, <2>2, PollMoves
  <2> QED
    BY <1>5, <1>t, <2>3 DEF LockCache, DashTypeOK, Poll
<1>a. ASSUME NEW p \in Pages, NEW payload \in Payload, AnswerWith(p, payload), cacheLock = p
      PROVE /\ page' \in [Pages -> Poll] /\ cacheLock' \in Pages \cup {NoPage}
            /\ \A q \in Pages :
                  cacheLock' = q <=> page'[q].pc \in {"revision", "rows", "history", "check"}
  <2> DEFINE new == [pc |-> "apply", attempt |-> 0, got |-> payload]
  <2>1. new \in Poll /\ new.pc = "apply"
    BY DEF Poll
  <2> HIDE DEF new
  <2> QED
    BY <1>a, <2>1, PollMoves DEF AnswerWith, new
<1>b. ASSUME NEW p \in Pages, NEW new \in Poll, page' = [page EXCEPT ![p] = new],
             new.pc \in {"revision", "rows", "history", "check"}, cacheLock = p, cacheLock' = p
      PROVE /\ page' \in [Pages -> Poll] /\ cacheLock' \in Pages \cup {NoPage}
            /\ \A q \in Pages :
                  cacheLock' = q <=> page'[q].pc \in {"revision", "rows", "history", "check"}
  BY <1>b, PollMoves
<1>6. ASSUME NEW p \in Pages, ReadRevision(p) PROVE DashTypeOK'
  <2>1. cacheLock = p
    BY <1>6 DEF ReadRevision, DashTypeOK
  <2> DEFINE new == [page[p] EXCEPT !.pc = "rows", !.got.revision = revision]
  <2>2. new \in Poll /\ new.pc = "rows"
    <3>1. revision \in 0..MaxRevision
      BY <1>t
    <3> QED
      BY <1>t, <3>1, PollUpdates, ZenonT(30)
  <2>3. \/ AnswerWith(p, cache)
        \/ page' = [page EXCEPT ![p] = new] /\ cacheLock' = p
    BY <1>6, <2>1, <1>t DEF ReadRevision
  <2> HIDE DEF new
  <2>4. /\ page' \in [Pages -> Poll] /\ cacheLock' \in Pages \cup {NoPage}
        /\ \A q \in Pages :
              cacheLock' = q <=> page'[q].pc \in {"revision", "rows", "history", "check"}
    BY <2>1, <2>2, <2>3, <1>a, <1>b, <1>t
  <2> QED
    BY <1>6, <1>t, <2>4 DEF ReadRevision, DashTypeOK, Poll
<1>7. ASSUME NEW p \in Pages, ReadRows(p) PROVE DashTypeOK'
  <2> DEFINE new == [page[p] EXCEPT !.pc = "history", !.got.rows = Now]
  <2>1. new \in Poll /\ new.pc = "history" /\ page' = [page EXCEPT ![p] = new]
    BY <1>7, <1>t DEF ReadRows, Poll, Payload
  <2>2. cacheLock = p /\ cacheLock' = p
    BY <1>7 DEF ReadRows, DashTypeOK
  <2> HIDE DEF new
  <2>3. /\ page' \in [Pages -> Poll] /\ cacheLock' \in Pages \cup {NoPage}
        /\ \A q \in Pages :
              cacheLock' = q <=> page'[q].pc \in {"revision", "rows", "history", "check"}
    BY <2>1, <2>2, <1>b
  <2> QED
    BY <1>7, <1>t, <2>3 DEF ReadRows, DashTypeOK, Poll
<1>8. ASSUME NEW p \in Pages, ReadHistory(p) PROVE DashTypeOK'
  <2> DEFINE new == [page[p] EXCEPT !.pc = "check", !.got.history = Now]
  <2>1. new \in Poll /\ new.pc = "check" /\ page' = [page EXCEPT ![p] = new]
    BY <1>8, <1>t DEF ReadHistory, Poll, Payload
  <2>2. cacheLock = p /\ cacheLock' = p
    BY <1>8 DEF ReadHistory, DashTypeOK
  <2> HIDE DEF new
  <2>3. /\ page' \in [Pages -> Poll] /\ cacheLock' \in Pages \cup {NoPage}
        /\ \A q \in Pages :
              cacheLock' = q <=> page'[q].pc \in {"revision", "rows", "history", "check"}
    BY <2>1, <2>2, <1>b
  <2> QED
    BY <1>8, <1>t, <2>3 DEF ReadHistory, DashTypeOK, Poll
<1>c. ASSUME NEW p \in Pages, page' = [page EXCEPT ![p] = NoPoll],
             cacheLock' = IF cacheLock = p THEN NoPage ELSE cacheLock
      PROVE /\ page' \in [Pages -> Poll] /\ cacheLock' \in Pages \cup {NoPage}
            /\ \A q \in Pages :
                  cacheLock' = q <=> page'[q].pc \in {"revision", "rows", "history", "check"}
  <2>1. NoPoll \in Poll /\ NoPoll.pc = "idle"
    BY NoPayloadIsOne DEF NoPoll, Poll
  <2> QED
    BY <1>c, <2>1, PollMoves
<1>9. ASSUME NEW p \in Pages, CheckRevision(p) PROVE DashTypeOK'
  <2>1. cacheLock = p
    BY <1>9 DEF CheckRevision, DashTypeOK
  <2> DEFINE new == [page[p] EXCEPT !.pc = "revision", !.attempt = 2]
  <2>2. new \in Poll /\ new.pc = "revision" /\ page[p].got \in Payload
    <3>1. new \in Poll /\ new.pc = "revision"
      BY <1>t, PollUpdates
    <3> QED
      BY <1>t, <3>1 DEF Poll
  <2>3. \/ AnswerWith(p, page[p].got)
        \/ page' = [page EXCEPT ![p] = new] /\ cacheLock' = p
        \/ page' = [page EXCEPT ![p] = NoPoll] /\ cacheLock' = NoPage
    BY <1>9, <2>1, <1>t DEF CheckRevision
  <2> HIDE DEF new
  <2>4. /\ page' \in [Pages -> Poll] /\ cacheLock' \in Pages \cup {NoPage}
        /\ \A q \in Pages :
              cacheLock' = q <=> page'[q].pc \in {"revision", "rows", "history", "check"}
    BY <2>1, <2>2, <2>3, <1>a, <1>b, <1>c
  <2>5. cache' \in Payload
    BY <1>9, <1>t, <2>2 DEF CheckRevision
  <2> QED
    BY <1>9, <1>t, <2>4, <2>5 DEF CheckRevision, DashTypeOK, Poll
<1>10. ASSUME NEW p \in Pages, ApplyPayload(p) PROVE DashTypeOK'
  <2>1. cacheLock # p /\ cacheLock' = cacheLock
    BY <1>10 DEF ApplyPayload, DashTypeOK
  <2>2. /\ page' \in [Pages -> Poll] /\ cacheLock' \in Pages \cup {NoPage}
        /\ \A q \in Pages :
              cacheLock' = q <=> page'[q].pc \in {"revision", "rows", "history", "check"}
    BY <1>10, <2>1, <1>c DEF ApplyPayload
  <2>3. shown' \in [Pages -> Payload]
    BY <1>10, <1>t DEF ApplyPayload, Poll
  <2> QED
    BY <1>10, <1>t, <2>2, <2>3 DEF ApplyPayload, DashTypeOK, Poll
<1>11. ASSUME NEW p \in Pages, PollFails(p) PROVE DashTypeOK'
  <2>1. /\ page' \in [Pages -> Poll] /\ cacheLock' \in Pages \cup {NoPage}
        /\ \A q \in Pages :
              cacheLock' = q <=> page'[q].pc \in {"revision", "rows", "history", "check"}
    BY <1>11, <1>c DEF PollFails
  <2> QED
    BY <1>11, <1>t, <2>1 DEF PollFails, DashFault, DashTypeOK, Poll
<1> QED
  BY <1>0, <1>1, <1>2, <1>3, <1>4, <1>5, <1>6, <1>7, <1>8, <1>9, <1>10, <1>11, DashNextSplits
     DEF DashActions

-----------------------------------------------------------------------------
(* The order of the reads.                                                 *)

\* Whatever the other pages have read stays in order while the revision grows.
LEMMA OrderKept ==
    ASSUME DashInv, NEW q \in Pages, revision' \in Nat, revision <= revision',
           page'[q] = page[q], lastAsked'[q] = lastAsked[q]
    PROVE lastAsked'[q] <= revision' /\ ReadInOrder(q)'
<1>1. /\ revision \in Nat /\ lastAsked[q] \in Nat
      /\ page[q].got.revision \in Nat
      /\ page[q].got.rows.revision \in Nat /\ page[q].got.history.revision \in Nat
  BY DEF DashInv, DashTypeOK, Payload, Content
<1>2. lastAsked[q] <= revision /\ ReadInOrder(q)
  BY DEF DashInv
<1> QED
  BY <1>1, <1>2 DEF ReadInOrder, Whole

\* A payload that is whole stays so while the published revisions only grow.
LEMMA WholeKept ==
    ASSUME NEW payload \in Payload, Whole(payload),
           revision \in Nat, revision' \in Nat, revision <= revision'
    PROVE Whole(payload)'
  BY DEF Whole, Payload

\* Every step keeps the order of revisions.
LEMMA DashStep == DashInv /\ [DashNext]_dashVars => DashInv'
<1> SUFFICES ASSUME DashInv, [DashNext]_dashVars PROVE DashInv'
  OBVIOUS
<1> USE DEF readers
<1>t. DashTypeOK /\ DashTypeOK'
  BY DashTypeStep DEF DashInv
<1>r. /\ revision \in Nat /\ revision' \in Nat
      /\ cache \in Payload /\ cache' \in Payload
      /\ page \in [Pages -> Poll] /\ page' \in [Pages -> Poll]
      /\ lastAsked \in [Pages -> 0..MaxRevision]
  BY <1>t DEF DashTypeOK, Poll
<1>n. \A p \in Pages : /\ lastAsked[p] \in Nat /\ page[p].got \in Payload
                       /\ page[p].got.revision \in Nat
                       /\ page[p].got.rows.revision \in Nat
                       /\ page[p].got.history.revision \in Nat
  BY <1>r DEF Poll, Payload, Content
<1> DEFINE Ordered(q) == lastAsked'[q] <= revision' /\ ReadInOrder(q)'
\* A step that keeps the cache and the polls.
<1>s. ASSUME revision <= revision', UNCHANGED <<cache, page, lastAsked>> PROVE DashInv'
  <2>1. Whole(cache)'
    BY <1>s, <1>r, WholeKept DEF DashInv
  <2>2. \A q \in Pages : Ordered(q)
    BY <1>s, <1>r, OrderKept
  <2> QED
    BY <1>t, <2>1, <2>2 DEF DashInv
\* A step of p alone that keeps the revision and leaves the cache whole.
<1>p. ASSUME NEW p \in Pages, revision' = revision, Whole(cache)', Ordered(p),
             \A q \in Pages : q # p => page'[q] = page[q] /\ lastAsked'[q] = lastAsked[q]
      PROVE DashInv'
  <2>1. \A q \in Pages : q # p => Ordered(q)
    BY <1>p, <1>r, OrderKept
  <2> QED
    BY <1>p, <1>t, <2>1 DEF DashInv
<1>w. UNCHANGED <<revision, cache>> => Whole(cache)'
  BY DEF DashInv, Whole
<1>0. CASE UNCHANGED dashVars
  BY <1>0, <1>r, <1>s DEF dashVars
<1>1. CASE CommitRevision
  BY <1>1, <1>r, <1>s DEF CommitRevision
<1>2. CASE ChangeShape
  BY <1>2, <1>r, <1>s DEF ChangeShape
<1>3. CASE RestartServer
  <2>1. Whole(cache)'
    BY <1>3, <1>r, NoPayloadIsOne DEF RestartServer, Whole
  <2>2. NoPoll.pc = "idle"
    BY DEF NoPoll
  <2>3. \A q \in Pages : Ordered(q)
    BY <1>3, <2>2 DEF RestartServer, ReadInOrder, DashInv
  <2> QED
    BY <1>t, <2>1, <2>3 DEF DashInv
<1>4. ASSUME NEW p \in Pages, PollMeta(p) PROVE DashInv'
  <2>1. page'[p].pc = "fetch" /\ lastAsked'[p] = revision /\ UNCHANGED <<revision, cache>>
    BY <1>4, <1>r DEF PollMeta, To, Poll
  <2>2. Ordered(p)
    BY <2>1, <1>r DEF ReadInOrder
  <2>3. \A q \in Pages : q # p => page'[q] = page[q] /\ lastAsked'[q] = lastAsked[q]
    BY <1>4, <1>r DEF PollMeta, To
  <2> QED
    BY <1>p, <1>w, <2>1, <2>2, <2>3
<1>5. ASSUME NEW p \in Pages, LockCache(p) PROVE DashInv'
  <2> DEFINE new == [page[p] EXCEPT !.pc = "revision", !.attempt = 1]
  <2>4. page' = [page EXCEPT ![p] = new] /\ UNCHANGED <<revision, cache, lastAsked>>
    BY <1>5, <1>r DEF LockCache
  <2>5. new.pc = "revision"
    BY <1>r, PollUpdates
  <2> HIDE DEF new
  <2>1. page'[p].pc = "revision" /\ UNCHANGED <<revision, cache, lastAsked>>
    BY <1>r, <2>4, <2>5
  <2>2. Ordered(p)
    BY <2>1 DEF ReadInOrder, DashInv
  <2>3. \A q \in Pages : q # p => page'[q] = page[q]
    BY <1>5, <1>r DEF LockCache
  <2> QED
    BY <1>p, <1>w, <2>1, <2>2, <2>3
\* A request is answered with a whole payload that is no older than its page.
<1>a. ASSUME NEW p \in Pages, NEW payload \in Payload, AnswerWith(p, payload),
             UNCHANGED <<revision, lastAsked>>, Whole(cache)',
             Whole(payload), lastAsked[p] <= payload.revision
      PROVE DashInv'
  <2>1. page'[p].pc = "apply" /\ page'[p].got = payload
    BY <1>a, <1>r DEF AnswerWith
  <2>2. Ordered(p)
    BY <1>a, <2>1 DEF ReadInOrder, Whole, DashInv
  <2>3. \A q \in Pages : q # p => page'[q] = page[q]
    BY <1>a, <1>r DEF AnswerWith
  <2> QED
    BY <1>a, <1>p, <2>2, <2>3
<1>6. ASSUME NEW p \in Pages, ReadRevision(p) PROVE DashInv'
  <2>1. UNCHANGED <<revision, cache, lastAsked>> /\ lastAsked[p] <= revision
    BY <1>6 DEF ReadRevision, AnswerWith, DashInv
  <2>2. CASE AnswerWith(p, cache) /\ cache.revision = revision
    BY <1>a, <1>w, <1>r, <2>1, <2>2 DEF DashInv
  <2>3. CASE page' = [page EXCEPT ![p].pc = "rows", ![p].got.revision = revision]
    <3>1. revision \in 0..MaxRevision
      BY <1>t DEF DashTypeOK
    <3> DEFINE new == [page[p] EXCEPT !.pc = "rows", !.got.revision = revision]
    <3>5. page' = [page EXCEPT ![p] = new]
      BY <1>r, <2>3, ZenonT(30)
    <3>6. new.pc = "rows" /\ new.got.revision = revision
      <4>1. page[p] \in Poll
        BY <1>r
      <4> QED
        BY <3>1, <4>1, PollUpdates, ZenonT(30)
    <3> HIDE DEF new
    <3>2. page'[p].pc = "rows" /\ page'[p].got.revision = revision
      BY <1>r, <3>5, <3>6
    <3>3. Ordered(p)
      BY <1>r, <2>1, <3>2 DEF ReadInOrder
    <3>4. \A q \in Pages : q # p => page'[q] = page[q]
      BY <1>r, <2>3
    <3> QED
      BY <1>p, <1>w, <2>1, <3>3, <3>4
  <2> QED
    BY <1>6, <2>2, <2>3 DEF ReadRevision
<1>7. ASSUME NEW p \in Pages, ReadRows(p) PROVE DashInv'
  <2>1. /\ page[p].pc = "rows" /\ page' = [page EXCEPT ![p].pc = "history", ![p].got.rows = Now]
        /\ UNCHANGED <<revision, cache, lastAsked>>
    BY <1>7 DEF ReadRows
  <2>2. /\ page'[p].pc = "history" /\ page'[p].got.revision = page[p].got.revision
        /\ page'[p].got.rows.revision = revision
    BY <2>1, <1>r DEF Poll, Payload, Now
  <2>3. lastAsked[p] <= page[p].got.revision /\ page[p].got.revision <= revision
    BY <2>1 DEF DashInv, ReadInOrder
  <2>4. lastAsked[p] <= revision /\ \A q \in Pages : q # p => page'[q] = page[q]
    BY <2>1, <1>r DEF DashInv
  <2>5. Ordered(p)
    BY <1>r, <2>1, <2>2, <2>3, <2>4 DEF ReadInOrder
  <2> QED
    BY <1>p, <1>w, <2>1, <2>4, <2>5
<1>8. ASSUME NEW p \in Pages, ReadHistory(p) PROVE DashInv'
  <2>1. /\ page[p].pc = "history"
        /\ page' = [page EXCEPT ![p].pc = "check", ![p].got.history = Now]
        /\ UNCHANGED <<revision, cache, lastAsked>>
    BY <1>8 DEF ReadHistory
  <2>2. /\ page'[p].pc = "check" /\ page'[p].got.revision = page[p].got.revision
        /\ page'[p].got.rows = page[p].got.rows
        /\ page'[p].got.history.revision = revision
    BY <2>1, <1>r DEF Poll, Payload, Now
  <2>3. /\ lastAsked[p] <= page[p].got.revision
        /\ page[p].got.revision <= page[p].got.rows.revision
        /\ page[p].got.rows.revision <= revision
    BY <2>1 DEF DashInv, ReadInOrder
  <2>4. lastAsked[p] <= revision /\ \A q \in Pages : q # p => page'[q] = page[q]
    BY <2>1, <1>r DEF DashInv
  <2>5. Ordered(p)
    BY <1>r, <2>1, <2>2, <2>3, <2>4 DEF ReadInOrder
  <2> QED
    BY <1>p, <1>w, <2>1, <2>4, <2>5
<1>9. ASSUME NEW p \in Pages, CheckRevision(p) PROVE DashInv'
  <2>1. page[p].pc = "check" /\ UNCHANGED <<revision, lastAsked>> /\ lastAsked[p] <= revision
    BY <1>9 DEF CheckRevision, DashInv
  <2>2. /\ lastAsked[p] <= page[p].got.revision
        /\ page[p].got.revision <= page[p].got.rows.revision
        /\ page[p].got.rows.revision <= page[p].got.history.revision
        /\ page[p].got.history.revision <= revision
    BY <2>1 DEF DashInv, ReadInOrder
  <2>3. CASE page[p].got.revision = revision /\ cache' = page[p].got /\ AnswerWith(p, page[p].got)
    <3>1. Whole(page[p].got)
      <4>1. /\ page[p].got.rows.revision = revision
            /\ page[p].got.history.revision = revision
        <5>1. /\ page[p].got.revision \in Nat
              /\ page[p].got.rows.revision \in Nat
              /\ page[p].got.history.revision \in Nat
          BY <1>n
        <5>2. \A a, b, c \in Nat : a <= b /\ b <= c /\ c <= a => b = a /\ c = a
          OBVIOUS
        <5> QED
          BY <2>2, <2>3, <5>1, <5>2
      <4> QED
        BY <1>r, <2>3, <4>1 DEF Whole
    <3>2. Whole(cache)'
      BY <2>1, <2>3, <3>1 DEF Whole
    <3> QED
      BY <1>a, <1>n, <2>1, <2>2, <2>3, <3>1, <3>2
  <2>4. CASE cache' = cache /\ page' = [page EXCEPT ![p].pc = "revision", ![p].attempt = 2]
    <3> DEFINE new == [page[p] EXCEPT !.pc = "revision", !.attempt = 2]
    <3>3. page' = [page EXCEPT ![p] = new]
      BY <1>r, <2>4
    <3>4. new.pc = "revision"
      BY <1>r, PollUpdates
    <3> HIDE DEF new
    <3>1. page'[p].pc = "revision" /\ \A q \in Pages : q # p => page'[q] = page[q]
      BY <1>r, <3>3, <3>4
    <3>2. Ordered(p)
      BY <2>1, <3>1 DEF ReadInOrder
    <3> QED
      BY <1>p, <1>w, <2>1, <2>4, <3>1, <3>2
  <2>5. CASE cache' = cache /\ page' = [page EXCEPT ![p] = NoPoll]
    <3>1. page'[p].pc = "idle" /\ \A q \in Pages : q # p => page'[q] = page[q]
      BY <1>r, <2>5 DEF NoPoll
    <3>2. Ordered(p)
      BY <2>1, <3>1 DEF ReadInOrder
    <3> QED
      BY <1>p, <1>w, <2>1, <2>5, <3>1, <3>2
  <2> QED
    BY <1>9, <2>3, <2>4, <2>5 DEF CheckRevision
<1>i. ASSUME NEW p \in Pages, page' = [page EXCEPT ![p] = NoPoll],
             UNCHANGED <<revision, cache, lastAsked>>
      PROVE DashInv'
  <2>1. page'[p].pc = "idle" /\ \A q \in Pages : q # p => page'[q] = page[q]
    BY <1>i, <1>r DEF NoPoll
  <2>2. Ordered(p)
    BY <1>i, <2>1 DEF ReadInOrder, DashInv
  <2> QED
    BY <1>i, <1>p, <1>w, <2>1, <2>2
<1>10. ASSUME NEW p \in Pages, ApplyPayload(p) PROVE DashInv'
  BY <1>10, <1>i DEF ApplyPayload
<1>11. ASSUME NEW p \in Pages, PollFails(p) PROVE DashInv'
  BY <1>11, <1>i DEF PollFails
<1> QED
  BY <1>0, <1>1, <1>2, <1>3, <1>4, <1>5, <1>6, <1>7, <1>8, <1>9, <1>10, <1>11, DashNextSplits
     DEF DashActions

-----------------------------------------------------------------------------
(* The theorems.                                                           *)

\* The values and the mutex are what DashTypeOK says, and every payload, cached
\* or on its way, is one revision as a whole and no older than its request.
THEOREM DashInvariant == DashSpec => []DashInv
  BY DashTypeInit, DashStep, PTL DEF DashSpec

\* A commit is an Advance, a poll an Ask, the arrival of a payload an Answer
\* of Published; nothing else shows.
LEMMA PublishedStep ==
    DashInv /\ [DashNext]_dashVars
        => [Publication!Next]_<<revision, lastAsked,
                                [p \in Pages |-> shown[p].rows.revision],
                                [p \in Pages |-> shown[p].history.revision]>>
<1> SUFFICES ASSUME DashInv, [DashNext]_dashVars
             PROVE \/ Publication!Next
                   \/ UNCHANGED <<revision, lastAsked, shown>>
  OBVIOUS
<1> USE DEF readers
<1>t. /\ revision \in Nat /\ shown \in [Pages -> Payload] /\ page \in [Pages -> Poll]
      /\ lastAsked \in [Pages -> 0..MaxRevision]
  BY DEF DashInv, DashTypeOK, Poll
<1>1. CASE CommitRevision
  BY <1>1 DEF CommitRevision, Publication!Next, Publication!Advance
<1>4. ASSUME NEW p \in Pages, PollMeta(p) PROVE Publication!Next
  BY <1>4 DEF PollMeta, Publication!Next, Publication!Ask
<1>10. ASSUME NEW p \in Pages, ApplyPayload(p) PROVE Publication!Next
  <2>1. Whole(page[p].got) /\ lastAsked[p] <= page[p].got.revision
    BY <1>10 DEF ApplyPayload, DashInv, ReadInOrder
  <2>2. page[p].got.revision \in lastAsked[p]..revision
    BY <1>t, <2>1 DEF Whole, Poll, Payload
  <2> DEFINE r == page[p].got.revision
             rows == [q \in Pages |-> shown[q].rows.revision]
             history == [q \in Pages |-> shown[q].history.revision]
  <2>3. \A q \in Pages : shown'[q] = IF q = p THEN page[p].got ELSE shown[q]
    BY <1>10, <1>t DEF ApplyPayload
  <2>4. rows' = [rows EXCEPT ![p] = r] /\ history' = [history EXCEPT ![p] = r]
    BY <2>1, <2>3 DEF Whole
  <2>5. UNCHANGED <<revision, lastAsked>>
    BY <1>10 DEF ApplyPayload
  <2>6. Publication!Answer(p)
    BY <2>2, <2>4, <2>5 DEF Publication!Answer
  <2> QED
    BY <2>6 DEF Publication!Next
<1> QED
  BY <1>1, <1>4, <1>10, DashNextSplits
     DEF DashActions, dashVars, ChangeShape, RestartServer, LockCache, ReadRevision,
         ReadRows, ReadHistory, CheckRevision, PollFails

\* A page that asks is answered with what was committed when it asked or later,
\* its rows and its history together: the dashboard implements Published.
THEOREM DashboardPublishes == DashSpec => AnswersAreFresh
<1>1. DashInit => Publication!Init
  <2> SUFFICES ASSUME DashInit PROVE Publication!Init
    OBVIOUS
  <2>1. /\ [p \in Pages |-> shown[p].rows.revision] = [p \in Pages |-> 0]
        /\ [p \in Pages |-> shown[p].history.revision] = [p \in Pages |-> 0]
    BY NoPayloadIsOne DEF DashInit
  <2>2. revision \in Nat /\ lastAsked = [p \in Pages |-> 0]
    BY DEF DashInit
  <2> QED
    BY <2>1, <2>2 DEF Publication!Init
<1> QED
  BY <1>1, DashInvariant, PublishedStep, PTL DEF DashSpec, AnswersAreFresh, Publication!Spec
=============================================================================
