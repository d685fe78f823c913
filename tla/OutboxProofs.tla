---------------------------- MODULE OutboxProofs ----------------------------
(***************************************************************************)
(* Proofs about Outbox, for any users, channels, versions, goroutines and  *)
(* any number of faults.                                                   *)
(*                                                                         *)
(* The dispatcher works from copies.  DispatchInv says what makes that     *)
(* right: a row has one copy at most, in the batch or in hand, and until   *)
(* its result is recorded nobody else counts a retry or settles the row.   *)
(* CountInv, LateInv and NewsInv are the three properties with the         *)
(* intermediate states that make them inductive.                           *)
(***************************************************************************)
EXTENDS Outbox, TLAPS

USE OutboxAssumption, OutboxFaultsAssumption, NoEntryAssumption

\* A row that waits for the dispatcher, or was cancelled while it did.
Waiting == Queued \cup {"cancelled"}
Copied(e) == status[RowOf(e)] \in Waiting /\ e.retries = retries[RowOf(e)]

DispatchInv ==
    /\ \A e, f \in batch : RowOf(e) = RowOf(f) => e = f
    /\ \A e \in batch : Copied(e)
    /\ entry # NoEntry => Copied(entry) /\ \A e \in batch : RowOf(e) # RowOf(entry)
    /\ stage = "retry" => entry.retries < MaxRetries

\* The copy of row r has been sent, and how is not recorded yet; the platform
\* said that it took it.
Unrecorded(r) == stage \in {"sent", "retry", "failed"} /\ RowOf(entry) = r
Taken(r) == stage = "sent" /\ RowOf(entry) = r

CountInv ==
    \A r \in Rows :
        /\ attempts[r] <= retries[r] + faults
              + (IF status[r] \in {"sent", "failed"} \/ Unrecorded(r) THEN 1 ELSE 0)
        /\ accepted[r] <= unheard[r] + faults
              + (IF status[r] = "sent" \/ Taken(r) THEN 1 ELSE 0)

\* The id of a subscription that was sent to after its deletion is not given
\* out again, and nothing more of it is being sent.
LateInv ==
    \A s \in Subs :
        /\ late[s] <= 1
        /\ late[s] = 1 => /\ ~Live(s)
                          /\ \E v \in Versions : status[<<s, v>>] # "none"
                          /\ ~(stage = "send" /\ entry.sub = s)

\* The news for r is queued, or a goroutine has it yet to look at or to insert.
OnItsWay(r) ==
    \/ status[r] # "none"
    \/ \E q \in Queuers : r[2] \in todo[q]
    \/ \E q \in Queuers : \E f \in found[q] : RowOf(f) = r

NewsInv ==
    faults = 0 =>
        \A r \in owed : Live(r[1]) /\ target[r[1]] \in Served /\ OnItsWay(r)

OutboxInv == TypeOK /\ DispatchInv /\ PendingIsLive /\ CountInv /\ LateInv /\ NewsInv

\* Every action, for the proofs that split Next into its disjuncts.
Actions ==
    \/ \E u \in Users, t \in Targets : CreateSubscription(u, t)
    \/ \E u \in Users, t \in Targets : UpdateChannel(u, t)
    \/ \E u \in Users, t \in Targets : Repoint(u, t)
    \/ \E s \in Subs : DeleteSubscription(s)
    \/ \E versions \in SUBSET Versions : Announce(versions)
    \/ \E q \in Queuers : ListSubscriptions(q)
    \/ \E q \in Queuers : EnqueueNotification(q)
    \/ \E r \in Rows : Due(r)
    \/ ListPending \/ Check \/ Send \/ Record \/ Crash

\* A step is a step of one named action.
LEMMA NextSplits == Next => Actions
  BY DEF Next, Actions, Queue, Dispatch

-----------------------------------------------------------------------------
(* The rows and the memory of the process keep their types; the retry      *)
(* count does because an entry is only retried below the limit.            *)

LEMMA TypeInit == Init => TypeOK /\ DispatchInv
<1> SUFFICES ASSUME Init PROVE TypeOK /\ DispatchInv
  OBVIOUS
<1>1. AnyTarget \in Targets
  BY DEF AnyTarget
<1> QED
  BY <1>1 DEF Init, TypeOK, DispatchInv, Rows, Queued

\* The row of an entry is one of the rows.
LEMMA RowOfEntry == \A e \in Entry : RowOf(e) \in Rows
  BY DEF Entry, RowOf, Rows

\* The row of what a dispatcher read is one of the rows.
LEMMA RowOfFound == \A f \in Found : <<f.sub, f.ver>> \in Rows /\ f.target \in Targets
  BY DEF Found, Rows

\* There is an entry in hand at every stage but the first.
LEMMA InHand == ASSUME TypeOK, stage # "idle" PROVE entry \in Entry /\ RowOf(entry) \in Rows
  BY RowOfEntry DEF TypeOK

\* Every step keeps the types.
LEMMA TypeStep == TypeOK /\ DispatchInv /\ [Next]_vars => TypeOK'
<1> SUFFICES ASSUME TypeOK, DispatchInv, [Next]_vars PROVE TypeOK'
  OBVIOUS
<1> USE DEF TypeOK, subs, outbox, queuer, dispatcher, counts, history,
           CallFails
<1>0. CASE UNCHANGED vars
  BY <1>0 DEF vars
<1>1. ASSUME NEW u \in Users, NEW t \in Targets, CreateSubscription(u, t) PROVE TypeOK'
  BY <1>1 DEF CreateSubscription
<1>2. ASSUME NEW u \in Users, NEW t \in Targets, UpdateChannel(u, t) PROVE TypeOK'
  BY <1>2 DEF UpdateChannel
<1>3. ASSUME NEW u \in Users, NEW t \in Targets, Repoint(u, t) PROVE TypeOK'
  BY <1>3 DEF Repoint
<1>4. ASSUME NEW s \in Subs, DeleteSubscription(s) PROVE TypeOK'
  BY <1>4 DEF DeleteSubscription
<1>5. ASSUME NEW versions \in SUBSET Versions, Announce(versions) PROVE TypeOK'
  BY <1>5 DEF Announce, Rows
<1>6. ASSUME NEW q \in Queuers, ListSubscriptions(q) PROVE TypeOK'
  BY <1>6 DEF ListSubscriptions, Found
<1>7. ASSUME NEW q \in Queuers, EnqueueNotification(q) PROVE TypeOK'
  <2>1. PICK f \in found[q] :
          /\ found' = [found EXCEPT ![q] = @ \ {f}]
          /\ \/ /\ status' = [status EXCEPT ![<<f.sub, f.ver>>] = "pending"]
                /\ rowTarget' = [rowTarget EXCEPT ![<<f.sub, f.ver>>] = f.target]
                /\ UNCHANGED faults
             \/ UNCHANGED <<status, rowTarget, faults>>
             \/ CallFails /\ UNCHANGED <<status, rowTarget>>
    BY <1>7 DEF EnqueueNotification
  <2>2. <<f.sub, f.ver>> \in Rows /\ f.target \in Targets
    BY RowOfFound
  <2>3. /\ status' \in [Rows -> Queued \cup {"none", "sent", "failed", "cancelled"}]
        /\ rowTarget' \in [Rows -> Targets] /\ faults' \in 0..MaxFaults
    <3>1. status' \in [Rows -> Queued \cup {"none", "sent", "failed", "cancelled"}]
      BY <2>1 DEF Queued
    <3>2. rowTarget' \in [Rows -> Targets]
      BY <2>1, <2>2
    <3>3. faults' \in 0..MaxFaults
      BY <2>1
    <3> QED
      BY <3>1, <3>2, <3>3
  <2>4. found' \in [Queuers -> SUBSET Found]
    BY <2>1
  <2>5. UNCHANGED <<owner, target, ledger, retries, todo, batch, entry, stage, repointing,
                    attempts, accepted, unheard, late, owed>>
    BY <1>7 DEF EnqueueNotification
  <2> QED
    BY <2>3, <2>4, <2>5
<1>8. ASSUME NEW r \in Rows, Due(r) PROVE TypeOK'
  BY <1>8 DEF Due, Queued
<1>9. CASE ListPending
  BY <1>9 DEF ListPending, Entry, Rows, Queued
<1>10. CASE Check
  BY <1>10 DEF Check, Entry
<1>11. CASE Send
  <2>1. entry \in Entry /\ RowOf(entry) \in Rows
    BY <1>11, InHand DEF Send
  <2>2. attempts' \in [Rows -> Nat]
    BY <1>11, <2>1 DEF Send
  <2>4. accepted' \in [Rows -> Nat]
    <3>1. CASE accepted' = accepted
      BY <3>1
    <3>2. CASE accepted' = [accepted EXCEPT ![RowOf(entry)] = @ + 1]
      BY <3>2, <2>1
    <3> QED
      BY <1>11, <3>1, <3>2 DEF Send
  <2>6. unheard' \in [Rows -> Nat]
    <3>1. CASE unheard' = unheard
      BY <3>1
    <3>2. CASE unheard' = [unheard EXCEPT ![RowOf(entry)] = @ + 1]
      BY <3>2, <2>1
    <3> QED
      BY <1>11, <3>1, <3>2 DEF Send
  <2>5. late' \in [Subs -> Nat]
    <3>1. entry.sub \in Subs
      BY <2>1 DEF Entry
    <3> QED
      BY <1>11, <3>1 DEF Send
  <2>3. stage' \in {"sent", "failed", "retry"}
    BY <1>11 DEF Send
  <2> QED
    BY <1>11, <2>1, <2>2, <2>3, <2>4, <2>5, <2>6 DEF Send
<1>12. CASE Record
  <2>1. entry \in Entry /\ RowOf(entry) \in Rows
    BY <1>12, InHand DEF Record
  <2>2. stage = "retry" => entry.retries + 1 \in 0..MaxRetries
    BY <2>1 DEF DispatchInv, Entry
  <2> QED
    BY <1>12, <2>1, <2>2 DEF Record, Queued
<1>13. CASE Crash
  BY <1>13 DEF Crash
<1> QED
  BY <1>0, <1>1, <1>2, <1>3, <1>4, <1>5, <1>6, <1>7, <1>8, <1>9, <1>10, <1>11, <1>12, <1>13, NextSplits DEF Actions

-----------------------------------------------------------------------------
(* The dispatcher's copies: only the dispatcher changes a row it has a     *)
(* copy of, but for a cancellation and for a retry that becomes due.       *)

LEMMA DispatchSame ==
    ASSUME DispatchInv, UNCHANGED <<status, retries, batch, entry, stage>>
    PROVE DispatchInv'
  BY DEF DispatchInv, Copied

\* Rows may change as long as every row that waits still waits.
LEMMA DispatchWaits ==
    ASSUME DispatchInv, UNCHANGED <<retries, batch, entry, stage>>, TypeOK,
           \A r \in Rows : status[r] \in Waiting => status'[r] \in Waiting
    PROVE DispatchInv'
<1>1. \A e \in Entry : Copied(e) => Copied(e)'
  BY RowOfEntry DEF Copied
<1>2. batch \subseteq Entry /\ entry \in Entry \cup {NoEntry}
  BY DEF TypeOK
<1> QED
  BY <1>1, <1>2 DEF DispatchInv

\* Every step keeps what a dispatcher knows of the row it works on.
LEMMA DispatchStep == TypeOK /\ DispatchInv /\ [Next]_vars => DispatchInv'
<1> SUFFICES ASSUME TypeOK, DispatchInv, [Next]_vars PROVE DispatchInv'
  OBVIOUS
<1> USE DEF subs, outbox, queuer, dispatcher, counts, history, CallFails
<1>0. CASE UNCHANGED vars
  BY <1>0, DispatchSame DEF vars
<1>1. ASSUME NEW u \in Users, NEW t \in Targets, CreateSubscription(u, t) PROVE DispatchInv'
  BY <1>1, DispatchSame DEF CreateSubscription
<1>2. ASSUME NEW u \in Users, NEW t \in Targets, UpdateChannel(u, t) PROVE DispatchInv'
  BY <1>2, DispatchSame DEF UpdateChannel
<1>3. ASSUME NEW u \in Users, NEW t \in Targets, Repoint(u, t) PROVE DispatchInv'
  BY <1>3, DispatchSame DEF Repoint
<1>4. ASSUME NEW s \in Subs, DeleteSubscription(s) PROVE DispatchInv'
  <2>1. \A r \in Rows : status[r] \in Waiting => status'[r] \in Waiting
    BY <1>4 DEF DeleteSubscription, Waiting
  <2> QED
    BY <1>4, <2>1, DispatchWaits DEF DeleteSubscription
<1>5. ASSUME NEW versions \in SUBSET Versions, Announce(versions) PROVE DispatchInv'
  BY <1>5, DispatchSame DEF Announce
<1>6. ASSUME NEW q \in Queuers, ListSubscriptions(q) PROVE DispatchInv'
  BY <1>6, DispatchSame DEF ListSubscriptions
<1>7. ASSUME NEW q \in Queuers, EnqueueNotification(q) PROVE DispatchInv'
  <2>1. status' = status \/ \E r \in Rows : status' = [status EXCEPT ![r] = "pending"]
    <3>1. \A f \in found[q] : <<f.sub, f.ver>> \in Rows
      BY RowOfFound DEF TypeOK
    <3> QED
      BY <1>7, <3>1 DEF EnqueueNotification
  <2>2. \A r \in Rows : status[r] \in Waiting => status'[r] \in Waiting
    BY <2>1 DEF TypeOK, Waiting, Queued
  <2> QED
    BY <1>7, <2>2, DispatchWaits DEF EnqueueNotification
<1>8. ASSUME NEW r \in Rows, Due(r) PROVE DispatchInv'
  <2>1. \A p \in Rows : status[p] \in Waiting => status'[p] \in Waiting
    BY <1>8 DEF Due, TypeOK, Waiting, Queued
  <2> QED
    BY <1>8, <2>1, DispatchWaits DEF Due
<1>9. CASE ListPending
  <2>1. \A e \in batch' : \E r \in Rows :
           /\ status[r] \in Queued
           /\ e = [sub |-> r[1], ver |-> r[2], target |-> rowTarget[r], retries |-> retries[r]]
    BY <1>9 DEF ListPending, Queued
  <2>2. \A e \in batch' : Copied(e)
    BY <2>1 DEF Copied, RowOf, Waiting, Rows
  <2>3. \A e, f \in batch' : RowOf(e) = RowOf(f) => e = f
    BY <2>1 DEF RowOf, Rows
  <2>4. entry' = NoEntry /\ stage' # "retry" /\ UNCHANGED <<status, retries>>
    BY <1>9 DEF ListPending, TypeOK
  <2> QED
    BY <2>2, <2>3, <2>4 DEF DispatchInv, Copied
<1>10. CASE Check
  <2>1. PICK e \in batch : /\ batch' = batch \ {e}
                           /\ \/ entry' = e /\ stage' \in {"failed", "send"}
                              \/ UNCHANGED <<entry, stage>>
    BY <1>10 DEF Check
  <2>2. entry = NoEntry /\ UNCHANGED <<status, retries>>
    BY <1>10 DEF Check
  <2>3. \A f \in Entry : Copied(f) => Copied(f)'
    BY <2>2 DEF Copied
  <2> QED
    BY <2>1, <2>2, <2>3 DEF DispatchInv, TypeOK
<1>11. CASE Send
  <2>1. entry \in Entry
    BY <1>11, InHand DEF Send
  <2>2. stage' = "retry" => entry.retries < MaxRetries
    BY <1>11, <2>1 DEF Send, Entry
  <2> QED
    BY <1>11, <2>2 DEF Send, DispatchInv, Copied
<1>12. CASE Record
  <2>1. entry \in Entry /\ RowOf(entry) \in Rows
    BY <1>12, InHand DEF Record
  <2>2. \A r \in Rows : r # RowOf(entry) => status'[r] = status[r] /\ retries'[r] = retries[r]
    BY <1>12, <2>1 DEF Record, TypeOK
  <2>3. \A e \in batch : RowOf(e) # RowOf(entry) /\ RowOf(e) \in Rows
    BY <2>1, RowOfEntry DEF DispatchInv, TypeOK
  <2>4. \A e \in batch : Copied(e)'
    BY <2>2, <2>3 DEF DispatchInv, Copied
  <2>5. entry' = NoEntry /\ stage' = "idle" /\ UNCHANGED batch
    BY <1>12 DEF Record
  <2> QED
    BY <2>4, <2>5 DEF DispatchInv
<1>13. CASE Crash
  BY <1>13 DEF Crash, DispatchInv
<1> QED
  BY <1>0, <1>1, <1>2, <1>3, <1>4, <1>5, <1>6, <1>7, <1>8, <1>9, <1>10, <1>11, <1>12, <1>13, NextSplits DEF Actions

-----------------------------------------------------------------------------
(* Nothing waits for a subscription that is gone: the insert looks again,  *)
(* and the deletion cancels in the same transaction.                       *)

LEMMA PendingSame ==
    ASSUME PendingIsLive, UNCHANGED <<status, owner>> PROVE PendingIsLive'
  BY DEF PendingIsLive, Live

\* Every step keeps that a pending row belongs to a live subscription.
LEMMA PendingStep == TypeOK /\ PendingIsLive /\ [Next]_vars => PendingIsLive'
<1> SUFFICES ASSUME TypeOK, PendingIsLive, [Next]_vars PROVE PendingIsLive'
  OBVIOUS
<1> USE DEF subs, outbox, queuer, dispatcher, counts, history
<1>0. CASE UNCHANGED vars
  BY <1>0, PendingSame DEF vars
<1>1. ASSUME NEW u \in Users, NEW t \in Targets, CreateSubscription(u, t) PROVE PendingIsLive'
  BY <1>1 DEF CreateSubscription, PendingIsLive, Live, TypeOK, Rows
<1>2. ASSUME NEW u \in Users, NEW t \in Targets, UpdateChannel(u, t) PROVE PendingIsLive'
  BY <1>2, PendingSame DEF UpdateChannel
<1>3. ASSUME NEW u \in Users, NEW t \in Targets, Repoint(u, t) PROVE PendingIsLive'
  BY <1>3, PendingSame DEF Repoint
<1>4. ASSUME NEW s \in Subs, DeleteSubscription(s) PROVE PendingIsLive'
  BY <1>4 DEF DeleteSubscription, PendingIsLive, Live, TypeOK, Rows, Queued
<1>5. ASSUME NEW versions \in SUBSET Versions, Announce(versions) PROVE PendingIsLive'
  BY <1>5, PendingSame DEF Announce
<1>6. ASSUME NEW q \in Queuers, ListSubscriptions(q) PROVE PendingIsLive'
  BY <1>6, PendingSame DEF ListSubscriptions
<1>7. ASSUME NEW q \in Queuers, EnqueueNotification(q) PROVE PendingIsLive'
  <2>1. PICK f \in found[q] :
          \/ Live(f.sub) /\ status' = [status EXCEPT ![<<f.sub, f.ver>>] = "pending"]
          \/ UNCHANGED status
    BY <1>7 DEF EnqueueNotification
  <2>2. <<f.sub, f.ver>> \in Rows
    BY RowOfFound DEF TypeOK
  <2>3. UNCHANGED owner
    BY <1>7 DEF EnqueueNotification
  <2> QED
    BY <2>1, <2>2, <2>3 DEF PendingIsLive, Live, TypeOK
<1>8. ASSUME NEW r \in Rows, Due(r) PROVE PendingIsLive'
  BY <1>8 DEF Due, PendingIsLive, Live, TypeOK
<1>9. CASE ListPending
  BY <1>9, PendingSame DEF ListPending
<1>10. CASE Check
  BY <1>10, PendingSame DEF Check
<1>11. CASE Send
  BY <1>11, PendingSame DEF Send
<1>12. CASE Record
  <2>1. RowOf(entry) \in Rows
    BY <1>12, InHand DEF Record
  <2> QED
    BY <1>12, <2>1 DEF Record, PendingIsLive, Live, TypeOK
<1>13. CASE Crash
  BY <1>13, PendingSame DEF Crash
<1> QED
  BY <1>0, <1>1, <1>2, <1>3, <1>4, <1>5, <1>6, <1>7, <1>8, <1>9, <1>10, <1>11, <1>12, <1>13, NextSplits DEF Actions

-----------------------------------------------------------------------------
(* Counting: between a send and its record the row still waits, so that a  *)
(* message counts once; a fault pays for the record that is lost, and a    *)
(* lost answer for itself.                                                 *)

\* What CountInv reads may change as long as no row stops being settled.
LEMMA CountSame ==
    ASSUME CountInv, TypeOK, faults' = faults,
           UNCHANGED <<attempts, accepted, unheard, retries, entry, stage>>,
           \A r \in Rows : status[r] \in {"sent", "failed"} => status'[r] = status[r]
    PROVE CountInv'
<1> DEFINE Sent(r) == status[r] \in {"sent", "failed"} \/ Unrecorded(r)
           Took(r) == status[r] = "sent" \/ Taken(r)
<1>1. \A r \in Rows : (Sent(r) => Sent(r)') /\ (Took(r) => Took(r)')
  BY DEF Unrecorded, Taken, RowOf
<1>2. \A r \in Rows : /\ attempts[r] \in Nat /\ retries[r] \in Nat
                      /\ accepted[r] \in Nat /\ unheard[r] \in Nat /\ faults \in Nat
  BY DEF TypeOK
<1>3. \A r \in Rows : /\ attempts[r] <= retries[r] + faults + (IF Sent(r) THEN 1 ELSE 0)
                      /\ accepted[r] <= unheard[r] + faults + (IF Took(r) THEN 1 ELSE 0)
  BY DEF CountInv
<1>4. SUFFICES \A r \in Rows :
                 /\ attempts[r] <= retries[r] + faults + (IF Sent(r)' THEN 1 ELSE 0)
                 /\ accepted[r] <= unheard[r] + faults + (IF Took(r)' THEN 1 ELSE 0)
  BY DEF CountInv
<1> HIDE DEF Sent, Took
<1> QED
  BY <1>1, <1>2, <1>3

\* A fault pays for whatever the dispatcher had not recorded.
LEMMA CountFault ==
    ASSUME CountInv, TypeOK, faults' = faults + 1,
           UNCHANGED <<attempts, accepted, unheard, retries, status>>
    PROVE CountInv'
<1> SUFFICES ASSUME NEW r \in Rows
             PROVE /\ attempts[r] <= retries[r] + (faults + 1)
                   /\ accepted[r] <= unheard[r] + (faults + 1)
  <2>1. \A r \in Rows : retries[r] \in Nat /\ faults \in Nat
    BY DEF TypeOK
  <2> DEFINE Sent(r) == IF status[r] \in {"sent", "failed"} \/ Unrecorded(r)' THEN 1 ELSE 0
             Took(r) == IF status[r] = "sent" \/ Taken(r)' THEN 1 ELSE 0
  <2>2. \A r \in Rows : Sent(r) \in {0, 1} /\ Took(r) \in {0, 1}
    OBVIOUS
  <2>3. \A r \in Rows : attempts[r] \in Nat /\ accepted[r] \in Nat /\ unheard[r] \in Nat
    BY DEF TypeOK
  <2> SUFFICES \A r \in Rows : /\ attempts[r] <= retries[r] + (faults + 1) + Sent(r)
                               /\ accepted[r] <= unheard[r] + (faults + 1) + Took(r)
    BY DEF CountInv
  <2> HIDE DEF Sent, Took
  <2> QED
    BY <2>1, <2>2, <2>3
<1>1. /\ retries[r] \in Nat /\ faults \in Nat
      /\ attempts[r] \in Nat /\ accepted[r] \in Nat /\ unheard[r] \in Nat
  BY DEF TypeOK
<1> QED
  BY <1>1 DEF CountInv

\* Every step keeps the bounds of attempts and takings.
LEMMA CountStep == TypeOK /\ DispatchInv /\ CountInv /\ [Next]_vars => CountInv'
<1> SUFFICES ASSUME TypeOK, DispatchInv, CountInv, [Next]_vars PROVE CountInv'
  OBVIOUS
<1> USE DEF subs, outbox, queuer, dispatcher, counts, history, CallFails
<1>0. CASE UNCHANGED vars
  BY <1>0, CountSame DEF vars
<1>1. ASSUME NEW u \in Users, NEW t \in Targets, CreateSubscription(u, t) PROVE CountInv'
  BY <1>1, CountSame DEF CreateSubscription
<1>2. ASSUME NEW u \in Users, NEW t \in Targets, UpdateChannel(u, t) PROVE CountInv'
  BY <1>2, CountSame DEF UpdateChannel
<1>3. ASSUME NEW u \in Users, NEW t \in Targets, Repoint(u, t) PROVE CountInv'
  <2>1. CASE faults' = faults
    BY <1>3, <2>1, CountSame DEF Repoint
  <2>2. CASE faults' = faults + 1
    BY <1>3, <2>2, CountFault DEF Repoint
  <2> QED
    BY <1>3, <2>1, <2>2 DEF Repoint
<1>4. ASSUME NEW s \in Subs, DeleteSubscription(s) PROVE CountInv'
  <2>1. \A r \in Rows : status[r] \in {"sent", "failed"} => status'[r] = status[r]
    BY <1>4 DEF DeleteSubscription, Queued
  <2> QED
    BY <1>4, <2>1, CountSame DEF DeleteSubscription
<1>5. ASSUME NEW versions \in SUBSET Versions, Announce(versions) PROVE CountInv'
  BY <1>5, CountSame DEF Announce
<1>6. ASSUME NEW q \in Queuers, ListSubscriptions(q) PROVE CountInv'
  <2>1. CASE faults' = faults
    BY <1>6, <2>1, CountSame DEF ListSubscriptions
  <2>2. CASE faults' = faults + 1
    BY <1>6, <2>2, CountFault DEF ListSubscriptions
  <2> QED
    BY <1>6, <2>1, <2>2 DEF ListSubscriptions
<1>7. ASSUME NEW q \in Queuers, EnqueueNotification(q) PROVE CountInv'
  <2>1. CASE faults' = faults
    <3>1. PICK f \in found[q] :
            \/ status[<<f.sub, f.ver>>] = "none"
               /\ status' = [status EXCEPT ![<<f.sub, f.ver>>] = "pending"]
            \/ UNCHANGED status
      BY <1>7 DEF EnqueueNotification
    <3>2. \A r \in Rows : status[r] \in {"sent", "failed"} => status'[r] = status[r]
      BY <3>1 DEF TypeOK
    <3> QED
      BY <1>7, <2>1, <3>2, CountSame DEF EnqueueNotification
  <2>2. CASE faults' # faults
    <3>1. faults' = faults + 1 /\ UNCHANGED status
      BY <1>7, <2>2 DEF EnqueueNotification
    <3> QED
      BY <1>7, <3>1, CountFault DEF EnqueueNotification
  <2> QED
    BY <2>1, <2>2
<1>8. ASSUME NEW r \in Rows, Due(r) PROVE CountInv'
  <2>1. \A p \in Rows : status[p] \in {"sent", "failed"} => status'[p] = status[p]
    BY <1>8 DEF Due, TypeOK
  <2> QED
    BY <1>8, <2>1, CountSame DEF Due
<1>9. CASE ListPending
  BY <1>9, CountSame DEF ListPending
<1>10. CASE Check
  <2>1. stage = "idle" /\ UNCHANGED <<attempts, accepted, unheard, retries, status>>
    BY <1>10 DEF Check, TypeOK
  <2>2. CASE faults' = faults
    <3>1. \A r \in Rows : ~Unrecorded(r) /\ ~Taken(r)
      BY <2>1 DEF Unrecorded, Taken
    <3>2. \A r \in Rows : /\ attempts[r] \in Nat /\ retries[r] \in Nat
                          /\ accepted[r] \in Nat /\ unheard[r] \in Nat /\ faults \in Nat
      BY DEF TypeOK
    <3> QED
      BY <2>1, <2>2, <3>1, <3>2 DEF CountInv
  <2>3. CASE faults' = faults + 1
    BY <2>1, <2>3, CountFault
  <2> QED
    BY <1>10, <2>2, <2>3 DEF Check
<1>11. CASE Send
  <2>1. RowOf(entry) \in Rows /\ entry # NoEntry
    BY <1>11, InHand DEF Send, TypeOK
  <2>2. status[RowOf(entry)] \notin {"sent", "failed"}
    BY <2>1 DEF DispatchInv, Copied, Waiting, Queued
  <2>3. \A r \in Rows : ~Unrecorded(r) /\ ~Taken(r)
    BY <1>11 DEF Send, Unrecorded, Taken
  <2>4. UNCHANGED <<status, retries, entry, faults>>
    BY <1>11 DEF Send
  <2> SUFFICES ASSUME NEW r \in Rows
               PROVE /\ attempts'[r] <= retries[r] + faults
                          + (IF status[r] \in {"sent", "failed"} \/ Unrecorded(r)' THEN 1 ELSE 0)
                     /\ accepted'[r] <= unheard'[r] + faults
                          + (IF status[r] = "sent" \/ Taken(r)' THEN 1 ELSE 0)
    BY <2>4 DEF CountInv
  <2>5. /\ attempts[r] \in Nat /\ retries[r] \in Nat
        /\ accepted[r] \in Nat /\ unheard[r] \in Nat /\ faults \in Nat
    BY DEF TypeOK
  <2>6. /\ attempts[r] <= retries[r] + faults + (IF status[r] \in {"sent", "failed"} THEN 1 ELSE 0)
        /\ accepted[r] <= unheard[r] + faults + (IF status[r] = "sent" THEN 1 ELSE 0)
    BY <2>3 DEF CountInv
  <2>7. CASE r # RowOf(entry)
    <3>1. attempts'[r] = attempts[r]
      BY <1>11, <2>7 DEF Send, TypeOK
    <3>2. accepted'[r] = accepted[r] /\ unheard'[r] = unheard[r]
      BY <1>11, <2>7 DEF Send, TypeOK
    <3> QED
      BY <2>5, <2>6, <3>1, <3>2
  <2>8. CASE r = RowOf(entry)
    <3>1. attempts'[r] = attempts[r] + 1
      BY <1>11, <2>8 DEF Send, TypeOK
    <3>2. Unrecorded(r)'
      BY <1>11, <2>8, <2>4 DEF Send, Unrecorded, RowOf
    <3>3. \/ accepted'[r] = accepted[r] /\ unheard'[r] = unheard[r]
          \/ accepted'[r] = accepted[r] + 1 /\ unheard'[r] = unheard[r] + 1
          \/ accepted'[r] = accepted[r] + 1 /\ unheard'[r] = unheard[r] /\ stage' = "sent"
      BY <1>11, <2>8 DEF Send, TypeOK
    <3>4. stage' = "sent" => Taken(r)'
      BY <2>8, <2>4 DEF Taken, RowOf
    <3> QED
      BY <2>2, <2>5, <2>6, <2>8, <3>1, <3>2, <3>3, <3>4
  <2> QED
    BY <2>7, <2>8
<1>12. CASE Record
  <2>1. /\ entry \in Entry /\ RowOf(entry) \in Rows /\ entry # NoEntry
        /\ stage \in {"sent", "retry", "failed"}
    BY <1>12, InHand DEF Record, TypeOK
  <2>2. CASE faults' # faults
    <3>1. faults' = faults + 1 /\ UNCHANGED <<attempts, accepted, unheard, retries, status>>
      BY <1>12, <2>2 DEF Record
    <3> QED
      BY <3>1, CountFault
  <2>3. CASE faults' = faults
    <3>1. /\ status' = [status EXCEPT ![RowOf(entry)] = stage]
          /\ retries' = IF stage = "retry"
                           THEN [retries EXCEPT ![RowOf(entry)] = entry.retries + 1]
                           ELSE retries
      BY <1>12, <2>3 DEF Record, TypeOK
    <3>2. UNCHANGED <<attempts, accepted, unheard>>
      BY <1>12 DEF Record
    <3> SUFFICES ASSUME NEW r \in Rows
                 PROVE /\ attempts[r] <= retries'[r] + faults
                            + (IF status'[r] \in {"sent", "failed"} THEN 1 ELSE 0)
                       /\ accepted[r] <= unheard[r] + faults
                            + (IF status'[r] = "sent" THEN 1 ELSE 0)
      <4>1. \A r \in Rows : ~Unrecorded(r)' /\ ~Taken(r)'
        BY <1>12 DEF Record, Unrecorded, Taken
      <4> QED
        BY <2>3, <3>2, <4>1 DEF CountInv
    <3>3. /\ attempts[r] \in Nat /\ retries[r] \in Nat
          /\ accepted[r] \in Nat /\ unheard[r] \in Nat /\ faults \in Nat
      BY DEF TypeOK
    <3>4. CASE r # RowOf(entry)
      <4>1. retries'[r] = retries[r] /\ status'[r] = status[r]
        BY <3>1, <3>4 DEF TypeOK
      <4>2. ~Unrecorded(r) /\ ~Taken(r)
        BY <3>4 DEF Unrecorded, Taken
      <4> QED
        BY <4>1, <4>2 DEF CountInv
    <3>5. CASE r = RowOf(entry)
      <4>1. status[r] \notin {"sent", "failed"} /\ entry.retries = retries[r]
        BY <2>1, <3>5 DEF DispatchInv, Copied, Waiting, Queued
      <4>2. attempts[r] <= retries[r] + faults + 1
        BY <4>1, <3>3 DEF CountInv
      <4>3. accepted[r] <= unheard[r] + faults + (IF stage = "sent" THEN 1 ELSE 0)
        BY <4>1, <3>3, <3>5 DEF CountInv, Taken
      <4>4. /\ status'[r] = stage
            /\ retries'[r] = IF stage = "retry" THEN retries[r] + 1 ELSE retries[r]
        BY <3>1, <3>5, <4>1 DEF TypeOK
      <4> QED
        BY <2>1, <3>3, <4>2, <4>3, <4>4
    <3> QED
      BY <3>4, <3>5
  <2> QED
    BY <2>2, <2>3
<1>13. CASE Crash
  BY <1>13, CountFault DEF Crash
<1> QED
  BY <1>0, <1>1, <1>2, <1>3, <1>4, <1>5, <1>6, <1>7, <1>8, <1>9, <1>10, <1>11, <1>12, <1>13, NextSplits DEF Actions

-----------------------------------------------------------------------------
(* After a deletion: the rows of what was sent keep the id in use.         *)

LEMMA LateSame ==
    ASSUME LateInv, TypeOK, UNCHANGED <<late, owner>>,
           stage' # "send" \/ UNCHANGED <<stage, entry>>,
           \A r \in Rows : status[r] # "none" => status'[r] # "none"
    PROVE LateInv'
  BY DEF LateInv, Live, Rows

\* Every step keeps that an id sent to after its deletion stays out of use.
LEMMA LateStep == TypeOK /\ DispatchInv /\ LateInv /\ [Next]_vars => LateInv'
<1> SUFFICES ASSUME TypeOK, DispatchInv, LateInv, [Next]_vars PROVE LateInv'
  OBVIOUS
<1> USE DEF subs, outbox, queuer, dispatcher, counts, history, CallFails
<1>0. CASE UNCHANGED vars
  BY <1>0, LateSame DEF vars
<1>1. ASSUME NEW u \in Users, NEW t \in Targets, CreateSubscription(u, t) PROVE LateInv'
  <2>1. PICK s \in Subs : s \notin UsedIds /\ owner' = [owner EXCEPT ![s] = u]
    <3>1. \A i \in Subs : ~(i < i)
      BY DEF Subs
    <3> QED
      BY <1>1, <3>1 DEF CreateSubscription
  <2>2. late[s] # 1
    BY <2>1 DEF UsedIds, LateInv
  <2>3. UNCHANGED <<late, status, stage, entry>>
    BY <1>1 DEF CreateSubscription
  <2> QED
    BY <2>1, <2>2, <2>3 DEF LateInv, Live, TypeOK
<1>2. ASSUME NEW u \in Users, NEW t \in Targets, UpdateChannel(u, t) PROVE LateInv'
  BY <1>2, LateSame DEF UpdateChannel
<1>3. ASSUME NEW u \in Users, NEW t \in Targets, Repoint(u, t) PROVE LateInv'
  BY <1>3, LateSame DEF Repoint
<1>4. ASSUME NEW s \in Subs, DeleteSubscription(s) PROVE LateInv'
  <2>1. \A r \in Rows : status[r] # "none" => status'[r] # "none"
    BY <1>4 DEF DeleteSubscription
  <2>2. UNCHANGED <<late, entry, stage>> /\ owner' = [owner EXCEPT ![s] = NoUser]
    BY <1>4 DEF DeleteSubscription
  <2> QED
    BY <2>1, <2>2 DEF LateInv, Live, TypeOK, Rows
<1>5. ASSUME NEW versions \in SUBSET Versions, Announce(versions) PROVE LateInv'
  BY <1>5, LateSame DEF Announce
<1>6. ASSUME NEW q \in Queuers, ListSubscriptions(q) PROVE LateInv'
  BY <1>6, LateSame DEF ListSubscriptions
<1>7. ASSUME NEW q \in Queuers, EnqueueNotification(q) PROVE LateInv'
  <2>1. \A r \in Rows : status[r] # "none" => status'[r] # "none"
    BY <1>7 DEF EnqueueNotification, TypeOK
  <2> QED
    BY <1>7, <2>1, LateSame DEF EnqueueNotification
<1>8. ASSUME NEW r \in Rows, Due(r) PROVE LateInv'
  <2>1. \A p \in Rows : status[p] # "none" => status'[p] # "none"
    BY <1>8 DEF Due, TypeOK
  <2> QED
    BY <1>8, <2>1, LateSame DEF Due
<1>9. CASE ListPending
  BY <1>9, LateSame DEF ListPending
<1>10. CASE Check
  <2>1. UNCHANGED <<late, owner, status>>
    BY <1>10 DEF Check
  <2>2. stage' = "send" => Live(entry'.sub)
    BY <1>10 DEF Check, TypeOK
  <2> QED
    BY <2>1, <2>2 DEF LateInv, Live
<1>11. CASE Send
  <2>1. entry \in Entry /\ RowOf(entry) \in Rows /\ entry # NoEntry
    BY <1>11, InHand DEF Send, TypeOK
  <2>2. entry.sub \in Subs /\ entry.ver \in Versions
    BY <2>1 DEF Entry
  <2>3. status[<<entry.sub, entry.ver>>] # "none"
    BY <2>1 DEF DispatchInv, Copied, Waiting, Queued, RowOf
  <2>4. stage' # "send" /\ UNCHANGED <<owner, status, entry>>
    BY <1>11 DEF Send
  <2>5. late[entry.sub] # 1 /\ late[entry.sub] \in Nat /\ late[entry.sub] <= 1
    BY <1>11, <2>2 DEF Send, LateInv, TypeOK
  <2>6. \A s \in Subs : late'[s] = IF s = entry.sub /\ ~Live(s) THEN 1 ELSE late[s]
    BY <1>11, <2>2, <2>5 DEF Send, TypeOK
  <2> QED
    BY <2>2, <2>3, <2>4, <2>6 DEF LateInv, Live
<1>12. CASE Record
  <2>1. \A r \in Rows : status[r] # "none" => status'[r] # "none"
    BY <1>12, InHand DEF Record, TypeOK
  <2> QED
    BY <1>12, <2>1, LateSame DEF Record
<1>13. CASE Crash
  BY <1>13, LateSame DEF Crash
<1> QED
  BY <1>0, <1>1, <1>2, <1>3, <1>4, <1>5, <1>6, <1>7, <1>8, <1>9, <1>10, <1>11, <1>12, <1>13, NextSplits DEF Actions

-----------------------------------------------------------------------------
(* News: until a fault, what is owed is on its way to a subscription that  *)
(* is there and served, so that no list of subscriptions can miss it.      *)

LEMMA NewsSame ==
    ASSUME NewsInv, TypeOK, faults' = 0 => faults = 0,
           UNCHANGED <<owed, owner, target, todo, found>>,
           \A r \in Rows : status[r] # "none" => status'[r] # "none"
    PROVE NewsInv'
<1>1. \A r \in Rows : OnItsWay(r) => OnItsWay(r)'
  BY DEF OnItsWay, RowOf
<1> QED
  BY <1>1 DEF NewsInv, Live, TypeOK

\* Every step keeps that an announced event has its rows.
LEMMA NewsStep == TypeOK /\ NewsInv /\ [Next]_vars => NewsInv'
<1> SUFFICES ASSUME TypeOK, NewsInv, [Next]_vars, faults' = 0
             PROVE NewsInv'
  BY DEF NewsInv
<1> DEFINE Goal == \A r \in owed' : Live(r[1])' /\ target'[r[1]] \in Served /\ OnItsWay(r)'
<1> SUFFICES Goal
  BY DEF NewsInv
<1>a. NewsInv' => Goal
  BY DEF NewsInv
<1> USE DEF subs, outbox, queuer, dispatcher, counts, history
<1>b. faults = 0
  <2>1. faults' = faults \/ faults' = faults + 1
    BY NextSplits DEF Actions, vars, CreateSubscription, UpdateChannel, Repoint,
       DeleteSubscription, Announce, ListSubscriptions, EnqueueNotification, Due,
       ListPending, Check, Send, Record, Crash, CallFails
  <2> QED
    BY <2>1 DEF TypeOK
<1>d. ~CallFails
  BY <1>b DEF CallFails
<1>c. \A r \in owed : /\ r \in Rows /\ r[1] \in Subs /\ r[2] \in Versions
                      /\ Live(r[1]) /\ target[r[1]] \in Served /\ OnItsWay(r)
  BY <1>b DEF NewsInv, TypeOK, Rows
<1> HIDE DEF Goal
<1>0. CASE UNCHANGED vars
  BY <1>0, <1>a, <1>b, NewsSame DEF vars
<1>1. ASSUME NEW u \in Users, NEW t \in Targets, CreateSubscription(u, t) PROVE Goal
  <2>1. PICK s \in Subs : /\ s \notin UsedIds
                          /\ owner' = [owner EXCEPT ![s] = u]
                          /\ target' = [target EXCEPT ![s] = t]
    <3>1. \A i \in Subs : ~(i < i)
      BY DEF Subs
    <3> QED
      BY <1>1, <3>1 DEF CreateSubscription
  <2>2. UNCHANGED <<status, todo, found, owed>>
    BY <1>1 DEF CreateSubscription
  <2>3. \A r \in owed : r[1] # s
    BY <1>c, <2>1 DEF UsedIds
  <2> QED
    BY <1>c, <2>1, <2>2, <2>3 DEF Goal, Live, OnItsWay, TypeOK, RowOf
<1>2. ASSUME NEW u \in Users, NEW t \in Targets, UpdateChannel(u, t) PROVE Goal
  <2>1. PICK s \in Subs : /\ owner[s] = u
                          /\ target' = [target EXCEPT ![s] = t]
    BY <1>2 DEF UpdateChannel
  <2>2. /\ UNCHANGED <<owner, status, todo, found>>
        /\ owed' = IF t \in Served THEN owed ELSE {r \in owed : owner[r[1]] # u}
    BY <1>2 DEF UpdateChannel
  <2>3. \A r \in owed' : r \in owed /\ (r[1] = s => t \in Served)
    BY <2>1, <2>2
  <2> QED
    BY <1>c, <2>1, <2>2, <2>3 DEF Goal, Live, OnItsWay, TypeOK, RowOf
<1>3. ASSUME NEW u \in Users, NEW t \in Targets, Repoint(u, t) PROVE Goal
  BY <1>3, <1>a, <1>b, NewsSame DEF Repoint
<1>4. ASSUME NEW s \in Subs, DeleteSubscription(s) PROVE Goal
  <2>1. \A r \in Rows : status[r] # "none" => status'[r] # "none"
    BY <1>4 DEF DeleteSubscription
  <2>2. /\ UNCHANGED <<target, todo, found>>
        /\ owner' = [owner EXCEPT ![s] = NoUser] /\ owed' = {r \in owed : r[1] # s}
    BY <1>4 DEF DeleteSubscription
  <2> QED
    BY <1>c, <2>1, <2>2 DEF Goal, Live, OnItsWay, TypeOK, RowOf
<1>5. ASSUME NEW versions \in SUBSET Versions, Announce(versions) PROVE Goal
  <2>1. UNCHANGED <<owner, target, status, found>>
    BY <1>5 DEF Announce
  <2>2. CASE UNCHANGED <<todo, owed>>
    BY <1>a, <1>b, <2>1, <2>2, NewsSame
  <2>3. ASSUME NEW news, NEW q \in Queuers,
               owed' = owed \cup {r \in Rows : /\ Live(r[1]) /\ r[2] \in news
                                              /\ target[r[1]] \in Served},
               todo[q] = {}, found[q] = {}, todo' = [todo EXCEPT ![q] = news]
        PROVE Goal
    <3>1. todo'[q] = news /\ \A p \in Queuers : p # q => todo'[p] = todo[p]
      BY <2>3 DEF TypeOK
    <3>2. \A r : OnItsWay(r) => OnItsWay(r)'
      BY <2>1, <2>3, <3>1 DEF OnItsWay, RowOf
    <3>3. \A r \in Rows : r[2] \in news => OnItsWay(r)'
      BY <3>1 DEF OnItsWay
    <3> QED
      BY <1>c, <2>1, <2>3, <3>2, <3>3 DEF Goal, Live
  <2> QED
    BY <1>5, <2>2, <2>3 DEF Announce
<1>6. ASSUME NEW q \in Queuers, ListSubscriptions(q) PROVE Goal
  <2>1. UNCHANGED <<owner, target, status, owed>> /\ found[q] = {}
    BY <1>6 DEF ListSubscriptions
  <2>2. PICK v \in todo[q] :
          /\ todo' = [todo EXCEPT ![q] = @ \ {v}]
          /\ found' = [found EXCEPT ![q] =
                {[sub |-> s, ver |-> v, target |-> target[s]] :
                    s \in {i \in Subs : Live(i) /\ target[i] \in Served}}]
    BY <1>6, <1>d DEF ListSubscriptions
  <2>3. ASSUME NEW r \in owed PROVE OnItsWay(r)'
    <3>1. CASE r[2] = v
      <4>1. [sub |-> r[1], ver |-> v, target |-> target[r[1]]] \in found'[q]
        BY <1>c, <2>2 DEF TypeOK
      <4>2. RowOf([sub |-> r[1], ver |-> v, target |-> target[r[1]]]) = r
        BY <1>c, <3>1 DEF RowOf, Rows
      <4> QED
        BY <4>1, <4>2 DEF OnItsWay, RowOf
    <3>2. CASE r[2] # v
      BY <1>c, <2>1, <2>2, <3>2 DEF OnItsWay, TypeOK, RowOf
    <3> QED
      BY <3>1, <3>2
  <2> QED
    BY <1>c, <2>1, <2>3 DEF Goal, Live
<1>7. ASSUME NEW q \in Queuers, EnqueueNotification(q) PROVE Goal
  <2>1. UNCHANGED <<owner, target, todo, owed>>
    BY <1>7 DEF EnqueueNotification
  <2>2. PICK f \in found[q] :
          /\ found' = [found EXCEPT ![q] = @ \ {f}]
          /\ \/ status' = [status EXCEPT ![RowOf(f)] = "pending"]
             \/ (~Live(f.sub) \/ status[RowOf(f)] # "none") /\ UNCHANGED status
    BY <1>7, <1>d DEF EnqueueNotification, RowOf
  <2>3. RowOf(f) \in Rows /\ RowOf(f)[1] = f.sub
    BY RowOfFound DEF TypeOK, RowOf
  <2>4. \A r \in Rows : status[r] # "none" => status'[r] # "none"
    BY <2>2, <2>3 DEF TypeOK
  <2>5. ASSUME NEW r \in owed PROVE OnItsWay(r)'
    <3>1. CASE r = RowOf(f)
      BY <1>c, <2>2, <2>3, <3>1 DEF OnItsWay, TypeOK
    <3>2. CASE r # RowOf(f)
      BY <1>c, <2>1, <2>2, <2>4, <3>2 DEF OnItsWay, TypeOK, RowOf
    <3> QED
      BY <3>1, <3>2
  <2> QED
    BY <1>c, <2>1, <2>5 DEF Goal, Live
<1>8. ASSUME NEW r \in Rows, Due(r) PROVE Goal
  <2>1. \A p \in Rows : status[p] # "none" => status'[p] # "none"
    BY <1>8 DEF Due, TypeOK
  <2> QED
    BY <1>8, <1>a, <1>b, <2>1, NewsSame DEF Due
<1>9. CASE ListPending
  BY <1>9, <1>a, <1>b, NewsSame DEF ListPending
<1>10. CASE Check
  BY <1>10, <1>a, <1>b, NewsSame DEF Check
<1>11. CASE Send
  BY <1>11, <1>a, <1>b, NewsSame DEF Send
<1>12. CASE Record
  <2>1. \A r \in Rows : status[r] # "none" => status'[r] # "none"
    BY <1>12, InHand DEF Record, TypeOK
  <2> QED
    BY <1>12, <1>a, <1>b, <2>1, NewsSame DEF Record
<1>13. CASE Crash
  BY <1>13, <1>d DEF Crash
<1> QED
  BY <1>0, <1>1, <1>2, <1>3, <1>4, <1>5, <1>6, <1>7, <1>8, <1>9, <1>10, <1>11, <1>12, <1>13, NextSplits DEF Actions

-----------------------------------------------------------------------------
(* The invariant and what follows from it.                                 *)

LEMMA OutboxInvInit == Init => OutboxInv
<1> SUFFICES ASSUME Init PROVE OutboxInv
  OBVIOUS
<1>1. TypeOK /\ DispatchInv
  BY TypeInit
<1>2. PendingIsLive /\ LateInv /\ NewsInv
  BY DEF Init, PendingIsLive, LateInv, NewsInv
<1>3. CountInv
  BY <1>1 DEF Init, CountInv, TypeOK
<1> QED
  BY <1>1, <1>2, <1>3 DEF OutboxInv

\* Every reachable state satisfies the inductive invariant.
THEOREM OutboxInvariant == Spec => []OutboxInv
<1>1. OutboxInv /\ [Next]_vars => OutboxInv'
  BY TypeStep, DispatchStep, PendingStep, CountStep, LateStep, NewsStep DEF OutboxInv
<1> QED
  BY OutboxInvInit, <1>1, PTL DEF Spec

\* Every row, copy and counter keeps its type; in particular the retry count
\* that markRetry writes never passes the limit.
THEOREM OutboxTypeCorrect == Spec => []TypeOK
  BY OutboxInvariant, PTL DEF OutboxInv

\* No message waits in the queue for a subscription that is gone.
THEOREM PendingLive == Spec => []PendingIsLive
  BY OutboxInvariant, PTL DEF OutboxInv

\* A message is handed to the platform once more than it may be retried, plus
\* once per fault.
THEOREM Attempts == Spec => []AttemptsBounded
<1>1. OutboxInv => AttemptsBounded
  <2> SUFFICES ASSUME OutboxInv, NEW r \in Rows
               PROVE attempts[r] <= MaxRetries + 1 + faults
    BY DEF AttemptsBounded
  <2>1. /\ attempts[r] \in Nat /\ retries[r] \in 0..MaxRetries /\ faults \in Nat
    BY DEF OutboxInv, TypeOK
  <2>2. attempts[r] <= retries[r] + faults + 1
    BY <2>1 DEF OutboxInv, CountInv
  <2> QED
    BY <2>1, <2>2
<1> QED
  BY OutboxInvariant, <1>1, PTL

\* What the platform has taken is sent again only if its answer was lost, or
\* after a fault.
THEOREM Taking == Spec => []TakenOnce
<1>1. OutboxInv => TakenOnce
  BY DEF OutboxInv, TypeOK, CountInv, TakenOnce
<1> QED
  BY OutboxInvariant, <1>1, PTL

\* At most one message reaches the channel of a subscription after its deletion.
THEOREM Quiet == Spec => []DeletedIsQuiet
<1>1. OutboxInv => DeletedIsQuiet
  BY DEF OutboxInv, LateInv, DeletedIsQuiet
<1> QED
  BY OutboxInvariant, <1>1, PTL

\* When nothing fails, news reaches the queue of everyone it is owed to.
THEOREM News == Spec => []NewsReachesSubscribers
<1>1. OutboxInv => NewsReachesSubscribers
  BY DEF OutboxInv, NewsInv, OnItsWay, NewsReachesSubscribers
<1> QED
  BY OutboxInvariant, <1>1, PTL
=============================================================================
