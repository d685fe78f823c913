------------------------------- MODULE Outbox -------------------------------
(***************************************************************************)
(* Announcement push: the versions ApplyAnnouncements finds new are queued *)
(* per subscription by a goroutine of their own (Dispatcher.Enqueue), one  *)
(* dispatcher sends what is queued and retries, and users create, repoint  *)
(* and delete their subscriptions meanwhile (internal/notifier and         *)
(* internal/store/notifications.go, announcements.go).                     *)
(*                                                                         *)
(* One site is modelled; its subscribers are members, so that no push is   *)
(* paused, and rows of before content versions do not occur.  The end of   *)
(* the process, by a crash or by a shutdown that waits for neither the     *)
(* queueing nor the platform, loses its memory at any step, and the        *)
(* process is taken to be up again at once.                                *)
(***************************************************************************)
EXTENDS Naturals

CONSTANTS
    Users,
    MaxSub,         \* bound on the subscription ids
    Targets,        \* channels: a platform and a target on it
    Served,         \* the channels whose platform has a sender
    Versions,       \* (announcement, content hash) pairs of the site
    Queuers,        \* Enqueue goroutines at once
    MaxRetries,     \* markRetry gives up at this retry count, five
    NoUser, NoEntry,
    MaxFaults       \* bound on failed database calls and process ends

Subs == 1..MaxSub

ASSUME OutboxAssumption == /\ MaxSub \in Nat /\ MaxRetries \in Nat
                           /\ Served \subseteq Targets /\ Targets # {}
                           /\ NoUser \notin Users
ASSUME OutboxFaultsAssumption == MaxFaults \in Nat

VARIABLES
    \* rows of SQLite
    owner, target,  \* notification_subscriptions; NoUser where there is no row
    ledger,         \* announcement_versions
    status,         \* notification_outbox.status per subscription and version:
                    \* "none" for no row, "due" for a retry whose time has come
    rowTarget,      \* notification_outbox.target (and platform)
    retries,        \* notification_outbox.retry_count
    \* memory of the process
    todo, found,    \* per Enqueue goroutine: versions not looked at yet, and
                    \* the subscriptions read for the current one
    batch,          \* what is left of the dispatcher's batch
    entry, stage,   \* the entry sendOne is at, and how far it is
    repointing,     \* channel changes between their two updates
    \* history
    attempts, accepted, \* messages handed to the platform, and taken by it
    unheard,        \* of those taken, the ones whose answer did not arrive
    late,           \* messages sent for a subscription after its deletion
    owed,           \* who was subscribed when a version became news
    faults

subs == <<owner, target>>
outbox == <<status, rowTarget, retries>>
queuer == <<todo, found>>
dispatcher == <<batch, entry, stage>>
counts == <<attempts, accepted, unheard, late>>
history == <<attempts, accepted, unheard, late, owed>>
vars == <<subs, ledger, outbox, queuer, dispatcher, repointing, history, faults>>

Rows == Subs \X Versions
Queued == {"pending", "retry", "due"}
Live(s) == owner[s] # NoUser

Found == [sub : Subs, ver : Versions, target : Targets]
Entry == [sub : Subs, ver : Versions, target : Targets, retries : Nat]

ASSUME NoEntryAssumption == NoEntry \notin Entry

TypeOK ==
    /\ owner \in [Subs -> Users \cup {NoUser}]
    /\ target \in [Subs -> Targets]
    /\ ledger \subseteq Versions
    /\ status \in [Rows -> Queued \cup {"none", "sent", "failed", "cancelled"}]
    /\ rowTarget \in [Rows -> Targets]
    /\ retries \in [Rows -> 0..MaxRetries]
    /\ todo \in [Queuers -> SUBSET Versions]
    /\ found \in [Queuers -> SUBSET Found]
    /\ batch \subseteq Entry
    /\ entry \in Entry \cup {NoEntry}
    /\ stage \in {"idle", "send", "sent", "retry", "failed"}
    /\ stage # "idle" <=> entry # NoEntry
    /\ repointing \subseteq Users \X Targets
    /\ {attempts, accepted, unheard} \subseteq [Rows -> Nat]
    /\ late \in [Subs -> Nat]
    /\ owed \subseteq Rows
    /\ faults \in 0..MaxFaults

\* What a column of a row that does not exist is taken to hold.
AnyTarget == CHOOSE t \in Targets : TRUE

Init ==
    /\ owner = [s \in Subs |-> NoUser]
    /\ target = [s \in Subs |-> AnyTarget]
    /\ ledger = {}
    /\ status = [r \in Rows |-> "none"]
    /\ rowTarget = [r \in Rows |-> AnyTarget]
    /\ retries = [r \in Rows |-> 0]
    /\ todo = [q \in Queuers |-> {}] /\ found = [q \in Queuers |-> {}]
    /\ batch = {} /\ entry = NoEntry /\ stage = "idle"
    /\ repointing = {}
    /\ attempts = [r \in Rows |-> 0]
    /\ accepted = [r \in Rows |-> 0] /\ unheard = [r \in Rows |-> 0]
    /\ late = [s \in Subs |-> 0]
    /\ owed = {}
    /\ faults = 0

CallFails == faults < MaxFaults /\ faults' = faults + 1

-----------------------------------------------------------------------------
(* Subscriptions, one HTTP handler per action.                             *)

\* The ids CreateSubscription and its history tables refer to.
UsedIds == {s \in Subs : Live(s) \/ \E v \in Versions : status[<<s, v>>] # "none"}

\* CreateSubscription: the id after the highest one still referred to.
CreateSubscription(u, t) ==
    /\ ~ \E s \in Subs : owner[s] = u /\ target[s] = t
    /\ \E s \in Subs :
          /\ \A i \in UsedIds : i < s
          /\ s = 1 \/ s - 1 \in UsedIds
          /\ owner' = [owner EXCEPT ![s] = u]
          /\ target' = [target EXCEPT ![s] = t]
    /\ UNCHANGED <<ledger, outbox, queuer, dispatcher, repointing, history, faults>>

\* UpdateSubscriptionChannel, first update.  Two channels of one user on the
\* site would become equal rows, and the whole update fails.
UpdateChannel(u, t) ==
    /\ \E s \in Subs :
          /\ owner[s] = u /\ \A i \in Subs : owner[i] = u => i = s
          /\ target' = [target EXCEPT ![s] = t]
    /\ repointing' = repointing \cup {<<u, t>>}
    /\ owed' = IF t \in Served THEN owed ELSE {r \in owed : owner[r[1]] # u}
    /\ UNCHANGED <<owner, ledger, outbox, queuer, dispatcher, counts, faults>>

\* Second update: queued entries follow.
Repoint(u, t) ==
    /\ <<u, t>> \in repointing /\ repointing' = repointing \ {<<u, t>>}
    /\ \/ /\ rowTarget' = [r \in Rows |->
                 IF owner[r[1]] = u /\ status[r] \in Queued THEN t ELSE rowTarget[r]]
          /\ UNCHANGED faults
       \/ CallFails /\ UNCHANGED rowTarget
    /\ UNCHANGED <<subs, ledger, status, retries, queuer, dispatcher, history>>

\* DeleteSubscription cancels what is queued and deletes the row.
DeleteSubscription(s) ==
    /\ Live(s)
    /\ owner' = [owner EXCEPT ![s] = NoUser]
    /\ status' = [r \in Rows |->
                    IF r[1] = s /\ status[r] \in Queued THEN "cancelled" ELSE status[r]]
    /\ owed' = {r \in owed : r[1] # s}
    /\ UNCHANGED <<target, ledger, rowTarget, retries, queuer, dispatcher, repointing,
                   counts, faults>>

-----------------------------------------------------------------------------
(* Queueing.                                                               *)

\* ApplyAnnouncements remembers the versions; the first ones of a site are its
\* history, later unseen ones are news and start a goroutine.
Announce(versions) ==
    /\ versions # {} /\ ledger' = ledger \cup versions
    /\ LET news == IF ledger = {} THEN {} ELSE versions \ ledger
       IN  IF news = {}
             THEN UNCHANGED <<todo, owed>>
             ELSE /\ owed' = owed \cup {r \in Rows : /\ Live(r[1]) /\ r[2] \in news
                                                    /\ target[r[1]] \in Served}
                  /\ \E q \in Queuers : /\ todo[q] = {} /\ found[q] = {}
                                        /\ todo' = [todo EXCEPT ![q] = news]
    /\ UNCHANGED <<subs, outbox, found, dispatcher, repointing, counts, faults>>

\* Variant: the walk ends with the first announcement.
ListFirstOnly(q) ==
    /\ found[q] = {}
    /\ \E v \in todo[q] :
          /\ todo' = [todo EXCEPT ![q] = {}]
          /\ found' = [found EXCEPT ![q] =
                 {[sub |-> s, ver |-> v, target |-> target[s]] :
                    s \in {i \in Subs : Live(i) /\ target[i] \in Served}}]
    /\ UNCHANGED <<subs, ledger, outbox, dispatcher, repointing, history, faults>>

\* Enqueue reads the site's subscriptions for the next announcement.
ListSubscriptions(q) ==
    /\ found[q] = {}
    /\ \E v \in todo[q] :
          /\ todo' = [todo EXCEPT ![q] = @ \ {v}]
          /\ \/ /\ found' = [found EXCEPT ![q] =
                     {[sub |-> s, ver |-> v, target |-> target[s]] :
                        s \in {i \in Subs : Live(i) /\ target[i] \in Served}}]
                /\ UNCHANGED faults
             \/ CallFails /\ UNCHANGED found
    /\ UNCHANGED <<subs, ledger, outbox, dispatcher, repointing, history>>

\* Variant: a subscription deleted meanwhile is not noticed.
EnqueueUnchecked(q) ==
    /\ \E f \in found[q] :
          LET r == <<f.sub, f.ver>> IN
          /\ found' = [found EXCEPT ![q] = @ \ {f}]
          /\ \/ /\ status[r] = "none"
                /\ status' = [status EXCEPT ![r] = "pending"]
                /\ rowTarget' = [rowTarget EXCEPT ![r] = f.target]
             \/ status[r] # "none" /\ UNCHANGED <<status, rowTarget>>
    /\ UNCHANGED <<subs, ledger, retries, todo, dispatcher, repointing, history, faults>>

\* EnqueueNotification: one row per subscription and version, and only while
\* the subscription is there.
EnqueueNotification(q) ==
    /\ \E f \in found[q] :
          LET r == <<f.sub, f.ver>> IN
          /\ found' = [found EXCEPT ![q] = @ \ {f}]
          /\ \/ /\ Live(f.sub) /\ status[r] = "none"
                /\ status' = [status EXCEPT ![r] = "pending"]
                /\ rowTarget' = [rowTarget EXCEPT ![r] = f.target]
                /\ UNCHANGED faults
             \/ /\ ~Live(f.sub) \/ status[r] # "none"
                /\ UNCHANGED <<status, rowTarget, faults>>
             \/ CallFails /\ UNCHANGED <<status, rowTarget>>
    /\ UNCHANGED <<subs, ledger, retries, todo, dispatcher, repointing, history>>

-----------------------------------------------------------------------------
(* The dispatcher, one goroutine.                                          *)

\* next_retry_at is reached.
Due(r) ==
    /\ status[r] = "retry" /\ status' = [status EXCEPT ![r] = "due"]
    /\ UNCHANGED <<subs, ledger, rowTarget, retries, queuer, dispatcher, repointing,
                   history, faults>>

\* Variant: a retry that is due is not listed.
ListPendingOnly ==
    /\ batch = {} /\ entry = NoEntry
    /\ batch' = {[sub |-> r[1], ver |-> r[2], target |-> rowTarget[r],
                  retries |-> retries[r]] :
                    r \in {p \in Rows : status[p] = "pending" /\ Live(p[1])}}
    /\ batch' # {}
    /\ UNCHANGED <<subs, ledger, outbox, queuer, entry, stage, repointing, history,
                   faults>>

\* ListPendingNotifications copies the rows that are ready.
ListPending ==
    /\ batch = {} /\ entry = NoEntry
    /\ batch' = {[sub |-> r[1], ver |-> r[2], target |-> rowTarget[r],
                  retries |-> retries[r]] :
                    r \in {p \in Rows : status[p] \in {"pending", "due"} /\ Live(p[1])}}
    /\ batch' # {}
    /\ UNCHANGED <<subs, ledger, outbox, queuer, entry, stage, repointing, history,
                   faults>>

RowOf(e) == <<e.sub, e.ver>>

\* Variant: a batch is sent as it was read.
CheckNothing ==
    /\ entry = NoEntry
    /\ \E e \in batch :
          /\ batch' = batch \ {e} /\ entry' = e
          /\ stage' = IF e.target \in Served THEN "send" ELSE "failed"
    /\ UNCHANGED <<subs, ledger, outbox, queuer, repointing, history, faults>>

\* The next entry: failed where no sender serves its platform, dropped when
\* NotificationCanSend says it is no longer queued, else sent.
Check ==
    /\ entry = NoEntry
    /\ \E e \in batch :
          /\ batch' = batch \ {e}
          /\ \/ /\ e.target \notin Served
                /\ entry' = e /\ stage' = "failed" /\ UNCHANGED faults
             \/ /\ e.target \in Served
                /\ Live(e.sub) /\ status[RowOf(e)] \in Queued
                /\ entry' = e /\ stage' = "send" /\ UNCHANGED faults
             \/ /\ e.target \in Served
                /\ ~Live(e.sub) \/ status[RowOf(e)] \notin Queued
                /\ UNCHANGED <<entry, stage, faults>>
             \/ e.target \in Served /\ CallFails /\ UNCHANGED <<entry, stage>>
    /\ UNCHANGED <<subs, ledger, outbox, queuer, repointing, history>>

\* Sender.Send to the target the batch was read with.  It fails when the
\* platform says so, and when no answer comes in 30 seconds or the connection
\* breaks: the platform may have taken the message then.
Send ==
    /\ stage = "send"
    /\ attempts' = [attempts EXCEPT ![RowOf(entry)] = @ + 1]
    /\ late' = IF Live(entry.sub) THEN late ELSE [late EXCEPT ![entry.sub] = @ + 1]
    /\ \E taken, answered \in BOOLEAN :
          /\ accepted' = IF taken THEN [accepted EXCEPT ![RowOf(entry)] = @ + 1] ELSE accepted
          /\ unheard' = IF taken /\ ~answered THEN [unheard EXCEPT ![RowOf(entry)] = @ + 1]
                                             ELSE unheard
          /\ stage' = IF taken /\ answered THEN "sent"
                      ELSE IF entry.retries >= MaxRetries THEN "failed" ELSE "retry"
    /\ UNCHANGED <<subs, ledger, outbox, queuer, batch, entry, repointing, owed,
                   faults>>

\* Variant: a retry does not count.
RecordUncounted ==
    /\ stage \in {"sent", "retry", "failed"}
    /\ stage' = "idle" /\ entry' = NoEntry
    /\ status' = [status EXCEPT ![RowOf(entry)] = stage]
    /\ UNCHANGED <<subs, ledger, rowTarget, retries, queuer, batch, repointing, history,
                   faults>>

\* Variant: a success is not recorded.
RecordFailuresOnly ==
    /\ stage \in {"sent", "retry", "failed"}
    /\ stage' = "idle" /\ entry' = NoEntry
    /\ IF stage = "sent" THEN UNCHANGED status
                         ELSE status' = [status EXCEPT ![RowOf(entry)] = stage]
    /\ UNCHANGED <<subs, ledger, rowTarget, retries, queuer, batch, repointing, history,
                   faults>>

\* MarkNotificationSent, ScheduleNotificationRetry or MarkNotificationFailed
\* write whatever the row says by now; an error is only logged.
Record ==
    /\ stage \in {"sent", "retry", "failed"}
    /\ stage' = "idle" /\ entry' = NoEntry
    /\ \/ /\ status' = [status EXCEPT ![RowOf(entry)] = stage]
          /\ retries' = IF stage = "retry"
                           THEN [retries EXCEPT ![RowOf(entry)] = entry.retries + 1]
                           ELSE retries
          /\ UNCHANGED faults
       \/ CallFails /\ UNCHANGED <<status, retries>>
    /\ UNCHANGED <<subs, ledger, rowTarget, queuer, batch, repointing, history>>

\* The process ends, with its goroutines and batch, and starts again.
Crash ==
    /\ CallFails
    /\ todo' = [q \in Queuers |-> {}] /\ found' = [q \in Queuers |-> {}]
    /\ batch' = {} /\ entry' = NoEntry /\ stage' = "idle"
    /\ repointing' = {}
    /\ UNCHANGED <<subs, ledger, outbox, history>>

Queue(q) == ListSubscriptions(q) \/ EnqueueNotification(q)
Dispatch == Check \/ Send \/ Record

Next ==
    \/ \E u \in Users, t \in Targets :
          CreateSubscription(u, t) \/ UpdateChannel(u, t) \/ Repoint(u, t)
    \/ \E s \in Subs : DeleteSubscription(s)
    \/ \E versions \in SUBSET Versions : Announce(versions)
    \/ \E q \in Queuers : Queue(q)
    \/ \E r \in Rows : Due(r)
    \/ ListPending \/ Dispatch \/ Crash

\* The dispatcher's ticks, its sends (30 seconds each) and time go on.
Fairness ==
    /\ WF_vars(ListPending) /\ WF_vars(Dispatch)
    /\ \A r \in Rows : WF_vars(Due(r))

Spec == Init /\ [][Next]_vars
FairSpec == Spec /\ Fairness

-----------------------------------------------------------------------------
(* Properties.                                                             *)

\* Nothing waits in the queue for a subscription that is gone, although
\* Enqueue works from a list of subscriptions read earlier.
PendingIsLive == \A r \in Rows : status[r] = "pending" => Live(r[1])

\* A message is handed to the platform at most once more than it may be
\* retried, plus once for each result that could not be written.
AttemptsBounded == \A r \in Rows : attempts[r] <= MaxRetries + 1 + faults

\* What the platform has taken is sent again only if its answer was lost or was
\* not recorded, however often its announcement is collected and queued.
TakenOnce == \A r \in Rows : accepted[r] <= 1 + unheard[r] + faults

\* After a subscription is deleted at most the message in flight reaches its
\* channel; what else the dispatcher has in its batch is dropped.
DeletedIsQuiet == \A s \in Subs : late[s] <= 1

\* When nothing fails, a version that was news reaches the queue of everyone
\* who was subscribed at the time and still is.
NewsReachesSubscribers ==
    faults = 0 /\ (\A q \in Queuers : todo[q] = {} /\ found[q] = {})
        => \A r \in owed : status[r] # "none"

\* What is queued is sent or given up, unless the subscription goes.
QueuedIsSettled ==
    \A r \in Rows :
        status[r] \in Queued ~> status[r] \notin Queued \/ ~Live(r[1])

\* store/notifications.go: what is queued follows a channel change, so that
\* nothing still flies to the old channel, and a test says that a new
\* subscription revives no old message.  But Enqueue inserts the target it has
\* read before the channel changed, or before the subscription was deleted and
\* its id given to another one.
QueueFollowsChannel ==
    \A r \in Rows :
        /\ status[r] \in Queued /\ Live(r[1])
        /\ ~ \E t \in Targets : <<owner[r[1]], t>> \in repointing
        => rowTarget[r] = target[r[1]]
=============================================================================
