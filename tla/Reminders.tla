----------------------------- MODULE Reminders -----------------------------
(***************************************************************************)
(* Renewal reminders (internal/notifier/dispatcher.go from                 *)
(* renewalReminderWindow on, internal/store/renewal_reminders.go).         *)
(*                                                                         *)
(* One goroutine reminds every member with a channel twice: once in the    *)
(* days before the expiry, once on the day of it.  A row claims a reminder *)
(* before it is sent and goes when no send came back as a success.         *)
(* Memberships and channels change while it works through its list; it may *)
(* crash.                                                                  *)
(***************************************************************************)
EXTENDS Naturals, Sequences

CONSTANTS
    Members, Channels,
    Expiries,       \* times at which a membership may end
    DayLength, RenewalWindow, ExpiryDayGrace,
    MaxReminderFaults, MaxMoves, ReminderEnd    \* bounds

ASSUME ReminderAssumption ==
    /\ {DayLength, RenewalWindow, ExpiryDayGrace, ReminderEnd} \subseteq Nat \ {0}
    /\ {MaxReminderFaults, MaxMoves} \subseteq Nat /\ Expiries \subseteq Nat \ {0}

\* 24, 48 and 72 hours in the code.
ASSUME GraceAssumption == 2 * DayLength <= ExpiryDayGrace /\ DayLength <= RenewalWindow

VARIABLES
    rNow,
    expires,         \* users.membership_expires_at, 0 for none
    enabled,        \* per user: channels with an enabled subscription
    claimed,        \* membership_renewal_reminders
    loop,           \* the goroutine: its step, what is left of its list
    sent,           \* history: how often each reminder went out
    unheard,        \* history: how often it did and no channel could say so
    abandoned,      \* history: claims that a crash or a failed release left
    ran,            \* the loop has run in this unit of time, for users who have
    steady,         \*   not changed since
    due,            \* history: reminders that were due at the end of a unit, to a
                    \*   user steady in it
    faults, moves   \* failed calls and crashes; changes of a membership or a channel

reminderVars == <<rNow, expires, enabled, claimed, loop, sent, unheard, abandoned, ran, steady,
                  due, faults, moves>>
world == <<rNow, expires, enabled, ran, steady, due, moves>>

Kinds == {"expiring", "expiry_day"}
Reminder == Members \X Expiries \X Kinds
IdleLoop == [pc |-> "idle", todo |-> {}, current |-> <<>>]

\* Whatever is sent was claimed.
ReminderTypeOK ==
    /\ rNow \in 1..ReminderEnd
    /\ expires \in [Members -> Expiries \cup {0}]
    /\ enabled \in [Members -> SUBSET Channels]
    /\ claimed \subseteq Reminder /\ abandoned \subseteq claimed /\ due \subseteq Reminder
    /\ loop \in [pc : {"idle", "list", "send", "release"}, todo : SUBSET Reminder,
                 current : Reminder \cup {<<>>}]
    /\ loop.pc \in {"send", "release"} => loop.current \in claimed
    /\ {sent, unheard} \subseteq [Reminder -> Nat]
    /\ ran \in BOOLEAN /\ steady \subseteq Members
    /\ faults \in 0..MaxReminderFaults /\ moves \in 0..MaxMoves

ReminderInit ==
    /\ rNow = 1
    /\ expires \in [Members -> Expiries] /\ enabled = [u \in Members |-> Channels]
    /\ claimed = {} /\ loop = IdleLoop
    /\ sent = [x \in Reminder |-> 0] /\ unheard = sent /\ abandoned = {}
    /\ ran = FALSE /\ steady = {} /\ due = {}
    /\ faults = 0 /\ moves = 0

Fail == faults < MaxReminderFaults /\ faults' = faults + 1

-----------------------------------------------------------------------------
(* The list.                                                               *)

DayStart(t) == t - (t % DayLength)

\* renewalReminderKinds.
KindsAt(e) ==
    {k \in Kinds : IF k = "expiring" THEN e > rNow
                   ELSE DayStart(e) <= rNow /\ rNow < DayStart(e) + ExpiryDayGrace}

\* ListRenewalReminderCandidates.
Candidate(u) ==
    /\ expires[u] # 0 /\ expires[u] + ExpiryDayGrace > rNow /\ expires[u] <= rNow + RenewalWindow
    /\ enabled[u] # {}

\* runRenewalReminders: list, and the kinds of all at the time of the list.
RunReminders ==
    /\ loop.pc = "idle" /\ ~ran
    /\ ran' = TRUE /\ steady' = Members
    /\ \/ /\ loop' = [pc |-> "list", current |-> <<>>,
             todo |-> {<<u, expires[u], k>> : u \in {v \in Members : Candidate(v)}, k \in Kinds}
                      \cap {x \in Reminder : x[3] \in KindsAt(x[2])}]
          /\ UNCHANGED faults
       \/ Fail /\ UNCHANGED loop
    /\ UNCHANGED <<rNow, expires, enabled, claimed, sent, unheard, abandoned, due, moves>>

-----------------------------------------------------------------------------
(* sendRenewalReminder.                                                    *)

Next1(x) == [pc |-> "list", todo |-> loop.todo \ {x}, current |-> <<>>]

\* INSERT OR IGNORE: claimed before, it is not sent again.
ClaimReminder(x) ==
    /\ loop.pc = "list" /\ x \in loop.todo
    /\ \/ /\ loop' = IF x \in claimed THEN Next1(x)
                     ELSE [pc |-> "send", todo |-> loop.todo, current |-> x]
          /\ claimed' = claimed \cup {x}
          /\ UNCHANGED faults
       \/ Fail /\ loop' = Next1(x) /\ UNCHANGED claimed
    /\ UNCHANGED <<world, sent, unheard, abandoned>>

\* The channels of which the call came back without an error, and the others
\* that got the reminder although theirs failed: the answer was lost, or did not
\* come in 15 seconds.
Deliver(x, done, silent) ==
    /\ IF done = enabled[x[1]] THEN UNCHANGED faults ELSE Fail
    /\ sent' = IF done \cup silent = {} THEN sent ELSE [sent EXCEPT ![x] = @ + 1]
    /\ unheard' = IF done = {} /\ silent # {} THEN [unheard EXCEPT ![x] = @ + 1] ELSE unheard

\* Variant: the claim stays when nothing was sent.
SendKeeping ==
    LET x == loop.current
    IN  /\ loop.pc = "send"
        /\ \E done \in SUBSET enabled[x[1]] : \E silent \in SUBSET (enabled[x[1]] \ done) :
              /\ Deliver(x, done, silent)
              /\ loop' = Next1(x)
        /\ UNCHANGED <<world, claimed, abandoned>>

\* Every enabled channel of the user is tried; one that says so is enough.
SendReminder ==
    LET x == loop.current
    IN  /\ loop.pc = "send"
        /\ \E done \in SUBSET enabled[x[1]] : \E silent \in SUBSET (enabled[x[1]] \ done) :
              /\ Deliver(x, done, silent)
              /\ loop' = IF done = {} THEN [loop EXCEPT !.pc = "release"] ELSE Next1(x)
        /\ UNCHANGED <<world, claimed, abandoned>>

ReleaseReminder ==
    LET x == loop.current
    IN  /\ loop.pc = "release" /\ loop' = Next1(x)
        /\ \/ claimed' = claimed \ {x} /\ UNCHANGED <<abandoned, faults>>
           \/ Fail /\ abandoned' = abandoned \cup {x} /\ UNCHANGED claimed
        /\ UNCHANGED <<world, sent, unheard>>

ListDone ==
    /\ loop.pc = "list" /\ loop.todo = {} /\ loop' = IdleLoop
    /\ UNCHANGED <<world, claimed, sent, unheard, abandoned, faults>>

-----------------------------------------------------------------------------
(* The world.                                                              *)

\* The process stops, perhaps with a reminder claimed, and starts again.
CrashReminders ==
    /\ loop.pc # "idle" /\ Fail
    /\ abandoned' = abandoned \cup ({loop.current} \cap claimed)
    /\ loop' = IdleLoop /\ ran' = FALSE
    /\ UNCHANGED <<rNow, expires, enabled, claimed, sent, unheard, steady, due, moves>>

Move(u) == moves < MaxMoves /\ moves' = moves + 1 /\ steady' = steady \ {u}

\* A purchase, a refund or an administrator.
MoveExpiry(u) ==
    /\ Move(u)
    /\ \E e \in Expiries \cup {0} : e # expires[u] /\ expires' = [expires EXCEPT ![u] = e]
    /\ UNCHANGED <<rNow, enabled, claimed, loop, sent, unheard, abandoned, ran, due,
                   faults>>

MoveChannel(u, c) ==
    /\ Move(u)
    /\ enabled' = [enabled EXCEPT ![u] = IF c \in @ THEN @ \ {c} ELSE @ \cup {c}]
    /\ UNCHANGED <<rNow, expires, claimed, loop, sent, unheard, abandoned, ran, due,
                   faults>>

\* What the product promises a user with a channel: a reminder in the window
\* before the expiry, another on the day of it or the day after.
Promised(u, k) ==
    LET e == expires[u]
    IN  /\ e # 0 /\ enabled[u] # {}
        /\ IF k = "expiring" THEN rNow < e /\ e <= rNow + RenewalWindow
           ELSE rNow \div DayLength - e \div DayLength \in {0, 1} /\ rNow >= DayStart(e)

\* The hourly loop runs in every unit of time.
ReminderTick ==
    /\ ran /\ loop.pc = "idle"
    /\ rNow < ReminderEnd /\ rNow' = rNow + 1
    /\ ran' = FALSE /\ steady' = {}
    /\ due' = due \cup {x \in Reminder : /\ x[1] \in steady /\ expires[x[1]] = x[2]
                                         /\ Promised(x[1], x[3])}
    /\ UNCHANGED <<expires, enabled, claimed, loop, sent, unheard, abandoned, faults,
                   moves>>

ReminderNext ==
    \/ RunReminders \/ SendReminder \/ ReleaseReminder \/ ListDone
    \/ CrashReminders \/ ReminderTick
    \/ \E x \in Reminder : ClaimReminder(x)
    \/ \E u \in Members : MoveExpiry(u) \/ \E c \in Channels : MoveChannel(u, c)

ReminderSpec == ReminderInit /\ [][ReminderNext]_reminderVars

-----------------------------------------------------------------------------
(* Properties.                                                             *)

\* For one expiry a reminder goes out again only when no channel could say that
\* it had, whatever else fails and whenever the process restarts.
RemindedOnce == \A x \in Reminder : sent[x] <= 1 + unheard[x]

\* A claim that is not being worked on was sent, or a crash or a failed release
\* has left it: nobody else keeps a user from being reminded.
ClaimsAreSpent ==
    \A x \in claimed : \/ sent[x] = 1 + unheard[x]
                       \/ x \in abandoned
                       \/ loop.pc \in {"send", "release"} /\ loop.current = x

\* Without such faults every promised reminder went out, once, also to a user
\* who got a channel or moved the expiry late.
PromisesKept == faults = 0 => \A x \in due : sent[x] = 1

\* What members may expect of their reminders: the three of them.
RemindersKeepPromises == RemindedOnce /\ ClaimsAreSpent /\ PromisesKept
=============================================================================
