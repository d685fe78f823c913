------------------------------ MODULE FreeTier ------------------------------
(***************************************************************************)
(* The free tier of the notification subscriptions: the limit that the     *)
(* subscribe handler enforces (internal/httpserver/user_routes.go), the    *)
(* sites that the dispatcher pushes (pushGrantFor in                       *)
(* internal/notifier/dispatcher.go) and those the page marks as paused     *)
(* (notifyPausedSiteIds in web/public/dashboard.js), for one user.         *)
(*                                                                         *)
(* The handler reads the membership, reads the sites and inserts in three  *)
(* calls; several requests of the user may run at once.                    *)
(***************************************************************************)
EXTENDS Naturals, Sequences, FiniteSets, SequencesExt

CONSTANTS
    FreeSites, FreeChannels,
    FreeLimit,
    Subscribers,    \* subscribe requests in progress
    MaxSubs         \* bound on the subscriptions

ASSUME FreeAssumption == {FreeLimit, MaxSubs} \subseteq Nat \ {0} /\ IsFiniteSet(Subscribers)

VARIABLES
    member,         \* an active membership
    subs,           \* notification_subscriptions, in the order of their ids
    request,        \* per handler: its step and what it inserts
    neverMember     \* history

freeVars == <<member, subs, request, neverMember>>

Subscription == [site : FreeSites, channel : FreeChannels]
NoRequest == [pc |-> "idle"]

FreeTypeOK ==
    /\ member \in BOOLEAN /\ neverMember \in BOOLEAN
    /\ subs \in Seq(Subscription)
    /\ \A i, j \in 1..Len(subs) : subs[i] = subs[j] => i = j
    /\ request \in [Subscribers -> {NoRequest} \cup
                      [pc : {"count", "insert"}, site : FreeSites, channel : FreeChannels]]

FreeInit ==
    /\ member \in BOOLEAN /\ neverMember = ~member
    /\ subs = <<>>
    /\ request = [h \in Subscribers |-> NoRequest]

-----------------------------------------------------------------------------
(* POST /me/notification-subscriptions.                                    *)

ReadMembership(h, site, channel) ==
    /\ request[h] = NoRequest
    /\ Len(subs) + Cardinality({o \in Subscribers : request[o] # NoRequest}) < MaxSubs
    /\ request' = [request EXCEPT ![h] = [pc |-> IF member THEN "insert" ELSE "count",
                                          site |-> site, channel |-> channel]]
    /\ UNCHANGED <<member, subs, neverMember>>

\* DistinctSubscriptionSites: every site at its earliest subscription.
First(s) == CHOOSE i \in 1..Len(subs) : subs[i].site = s /\ \A j \in 1..(i - 1) : subs[j].site # s
SubscribedSites == {subs[i].site : i \in 1..Len(subs)}
DistinctSites == [n \in 1..Cardinality(SubscribedSites) |->
    CHOOSE s \in SubscribedSites : Cardinality({t \in SubscribedSites : First(t) <= First(s)}) = n]

\* Another channel for a subscribed site is not counted.
CountSites(h) ==
    /\ request[h].pc = "count"
    /\ request' = [request EXCEPT ![h] =
          IF request[h].site \notin SubscribedSites /\ Len(DistinctSites) >= FreeLimit
            THEN NoRequest ELSE [@ EXCEPT !.pc = "insert"]]
    /\ UNCHANGED <<member, subs, neverMember>>

\* CreateSubscription gives the next id; UNIQUE refuses the same row again.
InsertSubscription(h) ==
    LET new == [site |-> request[h].site, channel |-> request[h].channel]
    IN  /\ request[h].pc = "insert"
        /\ subs' = IF new \in {subs[i] : i \in 1..Len(subs)} THEN subs ELSE Append(subs, new)
        /\ request' = [request EXCEPT ![h] = NoRequest]
        /\ UNCHANGED <<member, neverMember>>

Unsubscribe(i) ==
    /\ subs' = RemoveAt(subs, i)
    /\ UNCHANGED <<member, request, neverMember>>

MembershipChanges ==
    /\ member' = ~member /\ neverMember' = FALSE
    /\ UNCHANGED <<subs, request>>

FreeNext ==
    \/ MembershipChanges
    \/ \E i \in 1..Len(subs) : Unsubscribe(i)
    \/ \E h \in Subscribers :
          \/ CountSites(h) \/ InsertSubscription(h)
          \/ \E s \in FreeSites, c \in FreeChannels : ReadMembership(h, s, c)

FreeSpec == FreeInit /\ [][FreeNext]_freeVars

-----------------------------------------------------------------------------
(* What is pushed.                                                         *)

\* pushGrantFor and notifyPausedSiteIds: by id, the first FreeLimit sites.
WithSite(allowed, i) ==
    IF Cardinality(allowed) < FreeLimit THEN allowed \cup {subs[i].site} ELSE allowed
AllowedUpto[n \in 0..Len(subs)] == IF n = 0 THEN {} ELSE WithSite(AllowedUpto[n - 1], n)
AllowedSites == AllowedUpto[Len(subs)]

\* The sites that are pushed and not marked are those that the limit counts
\* first: the order of the SQL query and of the two loops is one.
GrantFollowsTheLimit ==
    AllowedSites = {DistinctSites[i] : i \in {j \in 1..Len(DistinctSites) : j <= FreeLimit}}

\* Requests that run at once may each take the last free place, so a user who
\* never was a member exceeds the limit by at most the others of them.
LimitSlipsByRequests ==
    neverMember => Cardinality(SubscribedSites) < FreeLimit + Cardinality(Subscribers)
=============================================================================
