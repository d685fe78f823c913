---------------------------- MODULE RateLimiter ----------------------------
(***************************************************************************)
(* The sliding window in front of redeeming, wishing and pledging          *)
(* (rateLimiter in internal/httpserver/user_routes.go), for one user: the  *)
(* users' windows are independent.                                         *)
(*                                                                         *)
(* A handler reads the clock before it waits for the mutex, so handlers    *)
(* may enter in another order than they read, at most Lag later.           *)
(***************************************************************************)
EXTENDS Naturals, Sequences, FiniteSets

CONSTANTS
    Requests,       \* handlers of the user's requests
    Limit, Window,
    Lag,            \* the longest wait for the mutex
    LimiterEnd      \* bound on the clock

ASSUME LimiterAssumption ==
    {Limit, Window, LimiterEnd} \subseteq Nat \ {0} /\ Lag \in Nat

VARIABLES
    time,
    reading,        \* per handler: the clock it read, 0 outside of allow
    events,         \* rateLimiter.events of the user
    allowed         \* history: when the last requests were let in

limiterVars == <<time, reading, events, allowed>>

LimiterTypeOK ==
    /\ time \in 1..LimiterEnd
    /\ reading \in [Requests -> 0..LimiterEnd]
    /\ events \in Seq(1..LimiterEnd) /\ Len(events) <= Limit
    /\ allowed \in Seq(1..LimiterEnd)

LimiterInit ==
    /\ time = 1 /\ reading = [r \in Requests |-> 0]
    /\ events = <<>> /\ allowed = <<>>

ReadClock(r) ==
    /\ reading[r] = 0
    /\ reading' = [reading EXCEPT ![r] = time]
    /\ UNCHANGED <<time, events, allowed>>

\* The events that are recent, in their order; one read later than now is.
RecentAt(now) == {i \in 1..Len(events) : now < events[i] + Window}
Recent(now) == [n \in 1..Cardinality(RecentAt(now)) |->
    events[CHOOSE i \in RecentAt(now) : Cardinality({j \in RecentAt(now) : j <= i}) = n]]

\* Variant: a request that is turned away extends the window, one let in ends it.
AllowAnew(r) ==
    LET now == reading[r]
    IN  /\ now # 0
        /\ reading' = [reading EXCEPT ![r] = 0]
        /\ IF Len(Recent(now)) >= Limit
             THEN events' = Recent(now) /\ UNCHANGED allowed
             ELSE events' = <<now>> /\ allowed' = Append(allowed, time)
        /\ UNCHANGED time

\* allow, under the mutex.
Allow(r) ==
    LET now == reading[r]
    IN  /\ now # 0
        /\ reading' = [reading EXCEPT ![r] = 0]
        /\ IF Len(Recent(now)) >= Limit
             THEN events' = Recent(now) /\ UNCHANGED allowed
             ELSE /\ events' = Append(Recent(now), now)
                  /\ allowed' = LET seq == Append(allowed, time)
                                IN  IF Len(seq) > Limit + 1 THEN Tail(seq) ELSE seq
        /\ UNCHANGED time

\* Time waits for a handler at most Lag.
LimiterTick ==
    /\ time < LimiterEnd /\ time' = time + 1
    /\ \A r \in Requests : reading[r] = 0 \/ time < reading[r] + Lag
    /\ UNCHANGED <<reading, events, allowed>>

LimiterNext == LimiterTick \/ \E r \in Requests : ReadClock(r) \/ Allow(r)

LimiterSpec == LimiterInit /\ [][LimiterNext]_limiterVars

-----------------------------------------------------------------------------
\* In any time shorter than the window by the wait for the mutex at most Limit
\* requests are let in, in whatever order the handlers read the clock.
WindowHolds ==
    \A i \in 1..Len(allowed) :
        i + Limit <= Len(allowed) => allowed[i + Limit] - allowed[i] >= Window - Lag
=============================================================================
