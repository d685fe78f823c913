---------------------------- MODULE TokenBucket ----------------------------
(***************************************************************************)
(* The token bucket in front of every sender of the dispatcher             *)
(* (internal/notifier/ratelimit.go): worker goroutines poll it every       *)
(* 100 ms until it gives them a token.  Tokens are counted in parts, of    *)
(* which Rate come in with every unit of time and Part make a token; the   *)
(* clock is read under the mutex and is monotonic.                         *)
(***************************************************************************)
EXTENDS Naturals, Sequences, FiniteSetsExt

CONSTANTS
    Part, Rate, Burst,
    Polls,          \* workers in wait
    BucketEnd       \* bound on the clock

ASSUME BucketAssumption == {Part, Rate, Burst, BucketEnd} \subseteq Nat \ {0}

VARIABLES
    ticks,
    tokens, lastTime,
    waiting,        \* workers that wait for a token
    given           \* history: when tokens were given

bucketVars == <<ticks, tokens, lastTime, waiting, given>>

BucketTypeOK ==
    /\ ticks \in 1..BucketEnd
    /\ tokens \in 0..(Burst * Part)
    /\ lastTime \in 1..ticks
    /\ waiting \subseteq Polls
    /\ given \in Seq(1..BucketEnd)

BucketInit ==
    /\ ticks = 1 /\ tokens = Burst * Part /\ lastTime = 1
    /\ waiting = {} /\ given = <<>>

Wait(p) ==
    /\ p \notin waiting /\ waiting' = waiting \cup {p}
    /\ UNCHANGED <<ticks, tokens, lastTime, given>>

Refilled == Min({tokens + (ticks - lastTime) * Rate, Burst * Part})

TryAcquire(p) ==
    /\ p \in waiting
    /\ lastTime' = ticks
    /\ IF Refilled >= Part
         THEN /\ tokens' = Refilled - Part
              /\ waiting' = waiting \ {p} /\ given' = Append(given, ticks)
         ELSE tokens' = Refilled /\ UNCHANGED <<waiting, given>>
    /\ UNCHANGED ticks

\* The context is cancelled: the worker goes on without a token, to a request
\* that the same context ends.
Cancelled(p) ==
    /\ p \in waiting /\ waiting' = waiting \ {p}
    /\ UNCHANGED <<ticks, tokens, lastTime, given>>

BucketTick ==
    /\ ticks < BucketEnd /\ ticks' = ticks + 1
    /\ UNCHANGED <<tokens, lastTime, waiting, given>>

BucketNext ==
    BucketTick \/ \E p \in Polls : Wait(p) \/ TryAcquire(p) \/ Cancelled(p)

BucketSpec == BucketInit /\ [][BucketNext]_bucketVars

-----------------------------------------------------------------------------
\* Between any two tokens given, no more were given than the bucket holds and
\* what came in meanwhile pays for: polling in vain earns nothing.
RateHolds ==
    \A i, j \in 1..Len(given) :
        i <= j => (j - i + 1) * Part <= Burst * Part + (given[j] - given[i]) * Rate
=============================================================================
