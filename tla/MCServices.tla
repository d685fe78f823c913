----------------------------- MODULE MCServices -----------------------------
(* Eight components of the server that share no variable.  One run         *)
(* explores each alone, with the others in an initial state.               *)
EXTENDS SessionSync, AdminAuth, OAuthLogin, RateLimiter, TokenBucket, Reminders, FreeTier,
        Membership, TLC

VARIABLE part
parts == <<part, syncVars, adminVars, oauthVars, limiterVars, bucketVars,
             reminderVars, freeVars, vars>>

Components == {"sync", "admin", "oauth", "limiter", "bucket", "reminder",
         "free", "membership"}

ServicesInit ==
    /\ part \in Components
    /\ SyncInit /\ AdminInit /\ OAuthInit /\ LimiterInit /\ BucketInit
    /\ ReminderInit /\ FreeInit /\ Init
    /\ part # "reminder" => \A u \in Members : expires[u] = 7
    /\ part # "free" => ~member
    /\ part # "membership" => ~row

StepSync ==
    /\ part = "sync" /\ SyncNext
    /\ UNCHANGED <<adminVars, oauthVars, limiterVars, bucketVars,
                   reminderVars, freeVars, vars>>
StepAdmin ==
    /\ part = "admin" /\ AdminNext
    /\ UNCHANGED <<syncVars, oauthVars, limiterVars, bucketVars,
                   reminderVars, freeVars, vars>>
StepOAuth ==
    /\ part = "oauth" /\ OAuthNext
    /\ UNCHANGED <<syncVars, adminVars, limiterVars, bucketVars,
                   reminderVars, freeVars, vars>>
StepLimiter ==
    /\ part = "limiter" /\ LimiterNext
    /\ UNCHANGED <<syncVars, adminVars, oauthVars, bucketVars,
                   reminderVars, freeVars, vars>>
StepBucket ==
    /\ part = "bucket" /\ BucketNext
    /\ UNCHANGED <<syncVars, adminVars, oauthVars, limiterVars,
                   reminderVars, freeVars, vars>>
StepReminder ==
    /\ part = "reminder" /\ ReminderNext
    /\ UNCHANGED <<syncVars, adminVars, oauthVars, limiterVars,
                   bucketVars, freeVars, vars>>
StepFree ==
    /\ part = "free" /\ FreeNext
    /\ UNCHANGED <<syncVars, adminVars, oauthVars, limiterVars,
                   bucketVars, reminderVars, vars>>
StepMembership ==
    /\ part = "membership" /\ Next
    /\ UNCHANGED <<syncVars, adminVars, oauthVars, limiterVars,
                   bucketVars, reminderVars, freeVars>>

ServicesNext ==
    /\ part' = part
    /\ \/ StepSync \/ StepAdmin \/ StepOAuth \/ StepLimiter \/ StepBucket
       \/ StepReminder \/ StepFree \/ StepMembership

ServicesSpec == ServicesInit /\ [][ServicesNext]_parts

\* Orders that own intervals are interchangeable.
Symmetry == Permutations(Orders \ LegacyOrders)

\* The values all of these components can ever hold.
ServicesTypeOK ==
    /\ SyncTypeOK /\ AdminTypeOK /\ OAuthTypeOK /\ LimiterTypeOK /\ BucketTypeOK
    /\ ReminderTypeOK /\ FreeTypeOK /\ TypeOK

\* What limits somebody really limits him: the request windows of the server,
\* the bucket of the Telegram sender, the free tier's number of sites (which
\* requests at once may exceed by one each).
LimitsHold == WindowHolds /\ RateHolds /\ LimitSlipsByRequests /\ GrantFollowsTheLimit
=============================================================================
