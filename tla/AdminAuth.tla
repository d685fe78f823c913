----------------------------- MODULE AdminAuth -----------------------------
(***************************************************************************)
(* The administrator's password login (internal/admin/auth.go and the      *)
(* login and logout handlers of internal/httpserver/admin_routes.go).      *)
(*                                                                         *)
(* Sessions, their CSRF tokens and the failed attempts of each address     *)
(* live in memory under one mutex; a restart forgets them.  Every call     *)
(* that looks something up first removes what has expired.  Login and the  *)
(* issue of the CSRF token are two calls of one handler.                   *)
(***************************************************************************)
EXTENDS Naturals, Sequences

CONSTANTS
    Addresses, AdminTokens,
    MaxFailures, LockTime, FailureWindow, AdminTTL,
    AdminEnd        \* bound on the clock

ASSUME AdminAssumption ==
    /\ {MaxFailures, LockTime, FailureWindow, AdminTTL, AdminEnd} \subseteq Nat \ {0}
    /\ LockTime <= FailureWindow

VARIABLES
    adminNow,
    session,        \* per token: whether it was issued, and its expiry
    csrf,           \* the tokens that have a CSRF token
    failures,       \* per address: count, locked until, last failure; 0 for never
    failed          \* history: when the last compares of an address failed, since
                    \* its last success or the last restart

adminVars == <<adminNow, session, csrf, failures, failed>>

NoFailure == [count |-> 0, until |-> 0, last |-> 0]

AdminTypeOK ==
    /\ adminNow \in 1..AdminEnd
    /\ session \in [AdminTokens -> [state : {"new", "live", "gone"}, expires : 0..(AdminEnd + AdminTTL)]]
    /\ csrf \subseteq AdminTokens
    /\ failures \in [Addresses -> [count : 0..(MaxFailures - 1),
                                   until : 0..(AdminEnd + LockTime), last : 0..AdminEnd]]
    /\ failed \in [Addresses -> Seq(1..AdminEnd)]

AdminInit ==
    /\ adminNow = 1
    /\ session = [k \in AdminTokens |-> [state |-> "new", expires |-> 0]]
    /\ csrf = {}
    /\ failures = [a \in Addresses |-> NoFailure]
    /\ failed = [a \in Addresses |-> <<>>]

-----------------------------------------------------------------------------
(* cleanupExpiredLocked.                                                   *)

ExpiredSession(k) == session[k].state = "live" /\ session[k].expires <= adminNow
LiveSessions == [k \in AdminTokens |->
                   IF ExpiredSession(k) THEN [session[k] EXCEPT !.state = "gone"] ELSE session[k]]

LiveCSRF == {k \in csrf : ~ExpiredSession(k)}

\* Variant: an address is forgotten when its lock has ended.
ForgottenEarly(a) == failures[a].until <= adminNow

Forgotten(a) == /\ failures[a].until <= adminNow
                /\ failures[a].last # 0 /\ adminNow - failures[a].last >= FailureWindow
LiveFailures == [a \in Addresses |-> IF Forgotten(a) THEN NoFailure ELSE failures[a]]

-----------------------------------------------------------------------------
(* The calls.                                                              *)

\* Keep what the invariant looks at.
LastOf(seq) == IF Len(seq) > MaxFailures + 1 THEN Tail(seq) ELSE seq

\* The attempt that reaches the limit locks the address and starts a new count.
CountFailure(f) ==
    IF f.count + 1 >= MaxFailures
      THEN [count |-> 0, until |-> adminNow + LockTime, last |-> adminNow]
      ELSE [f EXCEPT !.count = @ + 1, !.last = adminNow]

\* A locked address is turned away before the password is compared.
TryLogin(a, right, k) ==
    /\ session[k].state = "new"
    /\ csrf' = LiveCSRF
    /\ \/ /\ LiveFailures[a].until > adminNow
          /\ failures' = LiveFailures /\ session' = LiveSessions
          /\ UNCHANGED failed
       \/ /\ LiveFailures[a].until <= adminNow /\ ~right
          /\ failures' = [LiveFailures EXCEPT ![a] = CountFailure(@)]
          /\ failed' = [failed EXCEPT ![a] = LastOf(Append(@, adminNow))]
          /\ session' = LiveSessions
       \/ /\ LiveFailures[a].until <= adminNow /\ right
          /\ failures' = [LiveFailures EXCEPT ![a] = NoFailure]
          /\ failed' = [failed EXCEPT ![a] = <<>>]
          /\ session' = [LiveSessions EXCEPT ![k] =
                           [state |-> "live", expires |-> adminNow + AdminTTL]]
    /\ UNCHANGED adminNow

\* NewCSRFToken, the second call of the login handler.
IssueCSRF(k) ==
    /\ session[k].state = "live" /\ k \notin csrf
    /\ session' = LiveSessions /\ failures' = LiveFailures
    /\ csrf' = IF ExpiredSession(k) THEN LiveCSRF ELSE LiveCSRF \cup {k}
    /\ UNCHANGED <<adminNow, failed>>

\* Middleware and csrfMiddleware in front of every administrator's request.
Authorized(k) == session[k].state = "live" /\ ~ExpiredSession(k) /\ k \in csrf
Request(k) ==
    /\ Authorized(k)
    /\ session' = LiveSessions /\ csrf' = LiveCSRF /\ failures' = LiveFailures
    /\ UNCHANGED <<adminNow, failed>>

AdminLogout(k) ==
    /\ Authorized(k)
    /\ session' = [LiveSessions EXCEPT ![k].state = "gone"]
    /\ csrf' = LiveCSRF \ {k} /\ failures' = LiveFailures
    /\ UNCHANGED <<adminNow, failed>>

AdminTick ==
    /\ adminNow < AdminEnd /\ adminNow' = adminNow + 1
    /\ UNCHANGED <<session, csrf, failures, failed>>

AdminRestart ==
    /\ session' = [k \in AdminTokens |-> IF session[k].state = "live"
                     THEN [session[k] EXCEPT !.state = "gone"] ELSE session[k]]
    /\ csrf' = {}
    /\ failures' = [a \in Addresses |-> NoFailure]
    /\ failed' = [a \in Addresses |-> <<>>]
    /\ UNCHANGED adminNow

AdminNext ==
    \/ AdminTick \/ AdminRestart
    \/ \E k \in AdminTokens :
          \/ IssueCSRF(k) \/ Request(k) \/ AdminLogout(k)
          \/ \E a \in Addresses, right \in BOOLEAN : TryLogin(a, right, k)

AdminSpec == AdminInit /\ [][AdminNext]_adminVars

-----------------------------------------------------------------------------
(* Properties.                                                             *)

\* One address compares at most MaxFailures wrong passwords in any LockTime,
\* however the attempts, the lock, the window after which an address is
\* forgotten and the attempts of other addresses fall together.
GuessingIsSlow ==
    \A a \in Addresses : LET f == failed[a]
                         IN  Len(f) > MaxFailures => f[Len(f)] - f[1] >= LockTime

\* A CSRF token dies with its session: nothing is accepted with one alone.
CSRFNeedsSession == \A k \in csrf : session[k].state = "live"

\* The administration is guarded: both of them.
AdminIsGuarded == GuessingIsSlow /\ CSRFNeedsSession
=============================================================================
