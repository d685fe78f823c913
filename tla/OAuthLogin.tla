----------------------------- MODULE OAuthLogin -----------------------------
(***************************************************************************)
(* Login of the users at the LinuxDO OAuth provider                        *)
(* (internal/linuxdo/oauth.go, internal/store/sessions_user.go and the     *)
(* handlers of internal/httpserver/routes.go).                             *)
(*                                                                         *)
(* A login is named by its state, a random value that the browser carries  *)
(* in a cookie and in the address the provider sends it back to.  States   *)
(* live in memory, user sessions in SQLite.  Between the check of the      *)
(* state and the new session lie two requests to the provider; the handler *)
(* is cancelled with the browser's connection or ends with the process.    *)
(***************************************************************************)
EXTENDS Naturals

CONSTANTS
    Browsers, Logins,
    NoLogin,
    StateTTL, UserTTL,
    OAuthEnd        \* bound on the clock

ASSUME OAuthAssumption ==
    /\ {StateTTL, UserTTL, OAuthEnd} \subseteq Nat \ {0}
    /\ NoLogin \notin Logins

VARIABLES
    oauthNow,
    oauth,          \* Service.states with their deadlines
    stateCookie,    \* per browser: relayscope_oauth_state
    callback,       \* per login: the browser and step of its callback
    userSession,    \* per login: its row of user_sessions
    userCookie,     \* per browser: relayscope_user
    begunBy,        \* history: the browser that began a login
    admitted        \* history: how often a callback went on with the state

oauthVars == <<oauthNow, oauth, stateCookie, callback, userSession, userCookie,
               begunBy, admitted>>

Waiting == [pc |-> "idle"]

OAuthTypeOK ==
    /\ oauthNow \in 1..OAuthEnd
    /\ oauth \in [Logins -> [state : {"new", "open", "used", "gone"},
                             deadline : 0..(OAuthEnd + StateTTL)]]
    /\ stateCookie \in [Browsers -> Logins \cup {NoLogin}]
    /\ callback \in [Logins -> {Waiting} \cup [pc : {"provider", "session"}, browser : Browsers]]
    /\ userSession \in [Logins -> [state : {"none", "live", "gone"}, expires : 0..(OAuthEnd + UserTTL)]]
    /\ userCookie \in [Browsers -> Logins \cup {NoLogin}]
    /\ begunBy \in [Logins -> Browsers \cup {NoLogin}]
    /\ admitted \in [Logins -> 0..1]

OAuthInit ==
    /\ oauthNow = 1
    /\ oauth = [x \in Logins |-> [state |-> "new", deadline |-> 0]]
    /\ stateCookie = [b \in Browsers |-> NoLogin]
    /\ callback = [x \in Logins |-> Waiting]
    /\ userSession = [x \in Logins |-> [state |-> "none", expires |-> 0]]
    /\ userCookie = [b \in Browsers |-> NoLogin]
    /\ begunBy = [x \in Logins |-> NoLogin]
    /\ admitted = [x \in Logins |-> 0]

\* cleanupStatesLocked.
OpenStates == [x \in Logins |->
                 IF oauth[x].state = "open" /\ oauth[x].deadline <= oauthNow
                   THEN [oauth[x] EXCEPT !.state = "gone"] ELSE oauth[x]]

-----------------------------------------------------------------------------

\* A browser keeps one cookie: a login begun in a second tab replaces it.
Begin(b, x) ==
    /\ oauth[x].state = "new"
    /\ oauth' = [OpenStates EXCEPT ![x] = [state |-> "open", deadline |-> oauthNow + StateTTL]]
    /\ stateCookie' = [stateCookie EXCEPT ![b] = x]
    /\ begunBy' = [begunBy EXCEPT ![x] = b]
    /\ UNCHANGED <<oauthNow, callback, userSession, userCookie, admitted>>

\* Variant: the state stays until it expires.
CallbackKeeping(b, x) ==
    /\ callback[x] = Waiting /\ stateCookie[b] = x /\ OpenStates[x].state = "open"
    /\ oauth' = OpenStates
    /\ callback' = [callback EXCEPT ![x] = [pc |-> "provider", browser |-> b]]
    /\ admitted' = [admitted EXCEPT ![x] = @ + 1]
    /\ UNCHANGED <<oauthNow, stateCookie, userSession, userCookie, begunBy>>

\* Any browser may be sent to the callback with any state, also twice: the
\* answer clears the cookie, but may not arrive.  The state is removed once the
\* cookie agrees.
Callback(b, x) ==
    /\ oauth[x].state # "new" /\ callback[x] = Waiting
    /\ \E cookie \in {stateCookie[b], NoLogin} : stateCookie' = [stateCookie EXCEPT ![b] = cookie]
    /\ LET accepted == stateCookie[b] = x /\ OpenStates[x].state = "open"
       IN  /\ oauth' = IF accepted THEN [OpenStates EXCEPT ![x].state = "used"]
                       ELSE IF stateCookie[b] = x THEN OpenStates ELSE oauth
           /\ callback' = IF accepted
                            THEN [callback EXCEPT ![x] = [pc |-> "provider", browser |-> b]]
                            ELSE callback
           /\ admitted' = IF accepted THEN [admitted EXCEPT ![x] = @ + 1] ELSE admitted
    /\ UNCHANGED <<oauthNow, userSession, userCookie, begunBy>>

\* The token and the profile arrive and the user's row is written, or one of
\* the three fails; nothing is tried again.
ProviderAnswers(x) ==
    /\ callback[x].pc = "provider"
    /\ \E next \in {[callback[x] EXCEPT !.pc = "session"], Waiting} :
          callback' = [callback EXCEPT ![x] = next]
    /\ UNCHANGED <<oauthNow, oauth, stateCookie, userSession, userCookie, begunBy, admitted>>

\* StartSession; the cookie reaches the browser, or the connection is gone.
StartSession(x) ==
    /\ callback[x].pc = "session"
    /\ userSession' = [userSession EXCEPT ![x] =
                         [state |-> "live", expires |-> oauthNow + UserTTL]]
    /\ \E reached \in BOOLEAN :
          userCookie' = IF reached THEN [userCookie EXCEPT ![callback[x].browser] = x]
                        ELSE userCookie
    /\ callback' = [callback EXCEPT ![x] = Waiting]
    /\ UNCHANGED <<oauthNow, oauth, stateCookie, begunBy, admitted>>

\* UserBySession: the row decides, whatever the cookie says.
LoggedIn(b) == LET x == userCookie[b]
               IN  x # NoLogin /\ userSession[x].state = "live" /\ userSession[x].expires > oauthNow

Logout(b) ==
    /\ userCookie[b] # NoLogin
    /\ userSession' = [userSession EXCEPT ![userCookie[b]].state = "gone"]
    /\ userCookie' = [userCookie EXCEPT ![b] = NoLogin]
    /\ UNCHANGED <<oauthNow, oauth, stateCookie, callback, begunBy, admitted>>

\* CleanupUserSessions, daily.
CleanupSessions ==
    /\ userSession' = [x \in Logins |->
          IF userSession[x].state = "live" /\ userSession[x].expires <= oauthNow
            THEN [userSession[x] EXCEPT !.state = "gone"] ELSE userSession[x]]
    /\ UNCHANGED <<oauthNow, oauth, stateCookie, callback, userCookie, begunBy, admitted>>

OAuthTick ==
    /\ oauthNow < OAuthEnd /\ oauthNow' = oauthNow + 1
    /\ UNCHANGED <<oauth, stateCookie, callback, userSession, userCookie, begunBy, admitted>>

OAuthRestart ==
    /\ oauth' = [x \in Logins |-> IF oauth[x].state = "open"
                                    THEN [oauth[x] EXCEPT !.state = "gone"] ELSE oauth[x]]
    /\ callback' = [x \in Logins |-> Waiting]
    /\ UNCHANGED <<oauthNow, stateCookie, userSession, userCookie, begunBy, admitted>>

OAuthNext ==
    \/ OAuthTick \/ OAuthRestart \/ CleanupSessions
    \/ \E b \in Browsers : Logout(b) \/ \E x \in Logins : Begin(b, x) \/ Callback(b, x)
    \/ \E x \in Logins : ProviderAnswers(x) \/ StartSession(x)

OAuthSpec == OAuthInit /\ [][OAuthNext]_oauthVars

-----------------------------------------------------------------------------
(* Properties.                                                             *)

\* A browser is logged in by a login it began itself, never by an address that
\* somebody else's browser was to be sent back to.
LoggedInWhereBegun ==
    \A b \in Browsers : userCookie[b] # NoLogin => begunBy[userCookie[b]] = b

\* A login lasts until it expires or its user logs out: a restart, the daily
\* cleanup and another browser's login or logout do not end it.
StaysLoggedIn ==
    [][\A b \in Browsers :
          LoggedIn(b) /\ userCookie'[b] = userCookie[b] /\ oauthNow' = oauthNow
            => LoggedIn(b)']_oauthVars

\* States are tickets: a second callback, a late one and one after a restart
\* start no session.
loginTickets == [x \in Logins |->
                   [phase |-> IF oauth[x].state = "new" THEN "none" ELSE oauth[x].state,
                    deadline |-> oauth[x].deadline, uses |-> admitted[x]]]
LoginTickets == INSTANCE Tickets WITH
    Ticket <- Logins, Life <- [x \in Logins |-> StateTTL], ticket <- loginTickets,
    now <- oauthNow
LoginTicketsOnce == LoginTickets!Spec

\* What is promised of logins: the three of them.
LoginsHold == LoginTicketsOnce /\ []LoggedInWhereBegun /\ StaysLoggedIn
=============================================================================
