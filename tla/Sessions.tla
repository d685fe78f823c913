------------------------------ MODULE Sessions ------------------------------
(***************************************************************************)
(* Credentials of the sites that want a login: the encrypted sessions      *)
(* (internal/store/sessions.go, internal/session/crypto.go), their         *)
(* rotation while a site is collected (internal/session/provider.go) and   *)
(* the administrator's imports and deletions (internal/httpserver/         *)
(* sessionimport.go, admin_routes.go, internal/session/allapihub.go).      *)
(*                                                                         *)
(* A site accepts access tokens for a while and takes each Sub2API refresh *)
(* token once, handing out a new pair; NewAPI takes a cookie, which it may *)
(* replace.  A token is the number of the pair it was issued in.  A site   *)
(* is collected by one goroutine at a time (Collection) and its requests   *)
(* follow one another; imports and deletions come at any time.  What is    *)
(* encrypted, and how, is left out: a row is the credentials it decrypts   *)
(* to.                                                                     *)
(***************************************************************************)
EXTENDS Naturals

CONSTANTS
    Sites,
    Importers,      \* import requests in progress
    Switch,         \* what administrators may set the switch of a site to
    MaxToken,       \* bound on the pairs the sites issue
    MaxFaults,      \* bound on the answers and writes that are lost
    None

ASSUME SessionAssumption ==
    MaxToken \in Nat /\ MaxFaults \in Nat /\ Switch \subseteq BOOLEAN
ASSUME NoneAssumption == None \notin Sites

VARIABLES
    \* rows of SQLite
    vault,          \* encrypted_sessions, NoData for no row
    required, enabled,      \* of sites
    \* the sites
    issued,         \* pairs issued so far
    live,           \* refresh tokens that are accepted
    good,           \* access tokens that are accepted
    age,            \* of an access token, by its recorded expiry
    \* the process
    col,            \* per site, its collection
    lock,           \* sub2APIRefreshMu and newAPIRefreshMu: the site inside
    imp,            \* per import request
    \* histories
    used, replayed, \* refresh tokens we used up, and sent again after that
    orphaned,       \* refresh tokens whose successor was lost, that the site
                    \* gave up, or whose row was taken from a collection
    cleared,        \* sites whose login flag an administrator cleared
    faults

rows == <<vault, required, enabled>>
site == <<issued, live, good, age>>
history == <<used, replayed, orphaned, cleared, faults>>
vars == <<rows, site, col, lock, imp, history>>

Tokens == 1..MaxToken
Kinds == {"sub2api", "newapi"}
NoData == [kind |-> "none"]
Pair == [kind : Kinds, access : Tokens, refresh : Tokens]
Static == [kind : {"static"}, access : Tokens]      \* cookies or a system token
Data == Pair \cup Static
Age == {"fresh", "due", "past"}     \* due: two minutes are left

IdleCol == [pc |-> "idle"]
Col == {IdleCol}
    \cup [pc : {"request"}, held : Data]
    \cup [pc : {"lock"}, held : Pair, force : BOOLEAN]
    \cup [pc : {"exchange"}, held : Pair, force : BOOLEAN, cur : Pair]
    \cup [pc : {"save"}, held : Pair, force : BOOLEAN, cur : Pair, from : Tokens]
IdleImp == [step |-> "idle"]
Imp == {IdleImp}
    \cup [step : {"exchange", "flag", "save"}, site : Sites, data : Data,
          required : BOOLEAN, enabled : BOOLEAN]

\* The mutex of a kind is held by the one collection that is exchanging a
\* pair of that kind, or saving one.
TypeOK ==
    /\ vault \in [Sites -> {NoData} \cup Data]
    /\ required \in [Sites -> BOOLEAN] /\ enabled \in [Sites -> BOOLEAN]
    /\ issued \in 0..MaxToken
    /\ live \subseteq 1..issued /\ good \subseteq 1..issued
    /\ age \in [Tokens -> Age]
    /\ col \in [Sites -> Col]
    /\ lock \in [Kinds -> Sites \cup {None}]
    /\ \A s \in Sites, k \in Kinds :
          lock[k] = s <=> col[s].pc \in {"exchange", "save"} /\ col[s].held.kind = k
    /\ imp \in [Importers -> Imp]
    /\ used \subseteq Tokens /\ replayed \subseteq used
    /\ orphaned \subseteq Tokens /\ cleared \subseteq Sites
    /\ faults \in 0..MaxFaults

Init ==
    /\ vault = [s \in Sites |-> NoData]
    /\ required \in [Sites -> BOOLEAN]
    /\ enabled = [s \in Sites |-> TRUE]
    /\ issued = 0 /\ live = {} /\ good = {}
    /\ age = [t \in Tokens |-> "fresh"]
    /\ col = [s \in Sites |-> IdleCol]
    /\ lock = [k \in Kinds |-> None]
    /\ imp = [i \in Importers |-> IdleImp]
    /\ used = {} /\ replayed = {} /\ orphaned = {} /\ cleared = {} /\ faults = 0

Fault == faults < MaxFaults /\ faults' = faults + 1
Goto(s, c) == col' = [col EXCEPT ![s] = c]

-----------------------------------------------------------------------------
(* The site.  An exchange of the refresh token r issues a pair, unless r   *)
(* is not accepted; the answer may be lost on the way.                     *)

Fresh == issued + 1

\* A new pair, in place of the refresh tokens that are used up by it.
Issue(spent) ==
    /\ issued < MaxToken /\ issued' = issued + 1
    /\ live' = (live \ spent) \cup {Fresh}
    /\ good' = good \cup {Fresh}

\* A request with a Sub2API refresh token r: pass is said of a complete
\* answer, fail of everything else.
ExchangeToken(r, pass, fail) ==
    /\ replayed' = replayed \cup (used \cap {r})
    /\ \/ /\ r \in live /\ Issue({r}) /\ used' = used \cup {r}
          /\ \/ pass /\ UNCHANGED <<orphaned, faults>>
             \/ fail /\ Fault /\ orphaned' = orphaned \cup {r}
       \/ /\ r \notin live /\ fail
          /\ UNCHANGED <<issued, live, good, used, orphaned, faults>>
       \/ fail /\ Fault /\ UNCHANGED <<issued, live, good, used, orphaned>>

\* NewAPI issues an access token for a cookie; with keep the cookie stays.
RefreshCookie(r, keep, pass, fail) ==
    /\ UNCHANGED <<used, replayed, orphaned>>
    /\ \/ /\ r \in live /\ pass /\ UNCHANGED faults
          /\ issued < MaxToken /\ issued' = issued + 1
          /\ good' = good \cup {Fresh}
          /\ live' = IF keep THEN live ELSE (live \ {r}) \cup {Fresh}
       \/ r \notin live /\ fail /\ UNCHANGED <<issued, live, good, faults>>
       \/ fail /\ Fault /\ UNCHANGED <<issued, live, good>>

\* Time passes, and a site may reject an access token before its expiry or
\* give up a whole family of tokens.  It matters for the credentials that are
\* stored or in use.
TokensOf(d) == {d.access} \cup (IF d.kind \in Kinds THEN {d.refresh} ELSE {})
InUse ==
    UNION ({TokensOf(vault[s]) : s \in {v \in Sites : vault[v] # NoData}}
           \cup {TokensOf(col[s].held) : s \in {v \in Sites : col[v] # IdleCol}}
           \cup {TokensOf(imp[i].data) : i \in {j \in Importers : imp[j] # IdleImp}})

GetOlder(t) ==
    /\ age[t] # "past"
    /\ age' = [age EXCEPT ![t] = IF @ = "fresh" THEN "due" ELSE "past"]
    /\ UNCHANGED <<rows, issued, live, good, col, lock, imp, history>>

Reject(t) ==
    /\ t \in good /\ good' = good \ {t}
    /\ UNCHANGED <<rows, issued, live, age, col, lock, imp, history>>

Revoke(t) ==
    /\ t \in live /\ live' = live \ {t} /\ Fault
    /\ good' = good \ {t} /\ orphaned' = orphaned \cup {t}
    /\ UNCHANGED <<rows, issued, age, col, lock, imp, used, replayed, cleared>>

-----------------------------------------------------------------------------
(* A collection.                                                           *)

\* FetcherForSite loads the credentials; a pair that is due is rotated first,
\* and without credentials the site is read in public.
Start(s) ==
    /\ col[s] = IdleCol /\ enabled[s] /\ required[s] /\ vault[s] # NoData
    /\ Goto(s, IF vault[s].kind \in Kinds /\ age[vault[s].access] # "fresh"
                 THEN [pc |-> "lock", held |-> vault[s], force |-> FALSE]
                 ELSE [pc |-> "request", held |-> vault[s]])
    /\ UNCHANGED <<rows, site, lock, imp, history>>

\* The collection goes on with the data d: as its own after a proactive
\* rotation, for the one request to be repeated after a forced one, which is
\* over with it.
With(s, d) ==
    Goto(s, [pc |-> "request", held |-> IF col[s].force THEN col[s].held ELSE d])

\* Variant: the credentials the collection was given are rotated.
TakeUnloaded(s) ==
    LET k == col[s].held.kind
    IN  /\ col[s].pc = "lock" /\ lock[k] = None
        /\ Goto(s, [pc |-> "exchange", held |-> col[s].held, force |-> col[s].force,
                    cur |-> col[s].held])
        /\ lock' = [lock EXCEPT ![k] = s]
        /\ UNCHANGED <<rows, site, imp, history>>

\* Under the mutex the latest credentials are loaded: others than ours that
\* have not expired will do, and so will ours when they are not due any more.
\* Without any of our kind the ones in hand are rotated.
Take(s) ==
    LET c == col[s]
        k == c.held.kind
        latest == vault[s]
        usable == /\ latest.kind = k
                  /\ \/ age[latest.access] = "fresh" /\ ~c.force
                     \/ /\ k = "sub2api" /\ latest.refresh # c.held.refresh
                        /\ age[latest.access] # "past"
    IN  /\ c.pc = "lock" /\ lock[k] = None
        /\ IF usable
             THEN With(s, latest) /\ UNCHANGED lock
             ELSE /\ Goto(s, [pc |-> "exchange", held |-> c.held, force |-> c.force,
                              cur |-> IF latest.kind = k THEN latest ELSE c.held])
                  /\ lock' = [lock EXCEPT ![k] = s]
        /\ UNCHANGED <<rows, site, imp, history>>

\* Variant: the mutex stays locked on the way out.
FailLocked(s) == Goto(s, IdleCol) /\ UNCHANGED lock

\* The refresh fails: the collection ends, with the request's own rejection
\* when the refresh was forced by one.
Fail(s) == /\ Goto(s, IdleCol)
           /\ lock' = [lock EXCEPT ![col[s].held.kind] = None]

ToSave(s, refresh) ==
    /\ LET c == col[s]
       IN  Goto(s, [pc |-> "save", held |-> c.held, force |-> c.force,
                    cur |-> [kind |-> c.cur.kind, access |-> Fresh, refresh |-> refresh],
                    from |-> c.cur.refresh])
    /\ UNCHANGED lock

\* The cookie stays unless the answer replaces it.
CookieAfter(keep, old) == IF keep THEN old ELSE Fresh

Exchange(s) ==
    /\ col[s].pc = "exchange"
    /\ \/ /\ col[s].held.kind = "sub2api"
          /\ ExchangeToken(col[s].cur.refresh, ToSave(s, Fresh), Fail(s))
       \/ /\ col[s].held.kind = "newapi"
          /\ \E keep \in BOOLEAN :
                RefreshCookie(col[s].cur.refresh, keep,
                    ToSave(s, CookieAfter(keep, col[s].cur.refresh)), Fail(s))
    /\ UNCHANGED <<rows, age, imp, cleared>>

\* Vault.Save replaces whatever is stored by then.
Save(s) ==
    /\ col[s].pc = "save"
    /\ lock' = [lock EXCEPT ![col[s].held.kind] = None]
    /\ \/ /\ vault' = [vault EXCEPT ![s] = col[s].cur]
          /\ With(s, col[s].cur) /\ UNCHANGED <<orphaned, faults>>
       \/ /\ Goto(s, IdleCol) /\ Fault /\ UNCHANGED vault
          /\ orphaned' = orphaned \cup {col[s].from}
    /\ UNCHANGED <<required, enabled, site, imp, used, replayed, cleared>>

\* A request with the credentials in hand.  Only Sub2API recovers from a 401.
Request(s) ==
    /\ col[s].pc = "request"
    /\ LET d == col[s].held
       IN  \/ d.access \notin good /\ d.kind = "sub2api"
              /\ Goto(s, [pc |-> "lock", held |-> d, force |-> TRUE])
           \/ Goto(s, IdleCol)      \* rejected for good, or the last request
    /\ UNCHANGED <<rows, site, lock, imp, history>>

-----------------------------------------------------------------------------
(* Administration.                                                         *)

\* An import brings credentials the site has just issued: a pair with its
\* expiry or, from an All API Hub export, without (then it counts as past), a
\* bare refresh token to be exchanged first, or static credentials.  The
\* handler has read the site's row before.
Import(i, s) ==
    /\ imp[i] = IdleImp /\ Issue({})
    /\ \E kind \in Kinds \cup {"static"}, a \in {"fresh", "past"},
          step \in {"exchange", "flag"} :
          /\ step = "exchange" => kind = "sub2api"
          /\ a = "past" => kind = "sub2api"
          /\ age' = [age EXCEPT ![Fresh] = a]
          /\ imp' = [imp EXCEPT ![i] =
                [step |-> step, site |-> s, required |-> required[s],
                 enabled |-> enabled[s],
                 data |-> IF kind = "static" THEN [kind |-> kind, access |-> Fresh]
                          ELSE [kind |-> kind, access |-> Fresh, refresh |-> Fresh]]]
    /\ UNCHANGED <<rows, col, lock, history>>

ImportStep(i, r) == imp' = [imp EXCEPT ![i] = r]

\* ExchangeSub2APIToken returns a complete pair.
TakeNewPair(i) ==
    [imp[i] EXCEPT !.step = "flag",
                   !.data = [kind |-> "sub2api", access |-> Fresh, refresh |-> Fresh]]

ImportExchange(i) ==
    /\ imp[i].step = "exchange"
    /\ ExchangeToken(imp[i].data.refresh, ImportStep(i, TakeNewPair(i)),
                     ImportStep(i, IdleImp))
    /\ UNCHANGED <<rows, age, col, lock, cleared>>

\* ensureSessionRequired: a site without the flag is written back as it was
\* read, with the flag.
SetFlag(i) ==
    LET r == imp[i]
    IN  /\ r.step = "flag"
        /\ \/ /\ ImportStep(i, [r EXCEPT !.step = "save"])
              /\ IF r.required THEN UNCHANGED <<required, enabled>>
                 ELSE /\ required' = [required EXCEPT ![r.site] = TRUE]
                      /\ enabled' = [enabled EXCEPT ![r.site] = r.enabled]
              /\ UNCHANGED faults
           \/ ~r.required /\ ImportStep(i, IdleImp) /\ Fault
              /\ UNCHANGED <<required, enabled>>
        /\ UNCHANGED <<vault, site, col, lock, used, replayed, orphaned, cleared>>

\* What a running collection can send again when its row has become d.
Left(s, d) == IF col[s].pc # "idle" /\ col[s].held.kind \in Kinds \ {d.kind}
                THEN {col[s].held.refresh} ELSE {}

SaveImport(i) ==
    LET r == imp[i]
    IN  /\ r.step = "save"
        /\ ImportStep(i, IdleImp)
        /\ vault' = [vault EXCEPT ![r.site] = r.data]
        /\ orphaned' = orphaned \cup Left(r.site, r.data)
        /\ UNCHANGED <<required, enabled, site, col, lock, used, replayed, cleared,
                       faults>>

DeleteSession(s) ==
    /\ vault[s] # NoData /\ vault' = [vault EXCEPT ![s] = NoData]
    /\ orphaned' = orphaned \cup Left(s, NoData)
    /\ UNCHANGED <<required, enabled, site, col, lock, imp, used, replayed, cleared,
                   faults>>

\* PATCH /admin/sites/{id} writes the form, the switch and the flag included.
EditSite(s, on, login) ==
    /\ enabled' = [enabled EXCEPT ![s] = on]
    /\ required' = [required EXCEPT ![s] = login]
    /\ cleared' = IF login THEN cleared \ {s} ELSE cleared \cup {s}
    /\ UNCHANGED <<vault, site, col, lock, imp, used, replayed, orphaned, faults>>

\* The process dies and starts again.
Crash ==
    /\ Fault
    /\ col' = [s \in Sites |-> IdleCol]
    /\ lock' = [k \in Kinds |-> None]
    /\ imp' = [i \in Importers |-> IdleImp]
    /\ orphaned' = orphaned \cup {col[s].from : s \in {v \in Sites : col[v].pc = "save"}}
    /\ UNCHANGED <<rows, site, used, replayed, cleared>>

Next ==
    \/ Crash
    \/ \E s \in Sites :
          \/ Start(s) \/ Take(s) \/ Exchange(s) \/ Save(s) \/ Request(s)
          \/ DeleteSession(s)
          \/ \E on \in Switch, login \in BOOLEAN : EditSite(s, on, login)
          \/ \E i \in Importers : Import(i, s)
    \/ \E i \in Importers : ImportExchange(i) \/ SetFlag(i) \/ SaveImport(i)
    \/ \E t \in InUse : GetOlder(t) \/ Reject(t) \/ Revoke(t)

Spec == Init /\ [][Next]_vars

-----------------------------------------------------------------------------
(* Properties.                                                             *)

\* The stored refresh token is one the site accepts, or the collection that
\* has used it up is about to store the next: whatever is imported, deleted
\* or edited during a rotation, only a lost answer or write, or the site
\* itself, can leave a dead one behind.
StoredIsLive ==
    \A s \in Sites :
        vault[s].kind \in Kinds =>
            \/ vault[s].refresh \in live \cup orphaned
            \/ col[s].pc = "save" /\ col[s].from = vault[s].refresh

\* A single-use token is not sent twice, however often one collection runs
\* into a 401 with the credentials it began with; unless its successor was
\* lost, or the session was taken away from the running collection.
NeverReplayed == replayed \subseteq orphaned

\* Imported credentials are used: the login flag is up before they are
\* stored, and only an administrator takes it down.
ImportedIsRequired ==
    \A s \in Sites : vault[s] # NoData => required[s] \/ s \in cleared

\* What is promised of stored credentials: the three of them.
SessionsStayUsable == StoredIsLive /\ NeverReplayed /\ ImportedIsRequired
=============================================================================
